------------------------ MODULE PollScheduler_proofs ------------------------
(***************************************************************************)
(* Proofs about PollScheduler for every set of devices, every pool size,   *)
(* any number of resizing threads and every bound on what happens to them. *)
(***************************************************************************)
EXTENDS PollScheduler, FiniteSetTheorems, SequenceTheorems, TLAPS
-----------------------------------------------------------------------------
(* The inductive invariant, in parts.                                      *)

Reading == {r \in Resizer : resize[r].at = "read"}
Restarting == IF control.at # "none" /\ control.restart THEN 1 ELSE 0

\* The pools made, those about to be made and those that still can be.
Counted ==
    made + Cardinality(Reading) + Restarting + budget["resize"] + budget["control"]
        <= 1 + Budget["resize"] + Budget["control"]

\* The pool made last is the current one; those left to drain came before it,
\* and so did one that a resize has replaced.
Latest ==
    /\ executor = made
    /\ \A p \in draining : p < made
    /\ \A r \in Resizer :
          /\ resize[r].at # "none" => resize[r].previous \in 1..made
          /\ resize[r].at \in {"swapped", "shut"} => resize[r].previous < made

\* Where a poll of d is on its way, and where it has begun.
Calls(d) == {c \in Caller : call[c] # NoCall /\ call[c].dev = d}
Waits(d) == {x \in Pool \X (Nat \ {0}) :
                x[2] <= Len(waiting[x[1]]) /\ waiting[x[1]][x[2]] = d}
Taken(d) == {x \in Pool \X Worker : work[x[1]][x[2]] = [at |-> "taken", dev |-> d]}
Works(d) == Taken(d) \cup Polling(d)

Lone(S) == \A x, y \in S : x = y

\* There is one poll of d at most, in one place.
OnlyOne(d) ==
    /\ Lone(Calls(d)) /\ Lone(Waits(d)) /\ Lone(Works(d))
    /\ Calls(d) = {} \/ Waits(d) = {}
    /\ Calls(d) = {} \/ Works(d) = {}
    /\ Waits(d) = {} \/ Works(d) = {}

\* The markers say so: on its way it is queued, begun it is started.
Marked(d) ==
    /\ d \notin queued => Calls(d) = {} /\ Waits(d) = {} /\ Taken(d) = {}
    /\ d \notin started => Polling(d) = {}

Single == \A d \in Device \ orphaned : OnlyOne(d) /\ Marked(d)

-----------------------------------------------------------------------------
(* Types of what a step reads.                                             *)

\* A call is none, or has a device, and a pool once it has looked it up.
LEMMA CallType ==
    ASSUME TypeOK, NEW c \in Caller
    PROVE  /\ call[c].at \in {"none", "marked", "found"}
           /\ call[c] = NoCall <=> call[c].at = "none"
           /\ call[c] # NoCall => call[c].dev \in Device
           /\ call[c].at = "found" => call[c].pool \in Pool
  BY DEF TypeOK, NoCall

\* A worker is free, or has a device and is before or in its poll.
LEMMA WorkType ==
    ASSUME TypeOK, NEW p \in Pool, NEW w \in Worker
    PROVE  /\ work[p][w].at \in {"free", "taken", "polling"}
           /\ work[p][w] = Free <=> work[p][w].at = "free"
           /\ work[p][w] # Free
                => /\ work[p][w].dev \in Device
                   /\ work[p][w] = [at |-> work[p][w].at, dev |-> work[p][w].dev]
           /\ work[p] \in [Worker -> Doing] /\ work \in [Pool -> [Worker -> Doing]]
  BY DEF TypeOK, Free, Doing

\* A resize is none, or remembers a pool.
LEMMA ResizeType ==
    ASSUME TypeOK, NEW r \in Resizer
    PROVE  /\ resize[r].at \in {"none", "read", "swapped", "shut"}
           /\ resize[r] = NoCall <=> resize[r].at = "none"
           /\ resize[r] # NoCall => resize[r].previous \in Pool
           /\ resize[r] # NoCall
                => resize[r] = [at |-> resize[r].at, previous |-> resize[r].previous]
  BY DEF TypeOK, NoCall

\* What waits in a pool.
LEMMA QueueType ==
    ASSUME TypeOK, NEW p \in Pool
    PROVE  /\ waiting[p] \in Seq(Device) /\ Len(waiting[p]) \in Nat
           /\ waiting \in [Pool -> Seq(Device)]
           /\ waiting[p] # <<>>
                => /\ Head(waiting[p]) \in Device /\ Tail(waiting[p]) \in Seq(Device)
                   /\ Len(waiting[p]) > 0 /\ Head(waiting[p]) = waiting[p][1]
                   /\ Len(Tail(waiting[p])) = Len(waiting[p]) - 1
                   /\ \A i \in 1..Len(Tail(waiting[p])) :
                         Tail(waiting[p])[i] = waiting[p][i + 1]
<1>1. waiting[p] \in Seq(Device) /\ waiting \in [Pool -> Seq(Device)]
  BY DEF TypeOK
<1>2. Len(waiting[p]) \in Nat
  BY <1>1, LenProperties
<1>3. ASSUME waiting[p] # <<>>
      PROVE  /\ Head(waiting[p]) \in Device /\ Tail(waiting[p]) \in Seq(Device)
             /\ Len(waiting[p]) > 0 /\ Head(waiting[p]) = waiting[p][1]
             /\ Len(Tail(waiting[p])) = Len(waiting[p]) - 1
             /\ \A i \in 1..Len(Tail(waiting[p])) :
                   Tail(waiting[p])[i] = waiting[p][i + 1]
  <2>1. Len(waiting[p]) \in Nat \ {0}
    BY <1>1, <1>3, EmptySeq
  <2>2. Head(waiting[p]) = waiting[p][1]
    BY <1>1, <2>1
  <2>3. QED
    BY <1>1, <1>3, <2>1, <2>2, HeadTailProperties
<1>4. QED
  BY <1>1, <1>2, <1>3

\* The bounds are numbers, and so is what is left of them.
LEMMA BudgetType ==
    ASSUME TypeOK
    PROVE  /\ budget["resize"] \in Nat /\ budget["control"] \in Nat
           /\ Budget["resize"] \in Nat /\ Budget["control"] \in Nat
           /\ made \in Nat \ {0} /\ Restarting \in {0, 1}
           /\ 1..made \subseteq Pool
           /\ Pool = 1 .. (1 + Budget["resize"] + Budget["control"])
           /\ Loop \subseteq Caller /\ Web \in Caller /\ Web \notin Loop
<1>1. /\ budget["resize"] \in Nat /\ budget["control"] \in Nat
      /\ Budget["resize"] \in Nat /\ Budget["control"] \in Nat
  BY BoundAssumption DEF TypeOK, Disturbance
<1>2. made \in 1 .. (1 + Budget["resize"] + Budget["control"])
  BY DEF TypeOK, Pool
<1>3. Loop \subseteq Caller /\ Web \in Caller /\ Web \notin Loop
  BY <1>1 DEF Caller, Loop, Web
<1>4. QED
  BY <1>1, <1>2, <1>3 DEF Restarting, Pool

\* Only what was there before is spent, and by one.
LEMMA Spent ==
    ASSUME TypeOK, NEW k \in Disturbance, Spend(k)
    PROVE  /\ budget' \in [Disturbance -> Nat]
           /\ budget'[k] = budget[k] - 1
           /\ \A j \in Disturbance \ {k} : budget'[j] = budget[j]
  BY DEF TypeOK, Spend

\* The resizes about to make a pool are finitely many.
LEMMA ReadingFinite == IsFiniteSet(Reading) /\ Cardinality(Reading) \in Nat
<1>1. Reading \subseteq Resizer
  BY DEF Reading
<1>2. QED
  BY <1>1, ResizerAssumption, FS_Subset, FS_CardinalityType

-----------------------------------------------------------------------------
(* Type correctness.                                                       *)

\* What the invariant says at the start.
LEMMA TypeInit == Init => TypeOK /\ Counted /\ Latest
<1> SUFFICES ASSUME Init PROVE TypeOK /\ Counted /\ Latest
  OBVIOUS
<1>1. Pool \subseteq Nat /\ 1 \in Pool /\ 1 \in Loop
  BY BoundAssumption DEF Pool, Loop, Disturbance
<1>2. TypeOK
  <2>1. waiting \in [Pool -> Seq(Device)]
    BY EmptySeq DEF Init
  <2>2. work \in [Pool -> [Worker -> Doing]]
    BY DEF Init, Doing
  <2>3. /\ loop \in [Loop -> {"off", "wait", "pass"}]
        /\ todo \in [Loop -> SUBSET Device]
    BY DEF Init
  <2>4. /\ call \in [Caller -> {NoCall} \cup [at : {"marked"}, dev : Device]
                             \cup [at : {"found"}, dev : Device, pool : Pool]]
        /\ resize \in [Resizer -> {NoCall}
                     \cup [at : {"read", "swapped", "shut"}, previous : Pool]]
    BY DEF Init
  <2>5. /\ control \in [at : {"none", "asked", "cancelled", "joining"}, restart : BOOLEAN]
        /\ budget \in [Disturbance -> Nat]
    BY BoundAssumption DEF Init
  <2>6. /\ executor \notin draining
        /\ due \subseteq Device /\ queued \subseteq Device /\ started \subseteq Device
        /\ stop \in BOOLEAN /\ made \in Pool /\ executor \in 1..made
        /\ open \subseteq 1..made /\ draining \subseteq 1..made
        /\ orphaned \subseteq Device
    <3>1. made = 1 /\ executor = 1 /\ open = {1} /\ draining = {}
      BY DEF Init
    <3>2. 1 \in 1..made /\ {1} \subseteq 1..made
      BY <3>1
    <3> QED
      BY <1>1, <3>1, <3>2 DEF Init
  <2>7. QED
    BY <2>1, <2>2, <2>3, <2>4, <2>5, <2>6 DEF TypeOK
<1>3. Reading = {}
  BY DEF Init, Reading, NoCall
<1>4. Counted
  BY <1>3, FS_EmptySet, BoundAssumption DEF Init, Counted, Restarting, Disturbance
<1>5. Latest
  BY DEF Init, Latest, NoCall
<1>6. QED
  BY <1>2, <1>4, <1>5

\* What is counted already leaves room for one more.
LEMMA RoomInSum ==
    ASSUME NEW m \in Nat, NEW c \in Nat, NEW r \in Nat, NEW x \in Nat, NEW y \in Nat,
           NEW bound \in Nat, m + c + r + x + y <= bound, c + r >= 1
    PROVE  m + 1 <= bound
  OBVIOUS

\* A pool can be made: its number is within the bound.
LEMMA RoomForPool ==
    ASSUME TypeOK, Counted, Reading # {} \/ Restarting = 1
    PROVE  made + 1 \in Pool
<1>1. Cardinality(Reading) \in Nat /\ (Reading # {} => Cardinality(Reading) # 0)
  BY ReadingFinite, FS_EmptySet
<1>2. Cardinality(Reading) + Restarting >= 1
  BY <1>1, BudgetType
<1>3. /\ made \in Nat \ {0} /\ Restarting \in {0, 1}
      /\ budget["resize"] \in Nat /\ budget["control"] \in Nat
      /\ Budget["resize"] \in Nat /\ Budget["control"] \in Nat
      /\ Pool = 1 .. (1 + Budget["resize"] + Budget["control"])
  BY BudgetType
<1>4. made + Cardinality(Reading) + Restarting + budget["resize"] + budget["control"]
          <= 1 + Budget["resize"] + Budget["control"]
  BY DEF Counted
<1> DEFINE bound == 1 + Budget["resize"] + Budget["control"]
<1>5. bound \in Nat
  BY <1>3
<1> HIDE DEF bound
<1>6. made + 1 <= bound
  BY <1>1, <1>2, <1>3, <1>4, <1>5, RoomInSum DEF bound
<1>7. QED
  BY <1>3, <1>6 DEF bound

\* The steps of the scheduling threads and of their calls.
LEMMA TypeScheduling ==
    ASSUME TypeOK, Latest,
           \/ \E l \in Loop : Scheduling(l) \/ PassRaises(l)
           \/ \E c \in Caller : Submitting(c)
           \/ \E d \in Device : IntervalPasses(d) \/ PollNow(d)
    PROVE  TypeOK'
<1> USE DEF markers, pools, threads
<1>1. ASSUME NEW l \in Loop, PassStart(l) \/ PassDone(l) \/ LoopEnds(l) PROVE TypeOK'
  BY <1>1, BudgetType DEF PassStart, PassDone, LoopEnds, TypeOK
<1>2. ASSUME NEW l \in Loop, NEW d \in Device, Consider(l, d) PROVE TypeOK'
  <2>1. /\ due' \subseteq Device /\ queued' \subseteq Device
        /\ todo' \in [Loop -> SUBSET Device]
    BY <1>2 DEF Consider, TypeOK
  <2>2. call' = call \/ call' = [call EXCEPT ![l] = [at |-> "marked", dev |-> d]]
    BY <1>2 DEF Consider
  <2>3. call' \in [Caller -> {NoCall} \cup [at : {"marked"}, dev : Device]
                             \cup [at : {"found"}, dev : Device, pool : Pool]]
    <3>1. [at |-> "marked", dev |-> d] \in [at : {"marked"}, dev : Device]
      OBVIOUS
    <3>2. call \in [Caller -> {NoCall} \cup [at : {"marked"}, dev : Device]
                             \cup [at : {"found"}, dev : Device, pool : Pool]]
      BY DEF TypeOK
    <3> QED
      BY <2>2, <3>1, <3>2
  <2>4. UNCHANGED <<started, stop, pools, loop, resize, control, budget, orphaned>>
    BY <1>2 DEF Consider
  <2>5. QED
    BY <2>1, <2>3, <2>4 DEF TypeOK
<1>3. ASSUME NEW l \in Loop, PassRaises(l) PROVE TypeOK'
  <2>1. budget' \in [Disturbance -> Nat]
    BY <1>3, Spent DEF PassRaises, Disturbance
  <2>2. QED
    BY <1>3, <2>1 DEF PassRaises, TypeOK
<1>4. ASSUME NEW d \in Device, IntervalPasses(d) PROVE TypeOK'
  BY <1>4 DEF IntervalPasses, TypeOK
<1>5. ASSUME NEW d \in Device, PollNow(d) PROVE TypeOK'
  <2>1. budget' \in [Disturbance -> Nat]
    BY <1>5, Spent DEF PollNow, Disturbance
  <2>2. QED
    BY <1>5, <2>1, BudgetType DEF PollNow, TypeOK
<1>6. ASSUME NEW c \in Caller, LookUp(c) PROVE TypeOK'
  <2>1. call[c].dev \in Device /\ executor \in Pool
    BY <1>6, CallType, BudgetType DEF LookUp, TypeOK
  <2>2. QED
    BY <1>6, <2>1 DEF LookUp, TypeOK
<1>7. ASSUME NEW c \in Caller, Hand(c) PROVE TypeOK'
  <2>1. call[c].dev \in Device /\ call[c].pool \in Pool
    BY <1>7, CallType DEF Hand
  <2>2. Append(waiting[call[c].pool], call[c].dev) \in Seq(Device)
    BY <2>1, QueueType, AppendProperties
  <2>3. waiting' \in [Pool -> Seq(Device)]
    BY <1>7, <2>1, <2>2 DEF Hand, TypeOK
  <2>4. QED
    BY <1>7, <2>3 DEF Hand, TypeOK
<1>8. ASSUME NEW c \in Caller, Refused(c) PROVE TypeOK'
  BY <1>8 DEF Refused, WithoutMarker, TypeOK
<1>9. QED
  BY <1>1, <1>2, <1>3, <1>4, <1>5, <1>6, <1>7, <1>8 DEF Scheduling, Submitting

\* The steps of the workers.
LEMMA TypeWorking ==
    ASSUME TypeOK, NEW p \in Pool, Working(p)
    PROVE  TypeOK'
<1> USE DEF markers, threads
<1>1. ASSUME Take(p) PROVE TypeOK'
  <2>1. Head(waiting[p]) \in Device /\ Tail(waiting[p]) \in Seq(Device)
    BY <1>1, QueueType DEF Take
  <2>2. waiting' \in [Pool -> Seq(Device)]
    BY <1>1, <2>1, QueueType DEF Take
  <2>3. PICK w \in Worker :
           work' = [work EXCEPT ![p][w] = [at |-> "taken", dev |-> Head(waiting[p])]]
    BY <1>1 DEF Take, FirstFree
  <2>4. work' \in [Pool -> [Worker -> Doing]]
    BY <2>1, <2>3 DEF TypeOK, Doing
  <2>5. QED
    BY <1>1, <2>2, <2>4 DEF Take, TypeOK
<1>2. ASSUME NEW w \in Worker, RunOne(p, w) PROVE TypeOK'
  <2>1. work[p][w].dev \in Device
        /\ work[p][w] = [at |-> "taken", dev |-> work[p][w].dev]
    BY <1>2, WorkType DEF RunOne
  <2>2. work' = [work EXCEPT ![p] = [work[p] EXCEPT ![w] =
                    [at |-> "polling", dev |-> work[p][w].dev]]]
    <3>1. [work[p][w] EXCEPT !.at = "polling"] = [at |-> "polling", dev |-> work[p][w].dev]
      BY <2>1
    <3>2. work' = [work EXCEPT ![p][w] = [work[p][w] EXCEPT !.at = "polling"]]
      BY <1>2 DEF RunOne
    <3> QED
      BY <3>1, <3>2
  <2>3. work' \in [Pool -> [Worker -> Doing]]
    BY <2>1, <2>2 DEF TypeOK, Doing
  <2>4. QED
    BY <1>2, <2>1, <2>3 DEF RunOne, TypeOK
<1>3. ASSUME NEW w \in Worker, PollEnds(p, w) PROVE TypeOK'
  <2>1. work' \in [Pool -> [Worker -> Doing]]
    BY <1>3 DEF PollEnds, TypeOK, Doing
  <2>2. QED
    BY <1>3, <2>1 DEF PollEnds, TypeOK
<1>4. QED
  BY <1>1, <1>2, <1>3 DEF Working

\* What makes no pool and neither resizes nor stops leaves the count as it is.
LEMMA CountUntouched ==
    ASSUME Counted, Latest,
           UNCHANGED <<made, executor, draining, resize, control>>,
           budget'["resize"] = budget["resize"], budget'["control"] = budget["control"]
    PROVE  Counted' /\ Latest'
<1>1. Reading' = Reading /\ Restarting' = Restarting
  BY DEF Reading, Restarting
<1>2. QED
  BY <1>1 DEF Counted, Latest

\* The steps of a resize. The pool it replaces is an earlier one from the
\* moment it has made its own.
LEMMA TypeResizing ==
    ASSUME TypeOK, Counted, Latest, NEW r \in Resizer, Resizing(r) \/ ReadPrevious(r)
    PROVE  TypeOK' /\ Counted' /\ Latest'
<1> USE DEF markers, pools
<1>0. /\ executor = made /\ made \in Nat \ {0} /\ made \in Pool /\ 1..made \subseteq Pool
      /\ Restarting \in {0, 1} /\ Cardinality(Reading) \in Nat
      /\ budget["resize"] \in Nat /\ budget["control"] \in Nat
      /\ Budget["resize"] \in Nat /\ Budget["control"] \in Nat
  BY BudgetType, ReadingFinite DEF Latest, TypeOK
<1>1. CASE ReadPrevious(r)
  <2>1. /\ resize' = [resize EXCEPT ![r] = [at |-> "read", previous |-> executor]]
        /\ resize[r] = NoCall /\ Spend("resize")
        /\ UNCHANGED <<markers, pools, loop, todo, call, control, orphaned>>
    BY <1>1 DEF ReadPrevious
  <2>2. /\ budget' \in [Disturbance -> Nat] /\ budget'["resize"] = budget["resize"] - 1
        /\ budget'["control"] = budget["control"]
    BY <2>1, Spent DEF Disturbance
  <2>3. r \notin Reading /\ Reading' = Reading \cup {r}
    BY <2>1 DEF Reading, TypeOK, NoCall
  <2>4. Cardinality(Reading') = Cardinality(Reading) + 1
    BY <2>3, ReadingFinite, FS_AddElement
  <2>5. Restarting' = Restarting
    BY <2>1 DEF Restarting
  <2>6. Counted'
    <3>1. made' = made
      BY <2>1
    <3>2. QED
      BY <1>0, <2>2, <2>4, <2>5, <3>1 DEF Counted
  <2>7. Latest'
    BY <1>0, <2>1 DEF Latest, TypeOK
  <2>8. resize' \in [Resizer -> {NoCall}
                     \cup [at : {"read", "swapped", "shut"}, previous : Pool]]
    <3>1. [at |-> "read", previous |-> executor]
             \in [at : {"read", "swapped", "shut"}, previous : Pool]
      BY <1>0
    <3>2. QED
      BY <2>1, <3>1 DEF TypeOK
  <2>9. TypeOK'
    BY <2>1, <2>2, <2>8 DEF TypeOK
  <2>10. QED
    BY <2>6, <2>7, <2>9
<1>2. CASE Swap(r)
  <2>1. /\ resize' = [resize EXCEPT ![r].at = "swapped"] /\ resize[r].at = "read"
        /\ made' = made + 1 /\ executor' = made + 1 /\ open' = open \cup {made + 1}
        /\ UNCHANGED <<waiting, work, draining, due, queued, started, stop, loop,
                       todo, call, control, budget, orphaned>>
    BY <1>2 DEF Swap, NewPool
  <2>2. resize[r] = [at |-> "read", previous |-> resize[r].previous]
        /\ resize[r].previous \in 1..made
    BY <2>1, ResizeType DEF NoCall, Latest
  <2>3. resize' = [resize EXCEPT ![r] = [at |-> "swapped", previous |-> resize[r].previous]]
    <3>1. [resize[r] EXCEPT !.at = "swapped"]
             = [at |-> "swapped", previous |-> resize[r].previous]
      BY <2>2
    <3>2. QED
      BY <2>1, <3>1
  <2>4. Reading' = Reading \ {r} /\ r \in Reading
    BY <2>1, <2>3 DEF Reading, TypeOK
  <2>5. Cardinality(Reading') = Cardinality(Reading) - 1
    BY <2>4, ReadingFinite, FS_RemoveElement
  <2>6. made + 1 \in Pool
    BY <2>4, RoomForPool
  <2>7. Counted'
    <3>1. Restarting' = Restarting
      BY <2>1 DEF Restarting
    <3>2. QED
      BY <1>0, <2>1, <2>5, <3>1 DEF Counted
  <2>8. Latest'
    <3>1. \A p \in draining : p < made + 1
      BY <1>0 DEF Latest, TypeOK
    <3>2. ASSUME NEW q \in Resizer
          PROVE  /\ resize'[q].at # "none" => resize'[q].previous \in 1..(made + 1)
                 /\ resize'[q].at \in {"swapped", "shut"} => resize'[q].previous < made + 1
      <4>1. CASE q = r
        <5>1. resize'[q].previous = resize[r].previous
          BY <2>3, <4>1 DEF TypeOK
        <5>2. QED
          BY <1>0, <2>2, <5>1
      <4>2. CASE q # r
        <5>1. resize'[q] = resize[q]
          BY <2>3, <4>2 DEF TypeOK
        <5>2. /\ resize[q].at # "none" => resize[q].previous \in 1..made
              /\ resize[q].at \in {"swapped", "shut"} => resize[q].previous < made
          BY DEF Latest
        <5>3. resize[q].at \in {"swapped", "shut"} => resize[q].at # "none"
          OBVIOUS
        <5>4. QED
          BY <1>0, <5>1, <5>2, <5>3
      <4>3. QED
        BY <4>1, <4>2
    <3>3. QED
      BY <2>1, <3>1, <3>2 DEF Latest
  <2>9. TypeOK'
    <3>1. resize' \in [Resizer -> {NoCall}
                     \cup [at : {"read", "swapped", "shut"}, previous : Pool]]
      <4>1. [at |-> "swapped", previous |-> resize[r].previous]
               \in [at : {"read", "swapped", "shut"}, previous : Pool]
        BY <1>0, <2>2
      <4>2. QED
        BY <2>3, <4>1 DEF TypeOK
    <3>2. /\ made' \in Pool /\ executor' \in 1..made' /\ executor' \notin draining'
          /\ open' \subseteq 1..made' /\ draining' \subseteq 1..made'
      BY <1>0, <2>1, <2>6 DEF TypeOK, Latest
    <3>3. QED
      BY <2>1, <3>1, <3>2 DEF TypeOK
  <2>10. QED
    BY <2>7, <2>8, <2>9
<1>3. CASE ShutPrevious(r)
  <2>1. /\ resize' = [resize EXCEPT ![r].at = "shut"] /\ resize[r].at = "swapped"
        /\ open' \subseteq open
        /\ UNCHANGED <<made, executor, waiting, work, draining, due, queued, started,
                       stop, loop, todo, call, control, budget, orphaned>>
    BY <1>3 DEF ShutPrevious
  <2>2. /\ resize[r] = [at |-> "swapped", previous |-> resize[r].previous]
        /\ resize[r].previous \in 1..made /\ resize[r].previous < made
    BY <2>1, ResizeType DEF NoCall, Latest
  <2>3. resize' = [resize EXCEPT ![r] = [at |-> "shut", previous |-> resize[r].previous]]
    <3>1. [resize[r] EXCEPT !.at = "shut"] = [at |-> "shut", previous |-> resize[r].previous]
      BY <2>2
    <3>2. QED
      BY <2>1, <3>1
  <2>4. Reading' = Reading /\ Restarting' = Restarting
    <3>1. ASSUME NEW q \in Resizer PROVE resize'[q].at = "read" <=> resize[q].at = "read"
      <4>1. CASE q = r
        BY <2>1, <2>3, <4>1 DEF TypeOK
      <4>2. CASE q # r
        BY <2>3, <4>2 DEF TypeOK
      <4>3. QED
        BY <4>1, <4>2
    <3>2. QED
      BY <2>1, <3>1 DEF Reading, Restarting
  <2>5. Counted'
    BY <2>1, <2>4 DEF Counted
  <2>6. Latest'
    BY <2>1, <2>2, <2>3 DEF Latest, TypeOK
  <2>7. resize' \in [Resizer -> {NoCall}
                     \cup [at : {"read", "swapped", "shut"}, previous : Pool]]
    <3>1. [at |-> "shut", previous |-> resize[r].previous]
             \in [at : {"read", "swapped", "shut"}, previous : Pool]
      BY <1>0, <2>2
    <3>2. QED
      BY <2>3, <3>1 DEF TypeOK
  <2>8. TypeOK'
    BY <2>1, <2>7 DEF TypeOK
  <2>9. QED
    BY <2>5, <2>6, <2>8
<1>4. CASE KeepDraining(r)
  <2>1. /\ resize' = [resize EXCEPT ![r] = NoCall] /\ resize[r].at = "shut"
        /\ draining' = draining \cup {resize[r].previous}
        /\ UNCHANGED <<made, executor, open, waiting, work, due, queued, started,
                       stop, loop, todo, call, control, budget, orphaned>>
    BY <1>4 DEF KeepDraining, Previous
  <2>2. resize[r].previous \in 1..made /\ resize[r].previous < made
    BY <2>1 DEF Latest
  <2>3. Reading' = Reading /\ Restarting' = Restarting
    BY <2>1 DEF Reading, Restarting, TypeOK, NoCall
  <2>4. Counted'
    BY <2>1, <2>3 DEF Counted
  <2>5. Latest'
    <3>1. \A p \in draining' : p < made'
      BY <2>1, <2>2 DEF Latest
    <3>2. \A q \in Resizer : resize'[q] = resize[q] \/ resize'[q].at = "none"
      BY <2>1 DEF TypeOK, NoCall
    <3>3. QED
      BY <2>1, <3>1, <3>2 DEF Latest
  <2>6. executor' \notin draining' /\ draining' \subseteq 1..made'
    <3>1. executor \notin draining /\ draining \subseteq 1..made
      BY DEF TypeOK
    <3>2. executor # resize[r].previous
      BY <1>0, <2>2
    <3>3. QED
      BY <2>1, <2>2, <3>1, <3>2
  <2>7. TypeOK'
    BY <2>1, <2>6 DEF TypeOK
  <2>8. QED
    BY <2>4, <2>5, <2>7
<1>5. QED
  BY <1>1, <1>2, <1>3, <1>4 DEF Resizing

\* The steps of a stop and of a start.
LEMMA TypeControlling ==
    ASSUME TypeOK, Counted, Latest, AskStop \/ Controlling
    PROVE  TypeOK' /\ Counted' /\ Latest'
<1> USE DEF markers, pools
<1>0. /\ executor = made /\ made \in Nat \ {0} /\ made \in Pool /\ 1..made \subseteq Pool
      /\ Restarting \in {0, 1} /\ Cardinality(Reading) \in Nat
      /\ budget["resize"] \in Nat /\ budget["control"] \in Nat
      /\ Budget["resize"] \in Nat /\ Budget["control"] \in Nat
      /\ control \in [at : {"none", "asked", "cancelled", "joining"}, restart : BOOLEAN]
  BY BudgetType, ReadingFinite DEF Latest, TypeOK
<1>1. CASE AskStop
  <2>1. /\ \E again \in BOOLEAN : control' = [at |-> "asked", restart |-> again]
        /\ control.at = "none" /\ stop' = TRUE /\ Spend("control")
        /\ UNCHANGED <<due, queued, started, pools, loop, todo, call, resize, orphaned>>
    BY <1>1 DEF AskStop
  <2>2. /\ budget' \in [Disturbance -> Nat] /\ budget'["control"] = budget["control"] - 1
        /\ budget'["resize"] = budget["resize"]
    BY <2>1, Spent DEF Disturbance
  <2>3. Reading' = Reading /\ Restarting = 0 /\ Restarting' \in {0, 1}
    BY <2>1 DEF Reading, Restarting
  <2>4. Counted'
    <3>1. made' = made
      BY <2>1
    <3>2. QED
      BY <1>0, <2>2, <2>3, <3>1 DEF Counted
  <2>5. Latest'
    BY <2>1 DEF Latest
  <2>6. TypeOK'
    BY <2>1, <2>2 DEF TypeOK
  <2>7. QED
    BY <2>4, <2>5, <2>6
<1>2. ASSUME NEW S \in SUBSET Pool PROVE Cancelled(S) \in [Pool -> Seq(Device)]
  BY EmptySeq DEF Cancelled, TypeOK
<1>3. CASE CancelCurrent
  <2>1. /\ open' \subseteq open /\ waiting' \in [Pool -> Seq(Device)]
        /\ control' = [control EXCEPT !.at = "cancelled"] /\ control.at = "asked"
        /\ UNCHANGED <<markers, executor, made, work, draining, loop, todo, call,
                   resize, budget, orphaned>>
    BY <1>0, <1>2, <1>3 DEF CancelCurrent
  <2>2. Reading' = Reading /\ Restarting' = Restarting
    BY <1>0, <2>1 DEF Reading, Restarting
  <2>3. Counted' /\ Latest'
    BY <2>1, <2>2 DEF Counted, Latest
  <2>4. TypeOK'
    BY <1>0, <2>1 DEF TypeOK
  <2>5. QED
    BY <2>3, <2>4
<1>4. CASE ClearMarkers
  <2>1. /\ open' \subseteq open /\ waiting' \in [Pool -> Seq(Device)]
        /\ control' = [control EXCEPT !.at = "joining"] /\ control.at = "cancelled"
        /\ draining' = {} /\ queued' = {}
        /\ UNCHANGED <<due, started, stop, executor, made, work, loop, todo, call,
                   resize, budget>>
    BY <1>0, <1>2, <1>4 DEF ClearMarkers, MarkersLeft, TypeOK
  <2>2. orphaned' \subseteq Device
    BY <1>4 DEF ClearMarkers, OnTheWay, TypeOK
  <2>3. Reading' = Reading /\ Restarting' = Restarting
    BY <1>0, <2>1 DEF Reading, Restarting
  <2>4. Counted' /\ Latest'
    BY <2>1, <2>3 DEF Counted, Latest
  <2>5. TypeOK'
    BY <1>0, <2>1, <2>2 DEF TypeOK
  <2>6. QED
    BY <2>4, <2>5
<1>5. CASE Stopped
  <2>1. /\ control' = [control EXCEPT !.at = "none"] /\ control.at = "joining"
        /\ ~control.restart
        /\ UNCHANGED <<markers, pools, loop, todo, call, resize, budget, orphaned>>
    BY <1>5 DEF Stopped
  <2>2. Reading' = Reading /\ Restarting' = Restarting
    BY <1>0, <2>1 DEF Reading, Restarting
  <2>3. Counted' /\ Latest'
    BY <2>1, <2>2 DEF Counted, Latest
  <2>4. TypeOK'
    BY <1>0, <2>1 DEF TypeOK
  <2>5. QED
    BY <2>3, <2>4
<1>6. CASE Start
  <2>1. /\ control' = [control EXCEPT !.at = "none"] /\ control.at = "joining"
        /\ control.restart /\ stop' = FALSE
        /\ made' = made + 1 /\ executor' = made + 1 /\ open' = open \cup {made + 1}
        /\ \E l \in Loop : loop' = [loop EXCEPT ![l] = "wait"]
        /\ UNCHANGED <<waiting, work, draining, due, queued, started, todo, call,
                       resize, budget, orphaned>>
    BY <1>6 DEF Start, NewPool
  <2>2. Restarting = 1 /\ Restarting' = 0 /\ Reading' = Reading
    BY <1>0, <2>1 DEF Reading, Restarting
  <2>3. made + 1 \in Pool
    BY <2>2, RoomForPool
  <2>4. Counted'
    BY <1>0, <2>1, <2>2 DEF Counted
  <2>5. Latest'
    <3>1. \A p \in draining : p < made + 1
      BY <1>0 DEF Latest, TypeOK
    <3>2. ASSUME NEW q \in Resizer
          PROVE  /\ resize[q].at # "none" => resize[q].previous \in 1..(made + 1)
                 /\ resize[q].at \in {"swapped", "shut"} => resize[q].previous < made + 1
      <4>1. /\ resize[q].at # "none" => resize[q].previous \in 1..made
            /\ resize[q].at \in {"swapped", "shut"} => resize[q].previous < made
        BY DEF Latest
      <4>2. resize[q].at \in {"swapped", "shut"} => resize[q].at # "none"
        OBVIOUS
      <4>3. QED
        BY <1>0, <4>1, <4>2
    <3>3. QED
      BY <2>1, <3>1, <3>2 DEF Latest
  <2>6. TypeOK'
    <3>1. /\ made' \in Pool /\ executor' \in 1..made' /\ executor' \notin draining'
          /\ open' \subseteq 1..made' /\ draining' \subseteq 1..made'
      BY <1>0, <2>1, <2>3 DEF TypeOK, Latest
    <3>2. loop' \in [Loop -> {"off", "wait", "pass"}]
      BY <2>1 DEF TypeOK
    <3>3. control' \in [at : {"none", "asked", "cancelled", "joining"}, restart : BOOLEAN]
      BY <1>0, <2>1
    <3>4. QED
      BY <2>1, <3>1, <3>2, <3>3 DEF TypeOK
  <2>7. QED
    BY <2>4, <2>5, <2>6
<1>7. QED
  BY <1>1, <1>3, <1>4, <1>5, <1>6 DEF Controlling

-----------------------------------------------------------------------------
(* Markers.                                                                *)

\* Whoever has a poll on its way is where a poll on its way is looked for.
LEMMA OnTheWayIs ==
    TypeOK => \A d \in Device :
                 d \in OnTheWay(waiting)
                     <=> Calls(d) # {} \/ Waits(d) # {} \/ Taken(d) # {}
<1> SUFFICES ASSUME TypeOK, NEW d \in Device
             PROVE  d \in OnTheWay(waiting)
                      <=> Calls(d) # {} \/ Waits(d) # {} \/ Taken(d) # {}
  OBVIOUS
<1>1. (\E c \in Caller : call[c] # NoCall /\ call[c].dev = d) <=> Calls(d) # {}
  BY DEF Calls
<1>2. (\E p \in Pool : \E i \in 1..Len(waiting[p]) : waiting[p][i] = d) <=> Waits(d) # {}
  <2>1. ASSUME NEW p \in Pool, NEW i \in 1..Len(waiting[p]), waiting[p][i] = d
        PROVE  <<p, i>> \in Waits(d)
    <3>1. Len(waiting[p]) \in Nat
      BY QueueType
    <3>2. i \in Nat \ {0} /\ i <= Len(waiting[p])
      BY <3>1
    <3>3. QED
      BY <2>1, <3>2 DEF Waits
  <2>2. ASSUME NEW x \in Waits(d)
        PROVE  \E p \in Pool : \E i \in 1..Len(waiting[p]) : waiting[p][i] = d
    <3>1. /\ x[1] \in Pool /\ x[2] \in Nat \ {0} /\ x[2] <= Len(waiting[x[1]])
          /\ waiting[x[1]][x[2]] = d
      BY DEF Waits
    <3>2. x[2] \in 1..Len(waiting[x[1]])
      BY <3>1, QueueType
    <3>3. QED
      BY <3>1, <3>2
  <2>3. QED
    BY <2>1, <2>2
<1>3. (\E p \in Pool : \E w \in Worker : work[p][w] = [at |-> "taken", dev |-> d])
         <=> Taken(d) # {}
  <2>1. ASSUME NEW p \in Pool, NEW w \in Worker, work[p][w] = [at |-> "taken", dev |-> d]
        PROVE  <<p, w>> \in Taken(d)
    BY <2>1 DEF Taken
  <2>2. ASSUME NEW x \in Taken(d)
        PROVE  \E p \in Pool : \E w \in Worker : work[p][w] = [at |-> "taken", dev |-> d]
    BY DEF Taken
  <2>3. QED
    BY <2>1, <2>2
<1>4. QED
  BY <1>1, <1>2, <1>3 DEF OnTheWay

\* A submission begins: one more call for its device.
LEMMA CallBegins ==
    ASSUME TypeOK, NEW c \in Caller, NEW d \in Device, call[c] = NoCall,
           call' = [call EXCEPT ![c] = [at |-> "marked", dev |-> d]]
    PROVE  \A e \in Device : Calls(e)' = IF e = d THEN Calls(e) \cup {c} ELSE Calls(e)
<1> SUFFICES ASSUME NEW e \in Device, NEW b \in Caller
             PROVE  (call'[b] # NoCall /\ call'[b].dev = e)
                       <=> (call[b] # NoCall /\ call[b].dev = e) \/ (b = c /\ e = d)
  BY DEF Calls
<1>1. CASE b = c
  BY <1>1 DEF TypeOK, NoCall
<1>2. CASE b # c
  BY <1>2 DEF TypeOK
<1>3. QED
  BY <1>1, <1>2

\* The pool is looked up: the call is still one for the same device.
LEMMA CallGoesOn ==
    ASSUME TypeOK, NEW c \in Caller, LookUp(c)
    PROVE  \A e \in Device : Calls(e)' = Calls(e)
<1> SUFFICES ASSUME NEW e \in Device, NEW b \in Caller
             PROVE  (call'[b] # NoCall /\ call'[b].dev = e)
                       <=> (call[b] # NoCall /\ call[b].dev = e)
  BY DEF Calls
<1>1. /\ call[c].at = "marked" /\ call[c] # NoCall
      /\ call' = [call EXCEPT ![c] =
                    [at |-> "found", dev |-> call[c].dev, pool |-> executor]]
  BY DEF LookUp, NoCall
<1>2. CASE b = c
  BY <1>1, <1>2 DEF TypeOK, NoCall
<1>3. CASE b # c
  BY <1>1, <1>3 DEF TypeOK
<1>4. QED
  BY <1>2, <1>3

\* The call is over, whether the pool took the poll or refused it.
LEMMA CallEnds ==
    ASSUME TypeOK, NEW c \in Caller, Hand(c) \/ Refused(c)
    PROVE  /\ c \in Calls(call[c].dev) /\ call[c].dev \in Device
           /\ \A e \in Device : Calls(e)' = Calls(e) \ {c}
<1>1. /\ call[c].at = "found" /\ call[c] # NoCall
      /\ call' = [call EXCEPT ![c] = NoCall]
  BY DEF Hand, Refused, NoCall
<1>2. c \in Calls(call[c].dev) /\ call[c].dev \in Device
  BY <1>1, CallType DEF Calls
<1>3. ASSUME NEW e \in Device, NEW b \in Caller
      PROVE  (call'[b] # NoCall /\ call'[b].dev = e)
               <=> (call[b] # NoCall /\ call[b].dev = e) /\ b # c
  <2>1. CASE b = c
    BY <1>1, <2>1 DEF TypeOK
  <2>2. CASE b # c
    BY <1>1, <2>2 DEF TypeOK
  <2>3. QED
    BY <2>1, <2>2
<1>4. ASSUME NEW e \in Device PROVE Calls(e)' = Calls(e) \ {c}
  BY <1>3 DEF Calls
<1>5. QED
  BY <1>2, <1>4

\* A pool takes a poll: it waits last.
LEMMA WaitBegins ==
    ASSUME TypeOK, NEW c \in Caller, Hand(c)
    PROVE  \E y : \A e \in Device :
              Waits(e)' = IF e = call[c].dev THEN Waits(e) \cup {y} ELSE Waits(e)
<1> DEFINE p == call[c].pool
           d == call[c].dev
           n == Len(waiting[p])
<1>1. p \in Pool /\ d \in Device
  BY CallType DEF Hand
<1>2. waiting[p] \in Seq(Device) /\ n \in Nat
  BY <1>1, QueueType
<1>3. waiting' = [waiting EXCEPT ![p] = Append(waiting[p], d)]
  BY DEF Hand
<1>4. /\ waiting'[p] = Append(waiting[p], d)
      /\ \A q \in Pool \ {p} : waiting'[q] = waiting[q]
  BY <1>1, <1>3 DEF TypeOK
<1>5. /\ Len(waiting'[p]) = n + 1 /\ waiting'[p][n + 1] = d
      /\ \A i \in 1..n : waiting'[p][i] = waiting[p][i]
  BY <1>1, <1>2, <1>4, AppendProperties
<1>6. ASSUME NEW e \in Device, NEW x \in Pool \X (Nat \ {0})
      PROVE  x \in Waits(e)' <=> x \in Waits(e) \/ (e = d /\ x = <<p, n + 1>>)
  <2>1. /\ x[1] \in Pool /\ x[2] \in Nat \ {0} /\ x = <<x[1], x[2]>>
        /\ x \in Waits(e)' <=> x[2] <= Len(waiting'[x[1]]) /\ waiting'[x[1]][x[2]] = e
        /\ x \in Waits(e) <=> x[2] <= Len(waiting[x[1]]) /\ waiting[x[1]][x[2]] = e
    BY DEF Waits
  <2> HIDE DEF p, d, n
  <2>2. CASE x[1] # p
    BY <1>4, <2>1, <2>2
  <2>3. CASE x[1] = p /\ x[2] \in 1..n
    BY <1>2, <1>5, <2>1, <2>3 DEF n
  <2>4. CASE x[1] = p /\ x[2] = n + 1
    <3>1. x \notin Waits(e)
      BY <1>2, <2>1, <2>4 DEF n
    <3>2. x = <<p, n + 1>> /\ (x \in Waits(e)' <=> e = d)
      BY <1>2, <1>5, <2>1, <2>4
    <3>3. QED
      BY <3>1, <3>2
  <2>5. CASE x[1] = p /\ x[2] > n + 1
    BY <1>2, <1>5, <2>1, <2>5 DEF n
  <2>6. QED
    BY <1>2, <2>1, <2>2, <2>3, <2>4, <2>5
<1>7. ASSUME NEW e \in Device
      PROVE  Waits(e)' = IF e = d THEN Waits(e) \cup {<<p, n + 1>>} ELSE Waits(e)
  <2>1. <<p, n + 1>> \in Pool \X (Nat \ {0})
    BY <1>1, <1>2
  <2>2. Waits(e)' \subseteq Pool \X (Nat \ {0}) /\ Waits(e) \subseteq Pool \X (Nat \ {0})
    BY DEF Waits
  <2> HIDE DEF p, d, n
  <2>3. QED
    BY <1>6, <2>1, <2>2
<1>8. QED
  BY <1>7

\* A worker takes the poll that waited longest; those behind it move up.
LEMMA WaitEnds ==
    ASSUME TypeOK, NEW p \in Pool, Take(p)
    PROVE  /\ Head(waiting[p]) \in Device /\ Waits(Head(waiting[p])) # {}
           /\ \A e \in Device :
                /\ Lone(Waits(e)) => Lone(Waits(e)')
                /\ Waits(e) = {} => Waits(e)' = {}
                /\ Lone(Waits(e)) /\ e = Head(waiting[p]) => Waits(e)' = {}
<1> DEFINE n == Len(waiting[p])
           Back(x) == IF x[1] = p THEN <<p, x[2] + 1>> ELSE x
<1>1. /\ n \in Nat /\ n > 0 /\ Head(waiting[p]) \in Device
      /\ Head(waiting[p]) = waiting[p][1] /\ Len(Tail(waiting[p])) = n - 1
      /\ \A i \in 1..(n - 1) : Tail(waiting[p])[i] = waiting[p][i + 1]
  BY QueueType DEF Take
<1>2. /\ waiting'[p] = Tail(waiting[p])
      /\ \A q \in Pool \ {p} : waiting'[q] = waiting[q]
  BY DEF Take, TypeOK
<1>3. <<p, 1>> \in Waits(Head(waiting[p]))
  BY <1>1 DEF Waits
<1>4. ASSUME NEW e \in Device, NEW x \in Waits(e)'
      PROVE  /\ Back(x) \in Waits(e) /\ Back(x) # <<p, 1>>
             /\ x = <<x[1], x[2]>> /\ x[2] \in Nat
  <2>1. /\ x \in Pool \X (Nat \ {0}) /\ x[1] \in Pool /\ x[2] \in Nat \ {0}
        /\ x = <<x[1], x[2]>>
        /\ x[2] <= Len(waiting'[x[1]]) /\ waiting'[x[1]][x[2]] = e
    BY DEF Waits
  <2>2. CASE x[1] = p
    <3>1. x[2] \in 1..(n - 1) /\ waiting[p][x[2] + 1] = e /\ x[2] + 1 <= n
      <4>1. waiting'[x[1]] = Tail(waiting[p])
        BY <1>2, <2>2
      <4>2. x[2] <= Len(Tail(waiting[p])) /\ Tail(waiting[p])[x[2]] = e
        BY <2>1, <4>1
      <4> HIDE DEF n
      <4>3. x[2] \in 1..(n - 1) /\ x[2] + 1 <= n
        BY <1>1, <2>1, <4>2
      <4>4. QED
        BY <1>1, <4>2, <4>3
    <3>2. <<p, x[2] + 1>> \in Waits(e) /\ <<p, x[2] + 1>> # <<p, 1>>
      BY <2>1, <3>1 DEF Waits
    <3>3. QED
      BY <2>1, <2>2, <3>2
  <2>3. CASE x[1] # p
    BY <1>2, <2>1, <2>3 DEF Waits
  <2>4. QED
    BY <2>2, <2>3
<1>5. ASSUME NEW e \in Device, Lone(Waits(e)) PROVE Lone(Waits(e)')
  <2> SUFFICES ASSUME NEW x \in Waits(e)', NEW y \in Waits(e)' PROVE x = y
    BY DEF Lone
  <2>1. Back(x) = Back(y)
    BY <1>4, <1>5 DEF Lone
  <2>2. /\ x = <<x[1], x[2]>> /\ x[2] \in Nat /\ y = <<y[1], y[2]>> /\ y[2] \in Nat
    BY <1>4
  <2>3. x[1] = y[1]
    BY <2>1, <2>2
  <2>4. x[2] = y[2]
    BY <2>1, <2>2, <2>3
  <2>5. QED
    BY <2>2, <2>3, <2>4
<1>6. QED
  <2> HIDE DEF n, Back
  <2>1. \A e \in Device : Waits(e) = {} => Waits(e)' = {}
    BY <1>4
  <2>2. \A e \in Device : Lone(Waits(e)) /\ e = Head(waiting[p]) => Waits(e)' = {}
    BY <1>3, <1>4 DEF Lone
  <2>3. QED
    BY <1>1, <1>3, <1>5, <2>1, <2>2

\* The polls of other devices wait on.
LEMMA StillWaits ==
    ASSUME TypeOK, NEW p \in Pool, Take(p)
    PROVE  \A e \in Device \ {Head(waiting[p])} : Waits(e) # {} => Waits(e)' # {}
<1> SUFFICES ASSUME NEW e \in Device \ {Head(waiting[p])}, NEW x \in Waits(e)
             PROVE  Waits(e)' # {}
  OBVIOUS
<1> DEFINE n == Len(waiting[p])
<1>1. /\ n \in Nat /\ Head(waiting[p]) = waiting[p][1] /\ Len(Tail(waiting[p])) = n - 1
      /\ \A i \in 1..(n - 1) : Tail(waiting[p])[i] = waiting[p][i + 1]
  BY QueueType DEF Take
<1>2. /\ waiting'[p] = Tail(waiting[p])
      /\ \A q \in Pool \ {p} : waiting'[q] = waiting[q]
  BY DEF Take, TypeOK
<1>3. /\ x \in Pool \X (Nat \ {0}) /\ x[1] \in Pool /\ x[2] \in Nat \ {0}
      /\ x[2] <= Len(waiting[x[1]]) /\ waiting[x[1]][x[2]] = e
  BY DEF Waits
<1>4. CASE x[1] # p
  BY <1>2, <1>3, <1>4 DEF Waits
<1>5. CASE x[1] = p
  <2> DEFINE k == x[2] - 1
  <2>1. x[2] # 1
    BY <1>1, <1>3, <1>5
  <2>2. x[2] <= n /\ waiting[p][x[2]] = e
    BY <1>3, <1>5
  <2> HIDE DEF n
  <2>3. k \in 1..(n - 1) /\ k \in Nat \ {0} /\ k + 1 = x[2]
    BY <1>1, <1>3, <2>1, <2>2
  <2> HIDE DEF k
  <2>4. k <= Len(waiting'[p]) /\ waiting'[p][k] = e
    BY <1>1, <1>2, <2>2, <2>3
  <2>5. <<p, k>> \in Waits(e)'
    BY <2>3, <2>4 DEF Waits
  <2>6. QED
    BY <2>5
<1>6. QED
  BY <1>4, <1>5

\* A poll taken, begun and over.
LEMMA PollTaken ==
    ASSUME TypeOK, NEW p \in Pool, Take(p)
    PROVE  \E y : \A e \in Device :
              /\ Polling(e)' = Polling(e)
              /\ Taken(e)' = IF e = Head(waiting[p]) THEN Taken(e) \cup {y} ELSE Taken(e)
<1>1. PICK w \in Worker :
         /\ work[p][w] = Free
         /\ work' = [work EXCEPT ![p][w] = [at |-> "taken", dev |-> Head(waiting[p])]]
  BY DEF Take, FirstFree
<1>2. ASSUME NEW q \in Pool, NEW v \in Worker
      PROVE  work'[q][v] = IF q = p /\ v = w THEN [at |-> "taken", dev |-> Head(waiting[p])]
                           ELSE work[q][v]
  BY <1>1 DEF TypeOK
<1>3. ASSUME NEW e \in Device, NEW x \in Pool \X Worker
      PROVE  /\ x \in Polling(e)' <=> x \in Polling(e)
             /\ x \in Taken(e)' <=> x \in Taken(e) \/ (e = Head(waiting[p]) /\ x = <<p, w>>)
  <2>1. x[1] \in Pool /\ x[2] \in Worker /\ x = <<x[1], x[2]>>
    OBVIOUS
  <2>2. CASE x[1] = p /\ x[2] = w
    <3>1. work'[x[1]][x[2]] = [at |-> "taken", dev |-> Head(waiting[p])]
          /\ work[x[1]][x[2]] = Free /\ x = <<p, w>>
      BY <1>1, <1>2, <2>1, <2>2
    <3>2. QED
      BY <3>1 DEF Polling, Taken, Free
  <2>3. CASE ~(x[1] = p /\ x[2] = w)
    <3>1. work'[x[1]][x[2]] = work[x[1]][x[2]] /\ x # <<p, w>>
      BY <1>2, <2>1, <2>3
    <3>2. QED
      BY <3>1 DEF Polling, Taken
  <2>4. QED
    BY <2>2, <2>3
<1>4. \A e \in Device :
        /\ Polling(e) \subseteq Pool \X Worker /\ Polling(e)' \subseteq Pool \X Worker
        /\ Taken(e) \subseteq Pool \X Worker /\ Taken(e)' \subseteq Pool \X Worker
  BY DEF Polling, Taken
<1>5. <<p, w>> \in Pool \X Worker
  OBVIOUS
<1>6. \A e \in Device :
              /\ Polling(e)' = Polling(e)
              /\ Taken(e)' = IF e = Head(waiting[p]) THEN Taken(e) \cup {<<p, w>>} ELSE Taken(e)
  BY <1>3, <1>4, <1>5
<1>7. QED
  BY <1>6

\* A worker begins the poll it took: it is taken no more, and running.
LEMMA PollBegins ==
    ASSUME TypeOK, NEW p \in Pool, NEW w \in Worker, RunOne(p, w)
    PROVE  /\ work[p][w].dev \in Device /\ <<p, w>> \in Taken(work[p][w].dev)
           /\ \A e \in Device :
                /\ Taken(e)' = Taken(e) \ {<<p, w>>}
                /\ Polling(e)' = IF e = work[p][w].dev THEN Polling(e) \cup {<<p, w>>}
                                 ELSE Polling(e)
<1> DEFINE d == work[p][w].dev
<1>1. d \in Device /\ work[p][w] = [at |-> "taken", dev |-> d]
  BY WorkType DEF RunOne
<1>2. ASSUME NEW q \in Pool, NEW v \in Worker
      PROVE  work'[q][v] = IF q = p /\ v = w THEN [at |-> "polling", dev |-> d]
                           ELSE work[q][v]
  <2>1. [work[p][w] EXCEPT !.at = "polling"] = [at |-> "polling", dev |-> d]
    BY <1>1
  <2>2. work' = [work EXCEPT ![p][w] = [work[p][w] EXCEPT !.at = "polling"]]
    BY DEF RunOne
  <2> HIDE DEF d
  <2>3. QED
    BY <2>1, <2>2 DEF TypeOK
<1>3. <<p, w>> \in Taken(d)
  BY <1>1 DEF Taken
<1> HIDE DEF d
<1>4. ASSUME NEW e \in Device, NEW x \in Pool \X Worker
      PROVE  /\ x \in Taken(e)' <=> x \in Taken(e) /\ x # <<p, w>>
             /\ x \in Polling(e)' <=> x \in Polling(e) \/ (e = d /\ x = <<p, w>>)
  <2>1. x[1] \in Pool /\ x[2] \in Worker /\ x = <<x[1], x[2]>>
    OBVIOUS
  <2>2. CASE x[1] = p /\ x[2] = w
    <3>1. work'[x[1]][x[2]] = [at |-> "polling", dev |-> d]
          /\ work[x[1]][x[2]] = [at |-> "taken", dev |-> d] /\ x = <<p, w>>
      BY <1>1, <1>2, <2>1, <2>2
    <3>2. QED
      BY <3>1 DEF Polling, Taken
  <2>3. CASE ~(x[1] = p /\ x[2] = w)
    <3>1. work'[x[1]][x[2]] = work[x[1]][x[2]] /\ x # <<p, w>>
      BY <1>2, <2>1, <2>3
    <3>2. QED
      BY <3>1 DEF Polling, Taken
  <2>4. QED
    BY <2>2, <2>3
<1>5. \A e \in Device :
        /\ Polling(e) \subseteq Pool \X Worker /\ Polling(e)' \subseteq Pool \X Worker
        /\ Taken(e) \subseteq Pool \X Worker /\ Taken(e)' \subseteq Pool \X Worker
  BY DEF Polling, Taken
<1>6. <<p, w>> \in Pool \X Worker
  OBVIOUS
<1>7. \A e \in Device :
                /\ Taken(e)' = Taken(e) \ {<<p, w>>}
                /\ Polling(e)' = IF e = d THEN Polling(e) \cup {<<p, w>>} ELSE Polling(e)
  BY <1>4, <1>5, <1>6
<1>8. QED
  BY <1>1, <1>3, <1>7 DEF d

\* A poll that ends leaves its worker, and changes no other device's polls.
LEMMA PollOver ==
    ASSUME TypeOK, NEW p \in Pool, NEW w \in Worker, PollEnds(p, w)
    PROVE  /\ work[p][w].dev \in Device /\ <<p, w>> \in Polling(work[p][w].dev)
           /\ \A e \in Device :
                /\ Taken(e)' = Taken(e)
                /\ Polling(e)' = Polling(e) \ {<<p, w>>}
                /\ e # work[p][w].dev => Polling(e)' = Polling(e)
<1> DEFINE d == work[p][w].dev
<1>1. d \in Device /\ work[p][w] = [at |-> "polling", dev |-> d]
  BY WorkType DEF PollEnds
<1>2. ASSUME NEW q \in Pool, NEW v \in Worker
      PROVE  work'[q][v] = IF q = p /\ v = w THEN Free ELSE work[q][v]
  BY DEF PollEnds, TypeOK
<1>3. <<p, w>> \in Polling(d)
  BY <1>1 DEF Polling
<1> HIDE DEF d
<1>4. ASSUME NEW e \in Device, NEW x \in Pool \X Worker
      PROVE  /\ x \in Taken(e)' <=> x \in Taken(e)
             /\ x \in Polling(e)' <=> x \in Polling(e) /\ x # <<p, w>>
             /\ x = <<p, w>> /\ e # d => x \notin Polling(e)
  <2>1. x[1] \in Pool /\ x[2] \in Worker /\ x = <<x[1], x[2]>>
    OBVIOUS
  <2>2. CASE x[1] = p /\ x[2] = w
    <3>1. work'[x[1]][x[2]] = Free
          /\ work[x[1]][x[2]] = [at |-> "polling", dev |-> d] /\ x = <<p, w>>
      BY <1>1, <1>2, <2>1, <2>2
    <3>2. QED
      BY <3>1 DEF Polling, Taken, Free
  <2>3. CASE ~(x[1] = p /\ x[2] = w)
    <3>1. work'[x[1]][x[2]] = work[x[1]][x[2]] /\ x # <<p, w>>
      BY <1>2, <2>1, <2>3
    <3>2. QED
      BY <3>1 DEF Polling, Taken
  <2>4. QED
    BY <2>2, <2>3
<1>5. \A e \in Device :
        /\ Polling(e) \subseteq Pool \X Worker /\ Polling(e)' \subseteq Pool \X Worker
        /\ Taken(e) \subseteq Pool \X Worker /\ Taken(e)' \subseteq Pool \X Worker
  BY DEF Polling, Taken
<1>6. <<p, w>> \in Pool \X Worker
  OBVIOUS
<1>7. \A e \in Device :
                /\ Taken(e)' = Taken(e)
                /\ Polling(e)' = Polling(e) \ {<<p, w>>}
                /\ e # d => Polling(e)' = Polling(e)
  BY <1>4, <1>5, <1>6
<1>8. QED
  BY <1>1, <1>3, <1>7 DEF d

\* A stop cancels what waits.
LEMMA WaitsCancelled ==
    ASSUME TypeOK, NEW S \in SUBSET Pool, waiting' = Cancelled(S)
    PROVE  \A e \in Device : Waits(e)' \subseteq Waits(e)
<1> SUFFICES ASSUME NEW e \in Device, NEW x \in Waits(e)' PROVE x \in Waits(e)
  OBVIOUS
<1>1. /\ x \in Pool \X (Nat \ {0}) /\ x[1] \in Pool /\ x[2] \in Nat \ {0}
      /\ x[2] <= Len(waiting'[x[1]]) /\ waiting'[x[1]][x[2]] = e
  BY DEF Waits
<1>2. waiting'[x[1]] = IF x[1] \in S THEN <<>> ELSE waiting[x[1]]
  BY <1>1 DEF Cancelled
<1>3. x[1] \notin S
  BY <1>1, <1>2, EmptySeq
<1>4. QED
  BY <1>1, <1>2, <1>3 DEF Waits

\* Where polls are follows from three variables alone.
LEMMA WhereUnchanged ==
    /\ UNCHANGED call => \A e \in Device : Calls(e)' = Calls(e)
    /\ UNCHANGED waiting => \A e \in Device : Waits(e)' = Waits(e)
    /\ UNCHANGED work => \A e \in Device : Taken(e)' = Taken(e) /\ Polling(e)' = Polling(e)
  BY DEF Calls, Waits, Taken, Polling

\* A device is put on the pool only if no poll of it is there.
LEMMA SingleMarked ==
    ASSUME TypeOK, Single, NEW c \in Caller, NEW d \in Device, call[c] = NoCall,
           call' = [call EXCEPT ![c] = [at |-> "marked", dev |-> d]],
           ~OnPool(d), queued' = queued \cup {d},
           UNCHANGED <<started, waiting, work, orphaned>>
    PROVE  Single'
<1>1. \A e \in Device : Calls(e)' = IF e = d THEN Calls(e) \cup {c} ELSE Calls(e)
  BY CallBegins
<1>2. \A e \in Device : /\ Waits(e)' = Waits(e) /\ Taken(e)' = Taken(e)
                        /\ Polling(e)' = Polling(e)
  BY WhereUnchanged
<1> SUFFICES ASSUME NEW e \in Device \ orphaned PROVE (OnlyOne(e) /\ Marked(e))'
  BY DEF Single
<1>3. OnlyOne(e) /\ Marked(e)
  BY DEF Single
<1>4. CASE e = d
  <2>1. Calls(e) = {} /\ Waits(e) = {} /\ Taken(e) = {} /\ Polling(e) = {}
    BY <1>3, <1>4 DEF Marked, OnPool
  <2>2. Calls(e)' = {c} /\ Waits(e)' = {} /\ Works(e)' = {} /\ e \in queued'
    BY <1>1, <1>2, <1>4, <2>1 DEF Works
  <2>3. Polling(e)' = {}
    BY <1>2, <2>1
  <2>4. QED
    BY <2>2, <2>3 DEF OnlyOne, Marked, Lone
<1>5. CASE e # d
  BY <1>1, <1>2, <1>3, <1>5 DEF OnlyOne, Marked, Works, Lone
<1>6. QED
  BY <1>4, <1>5

\* Every step keeps it that way, except for the devices a stop orphans.
LEMMA SingleStep ==
    ASSUME TypeOK, TypeOK', Single, [Next]_vars
    PROVE  Single'
<1> USE DEF markers, pools, threads
<1>1. ASSUME UNCHANGED <<call, waiting, work, queued, started, orphaned>> PROVE Single'
  BY <1>1, WhereUnchanged DEF Single, OnlyOne, Marked, Works
<1>2. ASSUME NEW l \in Loop, NEW d \in Device, Consider(l, d) PROVE Single'
  <2>1. CASE d \in due /\ ~OnPool(d)
    <3>1. /\ call[l] = NoCall /\ queued' = queued \cup {d}
          /\ call' = [call EXCEPT ![l] = [at |-> "marked", dev |-> d]]
          /\ UNCHANGED <<started, waiting, work, orphaned>>
      BY <1>2, <2>1 DEF Consider
    <3>2. l \in Caller
      BY BudgetType
    <3>3. QED
      BY <2>1, <3>1, <3>2, SingleMarked
  <2>2. CASE ~(d \in due /\ ~OnPool(d))
    BY <1>1, <1>2, <2>2 DEF Consider
  <2>3. QED
    BY <2>1, <2>2
<1>3. ASSUME NEW d \in Device, PollNow(d) PROVE Single'
  <2>1. /\ call[Web] = NoCall /\ queued' = queued \cup {d} /\ ~OnPool(d)
        /\ call' = [call EXCEPT ![Web] = [at |-> "marked", dev |-> d]]
        /\ UNCHANGED <<started, waiting, work, orphaned>>
    BY <1>3 DEF PollNow
  <2>2. QED
    BY <2>1, BudgetType, SingleMarked
<1>4. ASSUME NEW c \in Caller, LookUp(c) PROVE Single'
  <2>1. UNCHANGED <<waiting, work, queued, started, orphaned>>
    BY <1>4 DEF LookUp
  <2>2. QED
    BY <1>4, <2>1, CallGoesOn, WhereUnchanged DEF Single, OnlyOne, Marked, Works
<1>5. ASSUME NEW c \in Caller, Hand(c) PROVE Single'
  <2> DEFINE d == call[c].dev
  <2>1. /\ c \in Calls(d) /\ d \in Device
        /\ \A e \in Device : Calls(e)' = Calls(e) \ {c}
    BY <1>5, CallEnds
  <2>2. PICK y : \A e \in Device :
           Waits(e)' = IF e = d THEN Waits(e) \cup {y} ELSE Waits(e)
    BY <1>5, WaitBegins
  <2>3. UNCHANGED <<work, queued, started, orphaned>>
    BY <1>5 DEF Hand
  <2>4. \A e \in Device : Taken(e)' = Taken(e) /\ Polling(e)' = Polling(e)
    BY <2>3, WhereUnchanged
  <2> HIDE DEF d
  <2> SUFFICES ASSUME NEW e \in Device \ orphaned PROVE (OnlyOne(e) /\ Marked(e))'
    BY <2>3 DEF Single
  <2>5. OnlyOne(e) /\ Marked(e)
    BY DEF Single
  <2>6. CASE e = d
    <3>1. /\ Calls(e)' = {} /\ Waits(e) = {} /\ Works(e) = {} /\ e \in queued
      BY <2>1, <2>5, <2>6 DEF OnlyOne, Marked, Lone
    <3>2. /\ Waits(e)' = {y} /\ Works(e)' = {} /\ Polling(e)' = {} /\ e \in queued'
      BY <2>2, <2>3, <2>4, <2>6, <3>1 DEF Works
    <3>3. QED
      BY <3>1, <3>2 DEF OnlyOne, Marked, Lone
  <2>7. CASE e # d
    BY <2>1, <2>2, <2>3, <2>4, <2>5, <2>7 DEF OnlyOne, Marked, Works, Lone
  <2>8. QED
    BY <2>6, <2>7
<1>6. ASSUME NEW c \in Caller, Refused(c) PROVE Single'
  <2> DEFINE d == call[c].dev
  <2>1. /\ c \in Calls(d) /\ d \in Device
        /\ \A e \in Device : Calls(e)' = Calls(e) \ {c}
    BY <1>6, CallEnds
  <2>2. /\ queued' = queued \ {d}
        /\ UNCHANGED <<waiting, work, started, orphaned>>
    BY <1>6 DEF Refused, WithoutMarker
  <2>3. \A e \in Device : /\ Taken(e)' = Taken(e) /\ Polling(e)' = Polling(e)
                          /\ Waits(e)' = Waits(e)
    BY <2>2, WhereUnchanged
  <2> HIDE DEF d
  <2> SUFFICES ASSUME NEW e \in Device \ orphaned PROVE (OnlyOne(e) /\ Marked(e))'
    BY <2>2 DEF Single
  <2>4. OnlyOne(e) /\ Marked(e)
    BY DEF Single
  <2>5. CASE e = d
    <3>1. Calls(e)' = {} /\ Waits(e)' = {} /\ Works(e)' = {}
      BY <2>1, <2>3, <2>4, <2>5 DEF OnlyOne, Lone, Works
    <3>2. QED
      BY <3>1 DEF OnlyOne, Marked, Works, Lone
  <2>6. CASE e # d
    BY <2>1, <2>2, <2>3, <2>4, <2>6 DEF OnlyOne, Marked, Works, Lone
  <2>7. QED
    BY <2>5, <2>6
<1>7. ASSUME NEW p \in Pool, Take(p) PROVE Single'
  <2> DEFINE d == Head(waiting[p])
  <2>1. /\ d \in Device /\ Waits(d) # {}
        /\ \A e \in Device :
             /\ Lone(Waits(e)) => Lone(Waits(e)')
             /\ Waits(e) = {} => Waits(e)' = {}
             /\ Lone(Waits(e)) /\ e = d => Waits(e)' = {}
    BY <1>7, WaitEnds
  <2>2. PICK y : \A e \in Device :
              /\ Polling(e)' = Polling(e)
              /\ Taken(e)' = IF e = d THEN Taken(e) \cup {y} ELSE Taken(e)
    BY <1>7, PollTaken
  <2>3. UNCHANGED <<call, queued, started, orphaned>>
    BY <1>7 DEF Take
  <2>4. \A e \in Device : Calls(e)' = Calls(e)
    BY <2>3, WhereUnchanged
  <2> HIDE DEF d
  <2> SUFFICES ASSUME NEW e \in Device \ orphaned PROVE (OnlyOne(e) /\ Marked(e))'
    BY <2>3 DEF Single
  <2>5. OnlyOne(e) /\ Marked(e)
    BY DEF Single
  <2>6. CASE e = d
    <3>1. Waits(e)' = {} /\ Calls(e) = {} /\ Works(e) = {} /\ e \in queued
      BY <2>1, <2>5, <2>6 DEF OnlyOne, Marked
    <3>2. Calls(e)' = {} /\ Polling(e)' = {} /\ Works(e)' = {y} /\ e \in queued'
      BY <2>2, <2>3, <2>4, <2>6, <3>1 DEF Works
    <3>3. QED
      BY <3>1, <3>2 DEF OnlyOne, Marked, Lone
  <2>7. CASE e # d
    <3>1. /\ Calls(e)' = Calls(e) /\ Works(e)' = Works(e) /\ Polling(e)' = Polling(e)
          /\ Taken(e)' = Taken(e)
      BY <2>2, <2>4, <2>7 DEF Works
    <3>2. Lone(Waits(e)') /\ (Waits(e) = {} => Waits(e)' = {})
      BY <2>1, <2>5 DEF OnlyOne
    <3>3. QED
      BY <2>3, <2>5, <3>1, <3>2 DEF OnlyOne, Marked, Lone
  <2>8. QED
    BY <2>6, <2>7
<1>8. ASSUME NEW p \in Pool, NEW w \in Worker, RunOne(p, w) PROVE Single'
  <2> DEFINE d == work[p][w].dev
             y == <<p, w>>
  <2>1. /\ d \in Device /\ y \in Taken(d)
        /\ \A e \in Device :
             /\ Taken(e)' = Taken(e) \ {y}
             /\ Polling(e)' = IF e = d THEN Polling(e) \cup {y} ELSE Polling(e)
    BY <1>8, PollBegins
  <2>2. /\ queued' = queued \ {d} /\ started' = started \cup {d}
        /\ UNCHANGED <<call, waiting, orphaned>>
    BY <1>8 DEF RunOne
  <2>3. \A e \in Device : Calls(e)' = Calls(e) /\ Waits(e)' = Waits(e)
    BY <2>2, WhereUnchanged
  <2> HIDE DEF d, y
  <2> SUFFICES ASSUME NEW e \in Device \ orphaned PROVE (OnlyOne(e) /\ Marked(e))'
    BY <2>2 DEF Single
  <2>4. OnlyOne(e) /\ Marked(e)
    BY DEF Single
  <2>5. CASE e = d
    <3>1. /\ Calls(e) = {} /\ Waits(e) = {} /\ Works(e) = {y} /\ y \in Taken(e)
      BY <2>1, <2>4, <2>5 DEF OnlyOne, Works, Lone
    <3>2. /\ Calls(e)' = {} /\ Waits(e)' = {} /\ Works(e)' = {y} /\ Taken(e)' = {}
      BY <2>1, <2>3, <2>5, <3>1 DEF Works
    <3>3. e \in started'
      BY <2>2, <2>5
    <3>4. QED
      BY <3>2, <3>3 DEF OnlyOne, Marked, Lone
  <2>6. CASE e # d
    BY <2>1, <2>2, <2>3, <2>4, <2>6 DEF OnlyOne, Marked, Works, Lone
  <2>7. QED
    BY <2>5, <2>6
<1>9. ASSUME NEW p \in Pool, NEW w \in Worker, PollEnds(p, w) PROVE Single'
  <2> DEFINE d == work[p][w].dev
             y == <<p, w>>
  <2>1. /\ d \in Device /\ y \in Polling(d)
        /\ \A e \in Device :
             /\ Taken(e)' = Taken(e)
             /\ Polling(e)' = Polling(e) \ {y}
             /\ e # d => Polling(e)' = Polling(e)
    BY <1>9, PollOver
  <2>2. /\ started' = started \ {d}
        /\ UNCHANGED <<call, waiting, queued, orphaned>>
    BY <1>9 DEF PollEnds
  <2>3. \A e \in Device : Calls(e)' = Calls(e) /\ Waits(e)' = Waits(e)
    BY <2>2, WhereUnchanged
  <2> HIDE DEF d, y
  <2> SUFFICES ASSUME NEW e \in Device \ orphaned PROVE (OnlyOne(e) /\ Marked(e))'
    BY <2>2 DEF Single
  <2>4. OnlyOne(e) /\ Marked(e)
    BY DEF Single
  <2>5. CASE e = d
    <3>1. Calls(e) = {} /\ Waits(e) = {} /\ Works(e) = {y}
      BY <2>1, <2>4, <2>5 DEF OnlyOne, Works, Lone
    <3>2. /\ Calls(e)' = {} /\ Waits(e)' = {} /\ Taken(e)' \subseteq {y}
          /\ Polling(e)' = {}
      BY <2>1, <2>3, <3>1 DEF Works
    <3>3. QED
      BY <2>1, <2>2, <2>4, <3>2 DEF OnlyOne, Marked, Works, Lone
  <2>6. CASE e # d
    BY <2>1, <2>2, <2>3, <2>4, <2>6 DEF OnlyOne, Marked, Works, Lone
  <2>7. QED
    BY <2>5, <2>6
<1>10. CASE CancelCurrent
  <2>1. /\ waiting' = Cancelled({executor}) /\ {executor} \subseteq Pool
        /\ UNCHANGED <<call, work, queued, started, orphaned>>
    BY <1>10, BudgetType DEF CancelCurrent, TypeOK
  <2>2. \A e \in Device : Waits(e)' \subseteq Waits(e)
    BY <2>1, WaitsCancelled
  <2>3. QED
    BY <2>1, <2>2, WhereUnchanged DEF Single, OnlyOne, Marked, Works, Lone
<1>11. CASE ClearMarkers
  <2>1. /\ waiting' = Cancelled(draining) /\ draining \subseteq Pool
        /\ UNCHANGED <<call, work, started>>
        /\ orphaned' = orphaned \cup OnTheWay(waiting')
    BY <1>11, BudgetType DEF ClearMarkers, TypeOK
  <2>2. \A e \in Device : Waits(e)' \subseteq Waits(e)
    BY <2>1, WaitsCancelled
  <2>3. \A e \in Device : /\ Calls(e)' = Calls(e) /\ Taken(e)' = Taken(e)
                          /\ Polling(e)' = Polling(e)
    BY <2>1, WhereUnchanged
  <2>4. OnTheWay(waiting') = OnTheWay(waiting)'
    BY <2>1 DEF OnTheWay
  <2>5. \A e \in Device : e \in OnTheWay(waiting)'
           <=> Calls(e)' # {} \/ Waits(e)' # {} \/ Taken(e)' # {}
    <3>1. (TypeOK => \A d \in Device : d \in OnTheWay(waiting)
             <=> Calls(d) # {} \/ Waits(d) # {} \/ Taken(d) # {})'
      BY OnTheWayIs, PTL
    <3>2. QED
      BY <3>1
  <2>6. QED
    BY <2>1, <2>2, <2>3, <2>4, <2>5 DEF Single, OnlyOne, Marked, Works, Lone
<1>12. ASSUME NEW l \in Loop, PassStart(l) \/ PassDone(l) \/ PassRaises(l) \/ LoopEnds(l)
      PROVE  Single'
  BY <1>1, <1>12 DEF PassStart, PassDone, PassRaises, LoopEnds
<1>13. ASSUME NEW r \in Resizer, Resizing(r) \/ ReadPrevious(r) PROVE Single'
  BY <1>1, <1>13 DEF Resizing, ReadPrevious, Swap, ShutPrevious, KeepDraining, NewPool
<1>14. CASE AskStop \/ Stopped \/ Start \/ \E d \in Device : IntervalPasses(d)
  BY <1>1, <1>14 DEF AskStop, Stopped, Start, NewPool, IntervalPasses
<1>15. CASE UNCHANGED vars
  BY <1>1, <1>15 DEF vars
<1>16. QED
  BY <1>2, <1>3, <1>4, <1>5, <1>6, <1>7, <1>8, <1>9, <1>10, <1>11, <1>12, <1>13,
     <1>14, <1>15
     DEF Next, Scheduling, Submitting, Working, Controlling

\* A marker stays with a poll from the moment it is set until the poll ends, or
\* a stop takes them all away.
LEMMA MarkerStep ==
    ASSUME TypeOK, TypeOK', MarkerMeansPoll, [Next]_vars
    PROVE  MarkerMeansPoll'
<1> USE DEF markers, pools, threads
<1> DEFINE Way(d) == Calls(d) # {} \/ Waits(d) # {} \/ Taken(d) # {}
<1>1. /\ queued \subseteq Device /\ queued' \subseteq Device
      /\ started \subseteq Device /\ started' \subseteq Device
  BY DEF TypeOK
<1>2. /\ \A d \in Device : d \in OnTheWay(waiting) <=> Way(d)
      /\ \A d \in Device : d \in OnTheWay(waiting)' <=> Way(d)'
  <2>1. (TypeOK => \A d \in Device : d \in OnTheWay(waiting)
             <=> Calls(d) # {} \/ Waits(d) # {} \/ Taken(d) # {})'
    BY OnTheWayIs, PTL
  <2>2. QED
    BY <2>1, OnTheWayIs
<1>3. /\ \A d \in started : Polling(d) # {}
      /\ (\A d \in queued : Way(d)) \/ control.at = "cancelled"
  BY <1>1, <1>2 DEF MarkerMeansPoll
<1>4. SUFFICES /\ \A d \in started' : Polling(d)' # {}
               /\ (\A d \in queued' : Way(d)') \/ control'.at = "cancelled"
  BY <1>1, <1>2 DEF MarkerMeansPoll
<1>5. ASSUME UNCHANGED <<call, waiting, work, queued, started>>,
             control.at # "cancelled" \/ control' = control
      PROVE  /\ \A d \in started' : Polling(d)' # {}
             /\ (\A d \in queued' : Way(d)') \/ control'.at = "cancelled"
  BY <1>1, <1>3, <1>5, WhereUnchanged
<1>6. ASSUME NEW c \in Caller, NEW d \in Device, call[c] = NoCall,
             call' = [call EXCEPT ![c] = [at |-> "marked", dev |-> d]],
             queued' = queued \cup {d}, UNCHANGED <<started, waiting, work, control>>
      PROVE  /\ \A e \in started' : Polling(e)' # {}
             /\ (\A e \in queued' : Way(e)') \/ control'.at = "cancelled"
  <2>1. \A e \in Device : Calls(e)' = IF e = d THEN Calls(e) \cup {c} ELSE Calls(e)
    BY <1>6, CallBegins
  <2>2. QED
    BY <1>1, <1>3, <1>6, <2>1, WhereUnchanged
<1>7. ASSUME NEW l \in Loop, NEW d \in Device, Consider(l, d)
      PROVE  /\ \A e \in started' : Polling(e)' # {}
             /\ (\A e \in queued' : Way(e)') \/ control'.at = "cancelled"
  <2>1. CASE d \in due /\ ~OnPool(d)
    <3>1. /\ call[l] = NoCall /\ queued' = queued \cup {d}
          /\ call' = [call EXCEPT ![l] = [at |-> "marked", dev |-> d]]
          /\ UNCHANGED <<started, waiting, work, control>>
      BY <1>7, <2>1 DEF Consider
    <3>2. l \in Caller
      BY BudgetType
    <3> HIDE DEF Way
    <3>3. QED
      BY <1>6, <3>1, <3>2
  <2>2. CASE ~(d \in due /\ ~OnPool(d))
    <3>1. UNCHANGED <<call, waiting, work, queued, started, control>>
      BY <1>7, <2>2 DEF Consider
    <3> HIDE DEF Way
    <3>2. QED
      BY <1>5, <3>1
  <2>3. QED
    BY <2>1, <2>2
<1>8. ASSUME NEW d \in Device, PollNow(d)
      PROVE  /\ \A e \in started' : Polling(e)' # {}
             /\ (\A e \in queued' : Way(e)') \/ control'.at = "cancelled"
  <2>1. /\ call[Web] = NoCall /\ queued' = queued \cup {d}
        /\ call' = [call EXCEPT ![Web] = [at |-> "marked", dev |-> d]]
        /\ UNCHANGED <<started, waiting, work, control>>
    BY <1>8 DEF PollNow
  <2>2. Web \in Caller
    BY BudgetType
  <2> HIDE DEF Way
  <2>3. QED
    BY <1>6, <2>1, <2>2
<1>9. ASSUME NEW c \in Caller, LookUp(c)
      PROVE  /\ \A e \in started' : Polling(e)' # {}
             /\ (\A e \in queued' : Way(e)') \/ control'.at = "cancelled"
  <2>1. UNCHANGED <<waiting, work, queued, started, control>>
    BY <1>9 DEF LookUp
  <2>2. QED
    BY <1>1, <1>3, <1>9, <2>1, CallGoesOn, WhereUnchanged
<1>10. ASSUME NEW c \in Caller, Hand(c)
      PROVE  /\ \A e \in started' : Polling(e)' # {}
             /\ (\A e \in queued' : Way(e)') \/ control'.at = "cancelled"
  <2> DEFINE d == call[c].dev
  <2>1. \A e \in Device : Calls(e)' = Calls(e) \ {c}
    BY <1>10, CallEnds
  <2>2. PICK y : \A e \in Device :
           Waits(e)' = IF e = d THEN Waits(e) \cup {y} ELSE Waits(e)
    BY <1>10, WaitBegins
  <2>3. UNCHANGED <<work, queued, started, control>>
    BY <1>10 DEF Hand
  <2>4. \A e \in Device : e # d => c \notin Calls(e)
    BY DEF Calls
  <2> HIDE DEF d
  <2>5. ASSUME NEW e \in Device, Way(e) PROVE Way(e)'
    <3>1. CASE e = d
      BY <2>2, <3>1
    <3>2. CASE e # d
      BY <2>1, <2>2, <2>3, <2>4, <2>5, <3>2, WhereUnchanged
    <3>3. QED
      BY <3>1, <3>2
  <2>6. \A e \in Device : Polling(e)' = Polling(e)
    BY <2>3, WhereUnchanged
  <2> HIDE DEF Way
  <2>7. QED
    BY <1>1, <1>3, <2>3, <2>5, <2>6
<1>11. ASSUME NEW c \in Caller, Refused(c)
      PROVE  /\ \A e \in started' : Polling(e)' # {}
             /\ (\A e \in queued' : Way(e)') \/ control'.at = "cancelled"
  <2>1. \A e \in Device : Calls(e)' = Calls(e) \ {c}
    BY <1>11, CallEnds
  <2>2. /\ queued' = queued \ {call[c].dev}
        /\ UNCHANGED <<waiting, work, started, control>>
    BY <1>11 DEF Refused, WithoutMarker
  <2>3. \A e \in Device : e # call[c].dev => c \notin Calls(e)
    BY DEF Calls
  <2>4. \A e \in queued' : e \in queued /\ e # call[c].dev
    BY <2>2
  <2>5. QED
    BY <1>1, <1>3, <2>1, <2>2, <2>3, <2>4, WhereUnchanged
<1>12. ASSUME NEW p \in Pool, Take(p)
      PROVE  /\ \A e \in started' : Polling(e)' # {}
             /\ (\A e \in queued' : Way(e)') \/ control'.at = "cancelled"
  <2> DEFINE d == Head(waiting[p])
  <2>1. PICK y : \A e \in Device :
              /\ Polling(e)' = Polling(e)
              /\ Taken(e)' = IF e = d THEN Taken(e) \cup {y} ELSE Taken(e)
    BY <1>12, PollTaken
  <2>2. \A e \in Device \ {d} : Waits(e) # {} => Waits(e)' # {}
    BY <1>12, StillWaits
  <2>3. UNCHANGED <<call, queued, started, control>>
    BY <1>12 DEF Take
  <2> HIDE DEF d
  <2>4. ASSUME NEW e \in Device, Way(e) PROVE Way(e)'
    <3>1. CASE e = d
      BY <2>1, <3>1
    <3>2. CASE e # d
      BY <2>1, <2>2, <2>3, <2>4, <3>2, WhereUnchanged
    <3>3. QED
      BY <3>1, <3>2
  <2> HIDE DEF Way
  <2>5. QED
    BY <1>1, <1>3, <2>1, <2>3, <2>4
<1>13. ASSUME NEW p \in Pool, NEW w \in Worker, RunOne(p, w)
      PROVE  /\ \A e \in started' : Polling(e)' # {}
             /\ (\A e \in queued' : Way(e)') \/ control'.at = "cancelled"
  <2> DEFINE d == work[p][w].dev
             y == <<p, w>>
  <2>1. /\ d \in Device /\ y \in Taken(d)
        /\ \A e \in Device :
             /\ Taken(e)' = Taken(e) \ {y}
             /\ Polling(e)' = IF e = d THEN Polling(e) \cup {y} ELSE Polling(e)
    BY <1>13, PollBegins
  <2>2. /\ queued' = queued \ {d} /\ started' = started \cup {d}
        /\ UNCHANGED <<call, waiting, control>>
    BY <1>13 DEF RunOne
  <2>3. \A e \in Device : e # d => y \notin Taken(e)
    BY WorkType DEF Taken
  <2> HIDE DEF d, y
  <2>4. ASSUME NEW e \in queued', Way(e) PROVE Way(e)'
    BY <1>1, <2>1, <2>2, <2>3, <2>4, WhereUnchanged
  <2>5. \A e \in queued' : e \in queued
    BY <2>2
  <2> HIDE DEF Way
  <2>6. (\A e \in queued' : Way(e)') \/ control'.at = "cancelled"
    BY <1>3, <2>2, <2>4, <2>5
  <2>7. \A e \in started' : Polling(e)' # {}
    BY <1>1, <1>3, <2>1, <2>2
  <2>8. QED
    BY <2>6, <2>7
<1>14. ASSUME NEW p \in Pool, NEW w \in Worker, PollEnds(p, w)
      PROVE  /\ \A e \in started' : Polling(e)' # {}
             /\ (\A e \in queued' : Way(e)') \/ control'.at = "cancelled"
  <2>1. \A e \in Device : /\ Taken(e)' = Taken(e)
                          /\ e # work[p][w].dev => Polling(e)' = Polling(e)
    BY <1>14, PollOver
  <2>2. /\ started' = started \ {work[p][w].dev}
        /\ UNCHANGED <<call, waiting, queued, control>>
    BY <1>14 DEF PollEnds
  <2>3. \A e \in started' : e \in started /\ e # work[p][w].dev
    BY <2>2
  <2>4. QED
    BY <1>1, <1>3, <2>1, <2>2, <2>3, WhereUnchanged
<1>15. ASSUME CancelCurrent
      PROVE  /\ \A e \in started' : Polling(e)' # {}
             /\ (\A e \in queued' : Way(e)') \/ control'.at = "cancelled"
  <2>1. control'.at = "cancelled" /\ UNCHANGED <<work, started>>
    BY <1>15 DEF CancelCurrent, TypeOK
  <2>2. QED
    BY <1>1, <1>3, <2>1, WhereUnchanged
<1>16. ASSUME ClearMarkers
      PROVE  /\ \A e \in started' : Polling(e)' # {}
             /\ (\A e \in queued' : Way(e)') \/ control'.at = "cancelled"
  <2>1. queued' = {} /\ UNCHANGED <<work, started>>
    BY <1>16 DEF ClearMarkers, MarkersLeft
  <2>2. QED
    BY <1>1, <1>3, <2>1, WhereUnchanged
<1> HIDE DEF Way
<1>17. ASSUME NEW l \in Loop, PassStart(l) \/ PassDone(l) \/ PassRaises(l) \/ LoopEnds(l)
      PROVE  UNCHANGED <<call, waiting, work, queued, started, control>>
  BY <1>17 DEF PassStart, PassDone, PassRaises, LoopEnds
<1>18. ASSUME NEW r \in Resizer, Resizing(r) \/ ReadPrevious(r)
      PROVE  UNCHANGED <<call, waiting, work, queued, started, control>>
  BY <1>18 DEF Resizing, ReadPrevious, Swap, ShutPrevious, KeepDraining, NewPool
<1>19. ASSUME AskStop \/ Stopped \/ Start \/ \E d \in Device : IntervalPasses(d)
      PROVE  /\ UNCHANGED <<call, waiting, work, queued, started>>
             /\ control.at # "cancelled" \/ control' = control
  BY <1>19 DEF AskStop, Stopped, Start, NewPool, IntervalPasses
<1>20. ASSUME UNCHANGED vars
      PROVE  UNCHANGED <<call, waiting, work, queued, started, control>>
  BY <1>20 DEF vars
<1>21. CASE UNCHANGED <<call, waiting, work, queued, started>>
            /\ (control.at # "cancelled" \/ control' = control)
  BY <1>5, <1>21
<1>22. QED
  BY <1>7, <1>8, <1>9, <1>10, <1>11, <1>12, <1>13, <1>14, <1>15, <1>16, <1>17,
     <1>18, <1>19, <1>20, <1>21
     DEF Next, Scheduling, Submitting, Working, Controlling

-----------------------------------------------------------------------------
(* The invariant, and what follows from it.                                *)

Inv == TypeOK /\ Counted /\ Latest /\ MarkerMeansPoll /\ Single

\* The steps that make no pool leave the count of the pools alone.
LEMMA TypeStep ==
    ASSUME TypeOK, Counted, Latest, [Next]_vars
    PROVE  TypeOK' /\ Counted' /\ Latest'
<1> USE DEF markers, pools, threads
<1>1. ASSUME NEW l \in Loop, Scheduling(l) PROVE TypeOK' /\ Counted' /\ Latest'
  <2>1. UNCHANGED <<made, executor, draining, resize, control, budget>>
    BY <1>1 DEF Scheduling, PassStart, PassDone, LoopEnds, Consider
  <2>2. QED
    BY <1>1, <2>1, TypeScheduling, CountUntouched
<1>2. ASSUME NEW l \in Loop, PassRaises(l) PROVE TypeOK' /\ Counted' /\ Latest'
  <2>1. UNCHANGED <<made, executor, draining, resize, control>> /\ Spend("fault")
    BY <1>2 DEF PassRaises
  <2>2. budget'["resize"] = budget["resize"] /\ budget'["control"] = budget["control"]
    BY <2>1, Spent DEF Disturbance
  <2>3. QED
    BY <1>2, <2>1, <2>2, TypeScheduling, CountUntouched
<1>3. ASSUME NEW c \in Caller, Submitting(c) PROVE TypeOK' /\ Counted' /\ Latest'
  <2>1. UNCHANGED <<made, executor, draining, resize, control, budget>>
    BY <1>3 DEF Submitting, LookUp, Hand, Refused
  <2>2. QED
    BY <1>3, <2>1, TypeScheduling, CountUntouched
<1>4. ASSUME NEW p \in Pool, Working(p) PROVE TypeOK' /\ Counted' /\ Latest'
  <2>1. UNCHANGED <<made, executor, draining, resize, control, budget>>
    BY <1>4 DEF Working, Take, RunOne, PollEnds
  <2>2. QED
    BY <1>4, <2>1, TypeWorking, CountUntouched
<1>5. ASSUME NEW r \in Resizer, Resizing(r) \/ ReadPrevious(r)
      PROVE  TypeOK' /\ Counted' /\ Latest'
  BY <1>5, TypeResizing
<1>6. ASSUME NEW d \in Device, IntervalPasses(d) PROVE TypeOK' /\ Counted' /\ Latest'
  <2>1. UNCHANGED <<made, executor, draining, resize, control, budget>>
    BY <1>6 DEF IntervalPasses
  <2>2. QED
    BY <1>6, <2>1, TypeScheduling, CountUntouched
<1>7. ASSUME NEW d \in Device, PollNow(d) PROVE TypeOK' /\ Counted' /\ Latest'
  <2>1. UNCHANGED <<made, executor, draining, resize, control>> /\ Spend("click")
    BY <1>7 DEF PollNow
  <2>2. budget'["resize"] = budget["resize"] /\ budget'["control"] = budget["control"]
    BY <2>1, Spent DEF Disturbance
  <2>3. QED
    BY <1>7, <2>1, <2>2, TypeScheduling, CountUntouched
<1>8. CASE AskStop \/ Controlling
  BY <1>8, TypeControlling
<1>9. CASE UNCHANGED vars
  <2>1. UNCHANGED <<made, executor, draining, resize, control, budget>> /\ TypeOK'
    BY <1>9 DEF vars, TypeOK
  <2>2. QED
    BY <2>1, CountUntouched
<1>10. QED
  BY <1>1, <1>2, <1>3, <1>4, <1>5, <1>6, <1>7, <1>8, <1>9 DEF Next

\* No poll is anywhere and no device is marked at the start.
LEMMA Begin == Init => Inv
<1> SUFFICES ASSUME Init PROVE Inv
  OBVIOUS
<1>1. TypeOK /\ Counted /\ Latest
  BY TypeInit
<1>2. MarkerMeansPoll
  BY DEF Init, MarkerMeansPoll
<1>3. ASSUME NEW d \in Device
      PROVE  Calls(d) = {} /\ Waits(d) = {} /\ Taken(d) = {} /\ Polling(d) = {}
  <2>1. Calls(d) = {}
    BY DEF Init, Calls
  <2>2. Waits(d) = {}
    BY DEF Init, Waits
  <2>3. Taken(d) = {} /\ Polling(d) = {}
    BY DEF Init, Taken, Polling, Free
  <2>4. QED
    BY <2>1, <2>2, <2>3
<1>4. Single
  BY <1>3 DEF Single, OnlyOne, Marked, Works, Lone
<1>5. QED
  BY <1>1, <1>2, <1>4 DEF Inv

\* Every step keeps the invariant.
LEMMA Step == Inv /\ [Next]_vars => Inv'
  BY TypeStep, MarkerStep, SingleStep DEF Inv

\* Every step is one that the invariant allows: it holds for ever.
LEMMA Invariant == Spec => []Inv
  BY Begin, Step, PTL DEF Spec

\* A device that no stop orphaned is polled by one worker at most.
LEMMA OneWorker == Single => OnePollUnlessOrphaned
<1> SUFFICES ASSUME Single, NEW d \in Device \ orphaned
             PROVE  Cardinality(Polling(d)) <= 1
  BY DEF OnePollUnlessOrphaned
<1>1. Lone(Polling(d))
  BY DEF Single, OnlyOne, Works, Lone
<1>2. CASE Polling(d) = {}
  BY <1>2, FS_EmptySet
<1>3. CASE Polling(d) # {}
  <2>1. PICK x : x \in Polling(d)
    BY <1>3
  <2>2. Polling(d) = {x}
    BY <1>1, <2>1 DEF Lone
  <2>3. Cardinality({x}) = 1
    BY FS_Singleton
  <2>4. QED
    BY <2>2, <2>3
<1>4. QED
  BY <1>2, <1>3

\* Every variable keeps its type: the pools a resize or a start makes are
\* within the bound, and the current one is never left to drain
\* (_apply_pool_size, start).
THEOREM TypeCorrect == Spec => []TypeOK
<1>1. Inv => TypeOK
  BY DEF Inv
<1>2. QED
  BY Invariant, <1>1, PTL

\* A device is never left marked without a poll, which would keep it from
\* being polled for ever (_submit, _run_one, begin_stop).
THEOREM MarkersHaveAPoll == Spec => []MarkerMeansPoll
<1>1. Inv => MarkerMeansPoll
  BY DEF Inv
<1>2. QED
  BY Invariant, <1>1, PTL

\* Two polls of one device never run at once, unless a stop took the marker of
\* one that was on its way (_submit, _run_one).
THEOREM OnePollAtOnce == Spec => []OnePollUnlessOrphaned
<1>1. Inv => OnePollUnlessOrphaned
  BY OneWorker DEF Inv
<1>2. QED
  BY Invariant, <1>1, PTL

-----------------------------------------------------------------------------
(* The exceptions are paid for.                                            *)

\* Somebody has stopped or restarted the poller.
StoppedOnce == budget["control"] # Budget["control"]

\* Only a stop, or a start that begins with one, leaves a poll without its marker.
Paid ==
    /\ budget["control"] <= Budget["control"]
    /\ control.at # "none" \/ orphaned # {} => StoppedOnce

\* Every step pays for its exceptions.
LEMMA PaidHolds == Spec => []Paid
<1>1. Init => Paid
  BY BoundAssumption DEF Init, Paid, Disturbance
<1>2. TypeOK /\ Paid /\ [Next]_vars => Paid'
  <2> SUFFICES ASSUME TypeOK, Paid, [Next]_vars PROVE Paid'
    OBVIOUS
  <2> USE DEF markers, pools, threads
  <2>1. CASE AskStop
    <3>1. budget["control"] \in Nat /\ Budget["control"] \in Nat
      BY BoundAssumption DEF TypeOK, Disturbance
    <3>2. budget'["control"] = budget["control"] - 1
      BY <2>1, <3>1 DEF AskStop, Spend, TypeOK, Disturbance
    <3>3. budget'["control"] <= Budget["control"] /\ StoppedOnce'
      BY <3>1, <3>2 DEF Paid, StoppedOnce
    <3> QED
      BY <3>3 DEF Paid
  <2>2. CASE Controlling
    BY <2>2 DEF Controlling, CancelCurrent, ClearMarkers, Stopped, Start, Paid, StoppedOnce
  <2>3. CASE ~AskStop /\ ~Controlling
    <3>1. UNCHANGED <<control, orphaned>>
      BY <2>3 DEF Next, Scheduling, Submitting, Working, Resizing, PassStart, PassDone,
         LoopEnds, Consider, LookUp, Hand, Refused, Take, RunOne, PollEnds, Swap,
         ShutPrevious, KeepDraining, PassRaises, ReadPrevious, IntervalPasses, PollNow, vars
    <3>2. budget'["control"] = budget["control"]
      BY <2>3 DEF Next, Scheduling, Submitting, Working, Resizing, PassStart, PassDone,
         LoopEnds, Consider, LookUp, Hand, Refused, Take, RunOne, PollEnds, Swap,
         ShutPrevious, KeepDraining, PassRaises, ReadPrevious, IntervalPasses, PollNow, vars,
         Spend, TypeOK, Disturbance
    <3> QED
      BY <3>1, <3>2 DEF Paid, StoppedOnce
  <2> QED
    BY <2>1, <2>2, <2>3
<1> QED
  BY <1>1, <1>2, TypeCorrect, PTL DEF Spec

\* As long as nobody stops the poller, resizes, clicks and failed passes alone
\* neither double a poll nor leave a marker behind.
ResizesAreSafe ==
    ~StoppedOnce =>
        /\ \A d \in Device : Cardinality(Polling(d)) <= 1
        /\ queued \subseteq OnTheWay(waiting)

\* A pool that is swapped while polls wait in it and run, any number of times,
\* polls no device twice at once and forgets none (_apply_pool_size).
THEOREM ResizesDoubleNothing == Spec => []ResizesAreSafe
<1>1. Paid /\ OnePollUnlessOrphaned /\ MarkerMeansPoll => ResizesAreSafe
  <2> SUFFICES ASSUME Paid, OnePollUnlessOrphaned, MarkerMeansPoll, ~StoppedOnce
               PROVE  /\ \A d \in Device : Cardinality(Polling(d)) <= 1
                      /\ queued \subseteq OnTheWay(waiting)
    BY DEF ResizesAreSafe
  <2>1. orphaned = {} /\ control.at = "none"
    BY DEF Paid
  <2> QED
    BY <2>1 DEF OnePollUnlessOrphaned, MarkerMeansPoll
<1> QED
  BY <1>1, PaidHolds, OnePollAtOnce, MarkersHaveAPoll, PTL
=============================================================================
