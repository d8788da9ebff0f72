------------------------- MODULE AlertOutage_proofs -------------------------
(***************************************************************************)
(* Proofs about AlertOutage for every finite set of devices, every         *)
(* topology and every bound on the disturbances.                           *)
(***************************************************************************)
EXTENDS AlertOutage, FiniteSetTheorems, SequenceTheorems, TLAPS

-----------------------------------------------------------------------------
(* Operators.                                                              *)

\* A listing of a set of devices is a sequence of its members.
LEMMA ListingIsSeq ==
    ASSUME NEW S, S \subseteq Device, NEW list \in Listings(S)
    PROVE  list \in Seq(S)
<1>1. IsFiniteSet(S)
  BY DeviceAssumption, FS_Subset
<1>2. Cardinality(S) \in Nat
  BY <1>1, FS_CardinalityType
<1>3. list \in [1..Cardinality(S) -> S]
  BY DEF Listings
<1>4. QED
  BY <1>2, <1>3, SeqDef

\* Occurrences turns a listing into a batch of the given kind and source.
LEMMA OccurrencesType ==
    ASSUME NEW S, S \subseteq Device, NEW list \in Listings(S),
           NEW k \in {"down", "loss"},
           NEW src \in {"event", "upstream", "held", "metric"}
    PROVE  Occurrences(list, k, src) \in Seq(Occurrence)
<1>1. list \in Seq(S)
  BY ListingIsSeq
<1>2. Len(list) \in Nat /\ \A i \in 1..Len(list) : list[i] \in Device
  BY <1>1, LenProperties
<1>3. Occurrences(list, k, src) \in [1..Len(list) -> Occurrence]
  BY <1>2 DEF Occurrences, Occurrence
<1>4. QED
  BY <1>2, <1>3, SeqDef

\* However the operators set the upstream pointers, no device is downstream of
\* itself.
LEMMA NotBelowItself ==
    ASSUME above \in Topology
    PROVE  \A d \in Device : d \notin Below(d)
  BY TopologyAssumption DEF Below, Forest

-----------------------------------------------------------------------------
(* Type correctness.                                                       *)

\* Spending a disturbance leaves a natural number of each kind.
LEMMA SpendType ==
    ASSUME budget \in [Disturbance -> Nat], NEW k \in Disturbance, Spend(k)
    PROVE  budget' \in [Disturbance -> Nat]
<1>1. budget[k] \in Nat /\ budget[k] > 0
  BY DEF Spend
<1>2. budget[k] - 1 \in Nat
  BY <1>1
<1>3. QED
  BY <1>2 DEF Spend

\* The kinds of disturbance the actions spend.
LEMMA Disturbances ==
    /\ "transition" \in Disturbance /\ "sample" \in Disturbance
    /\ "resolve" \in Disturbance /\ "mute" \in Disturbance
    /\ "rewire" \in Disturbance
    /\ "crash" \in Disturbance /\ "fault" \in Disturbance
  BY DEF Disturbance

\* A tick that ends leaves every variable it resets in its range.
LEMMA ForgetTickType ==
    ASSUME ForgetTick
    PROVE  /\ snap' = {} /\ quiet' = {} /\ sweep' = {} /\ adv' \in Nat
           /\ todo' \in Seq(Event) /\ batch' \in Seq(Occurrence)
           /\ cache' \in [Device -> {"unread", "row", "cover", "none"}]
           /\ memo' \in [Device -> {"unread", "down", "not down"}]
           /\ pc' = "idle"
  BY EmptySeq DEF ForgetTick, Fresh

\* What the apply loop learns of upstream devices stays in range.
LEMMA UpstreamType ==
    ASSUME TypeOK, NEW d \in Device
    PROVE  /\ Upstream(d) \in {"row", "cover", "none"}
           /\ \A a \in Device : Seen(a) \in {"down", "not down"}
           /\ \A S : MemoAfter(S) \in [Device -> {"unread", "down", "not down"}]
           /\ \A S \in SUBSET Device : CoversAfter(S) \subseteq Device
           /\ AskedNow(d) \subseteq Device
<1>1. Upstream(d) \in {"row", "cover", "none"}
  BY DEF Upstream, UpstreamNow, TypeOK
<1>2. \A a \in Device : Seen(a) \in {"down", "not down"}
  BY DEF Seen, Standing, TypeOK
<1>3. \A S : MemoAfter(S) \in [Device -> {"unread", "down", "not down"}]
  BY <1>2 DEF MemoAfter, TypeOK
<1>4. \A S \in SUBSET Device : CoversAfter(S) \subseteq Device
  BY DEF CoversAfter, TypeOK
<1>5. above \in Topology
  BY DEF TypeOK
<1>6. above[d] \subseteq Device
  BY <1>5, TopologyAssumption DEF Forest
<1>7. AskedNow(d) \subseteq Device
  BY <1>6 DEF AskedNow, Asked, Walked
<1>8. QED
  BY <1>1, <1>2, <1>3, <1>4, <1>7

\* The lengths the invariant compares are numbers.
LEMMA Lengths ==
    ASSUME TypeOK
    PROVE  /\ Len(log) \in Nat /\ Len(todo) \in Nat /\ Len(batch) \in Nat /\ adv \in Nat
           /\ \A i \in 1..Len(log) : log[i] \in Event
           /\ log \in Seq(Event) /\ todo \in Seq(Event) /\ batch \in Seq(Occurrence)
<1>1. /\ log \in Seq(Event) /\ todo \in Seq(Event) /\ batch \in Seq(Occurrence)
      /\ adv \in Nat
  BY DEF TypeOK
<1>2. QED
  BY <1>1, LenProperties, ElementOfSeq

\* Devices of the occurrences that were held are devices.
LEMMA HeldInBatchType ==
    ASSUME TypeOK
    PROVE  HeldInBatch \subseteq Device
<1>1. \A i \in 1..Len(batch) : batch[i] \in Occurrence
  BY ElementOfSeq DEF TypeOK
<1>2. QED
  BY <1>1 DEF HeldInBatch, Occurrence

\* The first occurrence of a batch names a device, and the rest is a batch.
LEMMA BatchType ==
    ASSUME TypeOK, batch # <<>>
    PROVE  /\ Head(batch) \in Occurrence /\ Head(batch).dev \in Device
           /\ Tail(batch) \in Seq(Occurrence)
<1>1. Head(batch) \in Occurrence /\ Tail(batch) \in Seq(Occurrence)
  BY HeadTailProperties DEF TypeOK
<1>2. QED
  BY <1>1 DEF Occurrence

\* The same for the event rows of a tick.
LEMMA TodoType ==
    ASSUME TypeOK, todo # <<>>
    PROVE  /\ Head(todo) \in Event /\ Head(todo).dev \in Device
           /\ Tail(todo) \in Seq(Event)
<1>1. Head(todo) \in Event /\ Tail(todo) \in Seq(Event)
  BY HeadTailProperties DEF TypeOK
<1>2. QED
  BY <1>1 DEF Event

\* Moving past the rows a tick read leaves event rows.
LEMMA LogType ==
    ASSUME TypeOK
    PROVE  SubSeq(log, adv + 1, Len(log)) \in Seq(Event)
<1>1. /\ Len(log) \in Nat /\ adv \in Nat
      /\ \A i \in 1..Len(log) : log[i] \in Event
  BY Lengths
<1>2. adv + 1 \in Int /\ Len(log) \in Int
  BY <1>1
<1>3. \A i \in adv+1..Len(log) : log[i] \in Event
  BY <1>1
<1>4. QED
  BY <1>2, <1>3, SubSeqProperties

\* While an opened outage absorbs what it implies, its occurrence is still the
\* first of the batch.
Absorbing == pc \in {"children", "downstream"} => batch # <<>>

\* The batch is never empty while the engine works on its first occurrence, so
\* that the step that ends the work has one to take off.
LEMMA AbsorbingHolds == Spec => []Absorbing
<1>1. Init => Absorbing
  BY DEF Init, Absorbing
<1>2. Absorbing /\ [Next]_vars => Absorbing'
  <2> SUFFICES ASSUME Absorbing, [Next]_vars PROVE Absorbing'
    OBVIOUS
  <2> USE DEF Absorbing, tickVars
  <2>1. ASSUME NEW d \in Device, Poller(d) \/ Operator(d) PROVE Absorbing'
    BY <2>1 DEF Poller, Operator, PollStatus, PollEvent, PollSample, LeaveGrace,
                ResolveByHand, ResolveWindowEnds, Mute, Unmute
  <2>2. CASE Fault
    BY <2>2 DEF Fault, DrainRaises, RulesRaise, MutesRaise, ApplyRaises, Crash,
                ForgetTick
  <2>3. CASE Tick
    BY <2>3 DEF Tick, TickStart, ReadEvents, DrainUp, DrainDown, DrainOther,
                DrainDone, EvaluateThresholds, DrainPending, ReadMutes, Hold, Silence,
                RollUpDown, OpenDown, Applying, AbsorbChildren, AbsorbDownstream,
                AbsorbDone, RollUpLoss, SuppressLoss, OwnCoverOrOpen,
                FlushCursors, ForgetTick
  <2>4. CASE Rewire \/ UNCHANGED vars
    BY <2>4 DEF Rewire, vars
  <2>5. QED
    BY <2>1, <2>2, <2>3, <2>4 DEF Next
<1>3. QED
  BY <1>1, <1>2, PTL DEF Spec

\* Every variable keeps to its range, whatever the actors do.
THEOREM TypeCorrect == Spec => []TypeOK
<1>1. Init => TypeOK
  <2>1. SUFFICES ASSUME Init PROVE TypeOK
    OBVIOUS
  <2>2. log \in Seq(Event) /\ todo \in Seq(Event) /\ batch \in Seq(Occurrence)
    BY <2>1, EmptySeq DEF Init
  <2>3. QED
    BY <2>1, <2>2, BoundAssumption, TopologyAssumption DEF Init, TypeOK, Fresh
<1>2. TypeOK /\ Absorbing /\ [Next]_vars => TypeOK'
  <2> SUFFICES ASSUME TypeOK, Absorbing, [Next]_vars PROVE TypeOK'
    OBVIOUS
  <2> USE DEF nodesVars, alertVars, tickVars, memoVars, ghosts
  <2>1. ASSUME NEW d \in Device, PollStatus(d) PROVE TypeOK'
    <3>1. budget' \in [Disturbance -> Nat]
      BY <2>1, SpendType, Disturbances DEF PollStatus, TypeOK
    <3>2. PICK s \in {"up", "down", "unsupported", "unknown"} :
             /\ status' = [status EXCEPT ![d] = s]
             /\ owed' = [owed EXCEPT ![d] = IF s = "unknown" THEN "none" ELSE s]
      BY <2>1 DEF PollStatus, Verdicts
    <3>3. /\ status' \in [Device -> {"up", "down", "unsupported", "unknown"}]
          /\ owed' \in [Device -> {"none", "up", "down", "unsupported"}]
      BY <3>2 DEF TypeOK
    <3>4. stranded' \subseteq Device
      BY <2>1 DEF PollStatus, StillDownBelow, Below, TypeOK
    <3>5. QED
      BY <2>1, <3>1, <3>3, <3>4 DEF PollStatus, TypeOK
  <2>2. ASSUME NEW d \in Device, PollEvent(d) PROVE TypeOK'
    <3>1. [dev |-> d, kind |-> owed[d]] \in Event
      BY <2>2 DEF PollEvent, TypeOK, Event
    <3>2. log' = Append(log, [dev |-> d, kind |-> owed[d]])
      BY <2>2 DEF PollEvent
    <3>3. log' \in Seq(Event)
      BY <3>1, <3>2, Lengths, AppendProperties
    <3>4. QED
      BY <2>2, <3>3 DEF PollEvent, TypeOK
  <2>3. ASSUME NEW d \in Device, PollSample(d) PROVE TypeOK'
    BY <2>3, SpendType, Disturbances DEF PollSample, TypeOK
  <2>4. ASSUME NEW d \in Device, LeaveGrace(d) PROVE TypeOK'
    BY <2>4 DEF LeaveGrace, TypeOK
  <2>5. ASSUME NEW d \in Device, ResolveByHand(d) PROVE TypeOK'
    BY <2>5, SpendType, Disturbances DEF ResolveByHand, StillTorn, TypeOK
  <2>6. ASSUME NEW d \in Device, ResolveWindowEnds(d) PROVE TypeOK'
    BY <2>6 DEF ResolveWindowEnds, TypeOK
  <2>7. ASSUME NEW d \in Device, Mute(d) PROVE TypeOK'
    BY <2>7, SpendType, Disturbances DEF Mute, TypeOK
  <2>8. ASSUME NEW d \in Device, Unmute(d) PROVE TypeOK'
    BY <2>8 DEF Unmute, TypeOK
  <2>9. CASE TickStart
    BY <2>9 DEF TickStart, TypeOK
  <2>10. CASE ReadEvents
    BY <2>10, LenProperties DEF ReadEvents, RowsRead, TypeOK
  <2>11. CASE DrainUp
    <3>1. PICK list \in Listings(StillDownBelow(Head(todo).dev)) :
             batch' = batch \o Occurrences(list, "down", "upstream")
      BY <2>11 DEF DrainUp
    <3>2. StillDownBelow(Head(todo).dev) \subseteq Device
      BY DEF StillDownBelow, Below
    <3>3. batch' \in Seq(Occurrence)
      BY <3>1, <3>2, OccurrencesType, ConcatProperties DEF TypeOK
    <3>4. QED
      BY <2>11, <3>3, TodoType DEF DrainUp, Cleared, StillTorn, TypeOK
  <2>12. CASE DrainDown
    <3>1. [dev |-> Head(todo).dev, kind |-> "down", from |-> "event"] \in Occurrence
      BY <2>12, TodoType DEF DrainDown, Occurrence
    <3>2. batch' = Append(batch, [dev |-> Head(todo).dev, kind |-> "down", from |-> "event"])
      BY <2>12 DEF DrainDown
    <3>3. batch' \in Seq(Occurrence)
      BY <3>1, <3>2, Lengths, AppendProperties
    <3>4. QED
      BY <2>12, <3>3, TodoType DEF DrainDown, TypeOK
  <2>13. CASE DrainDone
    BY <2>13 DEF DrainDone, TypeOK
  <2>14. CASE DrainRaises
    BY <2>14, EmptySeq, SpendType, Disturbances DEF DrainRaises, TypeOK
  <2>15. CASE EvaluateThresholds
    <3>1. PICK list \in Listings(lossy) :
             batch' = batch \o Occurrences(list, "loss", "metric")
      BY <2>15 DEF EvaluateThresholds
    <3>2. batch' \in Seq(Occurrence)
      BY <3>1, OccurrencesType, ConcatProperties DEF TypeOK
    <3>3. QED
      BY <2>15, <3>2 DEF EvaluateThresholds, StillTorn, TypeOK
  <2>16. CASE RulesRaise
    <3>1. ForgetTick /\ budget' \in [Disturbance -> Nat]
      BY <2>16, SpendType, Disturbances DEF RulesRaise, TypeOK
    <3>2. QED
      BY <2>16, <3>1, ForgetTickType DEF RulesRaise, TypeOK
  <2>17. CASE DrainPending
    <3>1. PICK list \in Listings({d \in Due : status[d] = "down"}) :
             batch' = batch \o Occurrences(list, "down", "held")
      BY <2>17 DEF DrainPending
    <3>2. {d \in Due : status[d] = "down"} \subseteq Device
      BY DEF Due, TypeOK
    <3>3. batch' \in Seq(Occurrence)
      BY <3>1, <3>2, OccurrencesType, ConcatProperties DEF TypeOK
    <3>4. QED
      BY <2>17, <3>3 DEF DrainPending, TypeOK
  <2>18. CASE ReadMutes
    BY <2>18 DEF ReadMutes, TypeOK
  <2>19. CASE MutesRaise
    <3>1. ForgetTick /\ budget' \in [Disturbance -> Nat]
      BY <2>19, SpendType, Disturbances DEF MutesRaise, TypeOK
    <3>2. QED
      BY <2>19, <3>1, ForgetTickType, HeldInBatchType DEF MutesRaise, TypeOK
  <2>20. CASE Hold
    BY <2>20, BatchType DEF Hold, TypeOK
  <2>21. CASE Silence
    BY <2>21, BatchType DEF Silence, TypeOK
  <2>22. CASE RollUpDown
    <3>1. Head(batch).dev \in Device /\ batch' \in Seq(Occurrence)
      BY <2>22, BatchType DEF RollUpDown, Applying
    <3>2. AskUpstream(Head(batch).dev)
      BY <2>22 DEF RollUpDown
    <3>3. /\ cache' \in [Device -> {"unread", "row", "cover", "none"}]
          /\ memo' \in [Device -> {"unread", "down", "not down"}]
          /\ covers' \subseteq Device
      BY <3>1, <3>2, UpstreamType DEF AskUpstream, TypeOK
    <3>4. QED
      BY <2>22, <3>1, <3>3 DEF RollUpDown, StillTorn, TypeOK
  <2>23. CASE OpenDown
    <3>1. Head(batch).dev \in Device /\ batch' \in Seq(Occurrence)
      BY <2>23, BatchType DEF OpenDown, Applying, TypeOK
    <3>2. AskUpstream(Head(batch).dev)
      BY <2>23 DEF OpenDown
    <3>3. /\ cache' \in [Device -> {"unread", "row", "cover", "none"}]
          /\ memo' \in [Device -> {"unread", "down", "not down"}]
          /\ covers' \subseteq Device
      BY <3>1, <3>2, UpstreamType DEF AskUpstream, TypeOK
    <3>4. pc' \in {pc, "children"} /\ outage' \subseteq Device
      BY <2>23, <3>1 DEF OpenDown, TypeOK
    <3>5. QED
      BY <2>23, <3>1, <3>3, <3>4 DEF OpenDown, TypeOK
  <2>24. CASE AbsorbChildren
    BY <2>24 DEF AbsorbChildren, Below, StillTorn, TypeOK
  <2>25. ASSUME NEW e \in Device, AbsorbDownstream(e) PROVE TypeOK'
    BY <2>25 DEF AbsorbDownstream, StillTorn, TypeOK
  <2>26. CASE AbsorbDone
    BY <2>26, BatchType DEF AbsorbDone, Absorbing, TypeOK
  <2>27. CASE RollUpLoss
    BY <2>27, BatchType DEF RollUpLoss, Applying, TypeOK
  <2>28. CASE SuppressLoss
    <3>1. Head(batch).dev \in Device /\ batch' \in Seq(Occurrence)
      BY <2>28, BatchType DEF SuppressLoss, Applying
    <3>2. AskUpstream(Head(batch).dev)
      BY <2>28 DEF SuppressLoss
    <3>3. /\ cache' \in [Device -> {"unread", "row", "cover", "none"}]
          /\ memo' \in [Device -> {"unread", "down", "not down"}]
          /\ covers' \subseteq Device
      BY <3>1, <3>2, UpstreamType DEF AskUpstream, TypeOK
    <3>4. QED
      BY <2>28, <3>1, <3>3 DEF SuppressLoss, TypeOK
  <2>29. CASE OwnCoverOrOpen
    <3> DEFINE d == Head(batch).dev
               asked == AskedNow(d) \cup (IF Claims(d) THEN {d} ELSE {})
    <3>1. d \in Device /\ batch' \in Seq(Occurrence)
      BY <2>29, BatchType DEF OwnCoverOrOpen, Applying
    <3>2. asked \in SUBSET Device
      BY <3>1, UpstreamType
    <3>3. memo' = MemoAfter(asked) /\ covers' = CoversAfter(asked)
      BY <2>29 DEF OwnCoverOrOpen
    <3>4. memo' \in [Device -> {"unread", "down", "not down"}] /\ covers' \subseteq Device
      BY <3>1, <3>2, <3>3, UpstreamType
    <3>5. cache' \in [Device -> {"unread", "row", "cover", "none"}]
      BY <2>29, <3>1 DEF OwnCoverOrOpen, TypeOK
    <3>6. loss' \subseteq Device
      BY <2>29, <3>1 DEF OwnCoverOrOpen, TypeOK
    <3>7. QED
      BY <2>29, <3>1, <3>4, <3>5, <3>6 DEF OwnCoverOrOpen, TypeOK
  <2>30. CASE ApplyRaises
    <3>1. Head(batch).dev \in Device /\ batch' \in Seq(Occurrence)
      BY <2>30, BatchType DEF ApplyRaises
    <3>2. Interrupted \subseteq Device
      BY DEF Interrupted, TypeOK
    <3>3. budget' \in [Disturbance -> Nat]
      BY <2>30, SpendType, Disturbances DEF ApplyRaises, TypeOK
    <3>4. QED
      BY <2>30, <3>1, <3>2, <3>3 DEF ApplyRaises, TypeOK
  <2>31. CASE FlushCursors
    BY <2>31, ForgetTickType, LogType DEF FlushCursors, TypeOK
  <2>32. CASE Crash
    <3>1. Interrupted \subseteq Device
      BY DEF Interrupted, TypeOK
    <3>2. ForgetTick /\ budget' \in [Disturbance -> Nat]
      BY <2>32, SpendType, Disturbances DEF Crash, TypeOK
    <3>3. QED
      BY <2>32, <3>1, <3>2, ForgetTickType, HeldInBatchType DEF Crash, TypeOK
  <2>33. CASE UNCHANGED vars
    BY <2>33 DEF vars, TypeOK
  <2>34. CASE DrainOther
    BY <2>34, TodoType DEF DrainOther, TypeOK
  <2>35. CASE Rewire
    <3>1. budget' \in [Disturbance -> Nat] /\ moved' \subseteq Device
      BY <2>35, SpendType, Disturbances DEF Rewire, TypeOK
    <3>2. QED
      BY <2>35, <3>1 DEF Rewire, TypeOK
  <2>36. QED
    BY <2>1, <2>2, <2>3, <2>4, <2>5, <2>6, <2>7, <2>8, <2>9, <2>10, <2>11,
       <2>12, <2>13, <2>14, <2>15, <2>16, <2>17, <2>18, <2>19, <2>20, <2>21,
       <2>22, <2>23, <2>24, <2>25, <2>26, <2>27, <2>28, <2>29, <2>30, <2>31,
       <2>32, <2>33, <2>34, <2>35 DEF Next, Tick, Fault, Poller, Operator
<1>3. QED
  BY <1>1, <1>2, AbsorbingHolds, PTL DEF Spec

-----------------------------------------------------------------------------
(* One row for one outage.                                                 *)

\* While a device's own outage is active its metric rows are not, except
\* between the two commits that open the one and resolve the other and after
\* a failure between them. The property is inductive as it stands: only
\* OpenDown adds to outage, and it leaves pc at "children"; only
\* OwnCoverOrOpen adds to loss, and it asked for the outage row first.
THEOREM OwnOutageSilencesLossHolds == Spec => []OwnOutageSilencesLoss
<1>1. Init => OwnOutageSilencesLoss
  BY DEF Init, OwnOutageSilencesLoss
<1>2. OwnOutageSilencesLoss /\ [Next]_vars => OwnOutageSilencesLoss'
  <2> SUFFICES ASSUME OwnOutageSilencesLoss, [Next]_vars
               PROVE  OwnOutageSilencesLoss'
    OBVIOUS
  <2> USE DEF OwnOutageSilencesLoss, tickVars, ghosts
  <2>1. ASSUME NEW d \in Device, Poller(d) PROVE OwnOutageSilencesLoss'
    BY <2>1 DEF Poller, PollStatus, PollEvent, PollSample, LeaveGrace
  <2>2. ASSUME NEW d \in Device, ResolveByHand(d)
        PROVE  OwnOutageSilencesLoss'
    BY <2>2 DEF ResolveByHand, StillTorn
  <2>3. ASSUME NEW d \in Device, ResolveWindowEnds(d) \/ Mute(d) \/ Unmute(d)
        PROVE  OwnOutageSilencesLoss'
    BY <2>3 DEF ResolveWindowEnds, Mute, Unmute
  <2>4. CASE TickStart \/ ReadEvents \/ DrainDown \/ DrainOther \/ DrainDone
             \/ DrainRaises
    BY <2>4 DEF TickStart, ReadEvents, DrainDown, DrainOther, DrainDone, DrainRaises
  <2>5. CASE DrainUp
    BY <2>5 DEF DrainUp, StillTorn
  <2>6. CASE EvaluateThresholds
    BY <2>6 DEF EvaluateThresholds, StillTorn
  <2>7. CASE RulesRaise \/ DrainPending \/ ReadMutes \/ MutesRaise
    BY <2>7 DEF RulesRaise, DrainPending, ReadMutes, MutesRaise, ForgetTick
  <2>8. CASE Hold \/ Silence \/ RollUpLoss \/ SuppressLoss \/ FlushCursors
    BY <2>8 DEF Hold, Silence, RollUpLoss, SuppressLoss, Applying, FlushCursors,
                ForgetTick
  <2>9. CASE RollUpDown
    BY <2>9 DEF RollUpDown, Applying, StillTorn
  <2>10. CASE OpenDown
    <3> DEFINE d == Head(batch).dev
    <3>1. pc = "apply" /\ outage \cap loss \subseteq torn
      BY <2>10 DEF OpenDown, Applying
    <3>2. outage' = outage \cup {d} /\ loss' = loss /\ torn' = torn
      BY <2>10 DEF OpenDown
    <3>3. CASE d \in outage
      BY <3>1, <3>2, <3>3
    <3>4. CASE d \notin outage
      <4>1. pc' = "children" /\ batch' = batch
        BY <2>10, <3>4 DEF OpenDown
      <4>2. QED
        BY <3>1, <3>2, <4>1
    <3>5. QED
      BY <3>3, <3>4
  <2>11. CASE AbsorbChildren
    BY <2>11 DEF AbsorbChildren, ChildRows, StillTorn
  <2>12. ASSUME NEW e \in Device, AbsorbDownstream(e)
         PROVE  OwnOutageSilencesLoss'
    BY <2>12 DEF AbsorbDownstream, ChildRows, StillTorn
  <2>13. CASE AbsorbDone
    BY <2>13 DEF AbsorbDone
  <2>14. CASE OwnCoverOrOpen
    <3> DEFINE d == Head(batch).dev
    <3>1. pc = "apply" /\ pc' = pc /\ torn' = torn /\ outage' = outage
      BY <2>14 DEF OwnCoverOrOpen, Applying
    <3>2. d \notin outage /\ loss' \subseteq loss \cup {d}
      BY <2>14 DEF OwnCoverOrOpen, OwnRow
    <3>3. QED
      BY <3>1, <3>2
  <2>15. CASE ApplyRaises
    BY <2>15 DEF ApplyRaises, Interrupted
  <2>16. CASE Crash
    BY <2>16 DEF Crash, ForgetTick, Interrupted
  <2>17. CASE Rewire \/ UNCHANGED vars
    BY <2>17 DEF Rewire, vars
  <2>18. QED
    BY <2>1, <2>2, <2>3, <2>4, <2>5, <2>6, <2>7, <2>8, <2>9, <2>10, <2>11,
       <2>12, <2>13, <2>14, <2>15, <2>16, <2>17 DEF Next, Tick, Fault, Operator
<1>3. QED
  BY <1>1, <1>2, PTL DEF Spec

-----------------------------------------------------------------------------
(* No outage row vanishes.                                                 *)

\* The outage that absorbs what is behind it is active, or an operator
\* resolved it meanwhile, and what is left to absorb is behind it, or was when
\* the sweep began.
Opener ==
    pc \in {"children", "downstream"} =>
        /\ Head(batch).dev \in outage \cup told
        /\ pc = "downstream" =>
              /\ Head(batch).dev \notin sweep
              /\ sweep \cap outage \subseteq Below(Head(batch).dev) \cup moved

\* The opener stays in place until it is done: AbsorbDownstream removes only
\* what is behind it, and nothing is behind itself; a hand resolve is told.
LEMMA OpenerHolds == Spec => []Opener
<1>1. Init => Opener
  BY DEF Init, Opener
<1>2. TypeOK /\ Absorbing /\ Opener /\ [Next]_vars => Opener'
  <2> SUFFICES ASSUME TypeOK, Absorbing, Opener, [Next]_vars PROVE Opener'
    OBVIOUS
  <2> USE DEF Opener, tickVars, ghosts
  <2>1. ASSUME NEW d \in Device, Poller(d) PROVE Opener'
    BY <2>1 DEF Poller, PollStatus, PollEvent, PollSample, LeaveGrace, Below
  <2>2. ASSUME NEW d \in Device, Operator(d) PROVE Opener'
    BY <2>2 DEF Operator, ResolveByHand, ResolveWindowEnds, Mute, Unmute,
                nodesVars, Below
  <2>3. CASE TickStart \/ ReadEvents \/ DrainUp \/ DrainDown \/ DrainOther
             \/ DrainDone \/ EvaluateThresholds \/ DrainPending \/ ReadMutes
    BY <2>3 DEF TickStart, ReadEvents, DrainUp, DrainDown, DrainOther, DrainDone,
                EvaluateThresholds, DrainPending, ReadMutes
  <2>4. CASE Fault
    BY <2>4 DEF Fault, DrainRaises, RulesRaise, MutesRaise, ApplyRaises, Crash,
                ForgetTick
  <2>5. CASE Hold \/ Silence \/ RollUpDown \/ RollUpLoss \/ SuppressLoss
             \/ OwnCoverOrOpen \/ AbsorbDone \/ FlushCursors
    BY <2>5 DEF Hold, Silence, RollUpDown, RollUpLoss, SuppressLoss,
                OwnCoverOrOpen, Applying, AbsorbDone, FlushCursors, ForgetTick
  <2>6. CASE OpenDown
    BY <2>6 DEF OpenDown, Applying
  <2>7. CASE AbsorbChildren
    <3> DEFINE d == Head(batch).dev
    <3>1. /\ pc = "children" /\ pc' = "downstream" /\ sweep' = Below(d)
          /\ UNCHANGED <<batch, outage, told, moved, above>>
      BY <2>7 DEF AbsorbChildren, nodesVars
    <3>2. d \in Device
      BY <3>1, BatchType DEF Absorbing
    <3>3. d \notin Below(d)
      BY <3>2, NotBelowItself DEF TypeOK
    <3>4. QED
      BY <3>1, <3>3 DEF Below
  <2>8. ASSUME NEW e \in Device, AbsorbDownstream(e) PROVE Opener'
    BY <2>8 DEF AbsorbDownstream, nodesVars, Below
  <2>9. CASE Rewire
    <3>1. /\ UNCHANGED <<pc, batch, outage, told, sweep>>
          /\ moved' = moved \cup {d \in Device : /\ above'[d] # above[d]
                                                 /\ status[d] = "down" \/ d \in outage}
      BY <2>9 DEF Rewire
    <3>2. ASSUME pc = "downstream"
          PROVE  sweep \cap outage \subseteq Below(Head(batch).dev)' \cup moved'
      BY <3>1, <3>2 DEF Below, TypeOK
    <3>3. QED
      BY <3>1, <3>2
  <2>10. CASE UNCHANGED vars
    BY <2>10 DEF vars, nodesVars, Below
  <2>11. QED
    BY <2>1, <2>2, <2>3, <2>4, <2>5, <2>6, <2>7, <2>8, <2>9, <2>10 DEF Next, Tick
<1>3. QED
  BY <1>1, <1>2, TypeCorrect, AbsorbingHolds, PTL DEF Spec

\* A step removes an outage row only for an operator, for the device's own
\* recovery, or into the outage of an upstream device.
THEOREM OutageRowNeverVanishesHolds == Spec => OutageRowNeverVanishes
<1> DEFINE Excused(d) ==
             \/ d \in told'
             \/ pc = "drain" /\ Head(todo) = [dev |-> d, kind |-> "up"]
             \/ (above[d] \cap (outage \cup told)) # {}
             \/ d \in moved
<1>1. TypeOK /\ Opener /\ [Next]_vars => [\A d \in outage \ outage' : Excused(d)]_vars
  <2> SUFFICES ASSUME TypeOK, Opener, Next, NEW d \in outage \ outage'
               PROVE  Excused(d)
    BY DEF Excused
  <2>1. ASSUME NEW e \in Device, Poller(e) PROVE FALSE
    BY <2>1 DEF Poller, PollStatus, PollEvent, PollSample, LeaveGrace
  <2>2. ASSUME NEW e \in Device, Operator(e) PROVE Excused(d)
    BY <2>2 DEF Operator, ResolveByHand, ResolveWindowEnds, Mute, Unmute
  <2>3. CASE Fault
    BY <2>3 DEF Fault, DrainRaises, RulesRaise, MutesRaise, ApplyRaises, Crash
  <2>4. CASE DrainUp
    <3>1. Head(todo) \in Event /\ Head(todo).kind = "up" /\ Head(todo).dev = d
      BY <2>4, TodoType DEF DrainUp, Cleared
    <3>2. Head(todo) = [dev |-> d, kind |-> "up"]
      BY <3>1 DEF Event
    <3>3. QED
      BY <2>4, <3>2 DEF DrainUp
  <2>5. ASSUME NEW e \in Device, AbsorbDownstream(e) PROVE Excused(d)
    <3>1. pc = "downstream" /\ e \in sweep \cap outage /\ d = e
      BY <2>5 DEF AbsorbDownstream
    <3>2. /\ Head(batch).dev \in outage \cup told
          /\ e \in Below(Head(batch).dev) \cup moved
      BY <3>1 DEF Opener
    <3>3. QED
      BY <3>1, <3>2 DEF Below
  <2>6. CASE OpenDown
    BY <2>6 DEF OpenDown
  <2>7. CASE TickStart \/ ReadEvents \/ DrainDown \/ DrainOther \/ DrainDone
             \/ EvaluateThresholds \/ DrainPending \/ ReadMutes \/ Hold
             \/ Silence \/ RollUpDown \/ AbsorbChildren \/ AbsorbDone
             \/ RollUpLoss \/ SuppressLoss \/ OwnCoverOrOpen \/ FlushCursors
    BY <2>7 DEF TickStart, ReadEvents, DrainDown, DrainOther, DrainDone,
                EvaluateThresholds, DrainPending, ReadMutes, Hold, Silence, RollUpDown,
                AbsorbChildren, AbsorbDone, RollUpLoss, SuppressLoss,
                OwnCoverOrOpen, FlushCursors
  <2>8. CASE Rewire
    BY <2>8 DEF Rewire
  <2>9. QED
    BY <2>1, <2>2, <2>3, <2>4, <2>5, <2>6, <2>7, <2>8 DEF Next, Tick
<1>2. QED
  BY <1>1, TypeCorrect, OpenerHolds, PTL DEF Spec, OutageRowNeverVanishes

-----------------------------------------------------------------------------
(* A recovery ends the outage: the inductive invariant, in parts.          *)

\* The members of a sequence.
Items(q) == {q[k] : k \in 1..Len(q)}

\* A row of device_events.
Row(d, k) == [dev |-> d, kind |-> k]

\* The devices a batch is going to report down.
DownIn(q) == {o.dev : o \in {x \in Items(q) : x.kind = "down"}}

\* What the tick has read is the front of the log and what it still has to
\* drain the end of that; a recovery it read behind its own outage is noted.
Reading ==
    /\ adv <= Len(log) /\ Len(todo) <= adv
    /\ \A k \in 1..Len(todo) : todo[k] = log[adv - Len(todo) + k]
    /\ pc \in {"idle", "read"} => adv = 0 /\ batch = <<>>
    /\ pc # "drain" => todo = <<>>
    /\ pc = "drain" =>
           \A i, j \in 1..adv : \A d \in Device :
               i < j /\ log[i] = Row(d, "down") /\ log[j] = Row(d, "up") => d \in raced

\* The log ends, for a device that is up or down and owes it nothing, with the
\* transition to the status the device has.
Recorded ==
    \A d \in Device :
        /\ owed[d] \in {"none", status[d]}
        /\ owed[d] = "none" /\ d \notin lost /\ status[d] \in {"up", "down"} =>
               \A i \in 1..Len(log) : log[i].dev = d =>
                   \/ log[i].kind = status[d]
                   \/ \E j \in (i + 1)..Len(log) : log[j] = Row(d, status[d])

\* A recovery that a later tick is going to drain, or one excused.
Coming(d) ==
    \/ owed[d] = "up" \/ d \in raced \cup lost
    \/ \E i \in (adv + 1)..Len(log) : log[i] = Row(d, "up")

\* A device that is up and has an outage row, or is going to have one, or had
\* it resolved by hand, has its recovery still to be drained.
Chased ==
    \A d \in Device : status[d] = "up" =>
        /\ d \in outage \cup told => Coming(d) \/ Row(d, "up") \in Items(todo)
        /\ d \in DownIn(batch) => Coming(d)

Chase == Reading /\ Recorded /\ Chased
-----------------------------------------------------------------------------
(* The devices a batch reports down, and the rows behind a position.       *)

\* An empty batch reports none.
LEMMA NoDowns == DownIn(<<>>) = {} /\ Len(<<>>) = 0 /\ Items(<<>>) = {}
  BY DEF DownIn, Items

\* What is appended to a sequence joins its members.
LEMMA ItemsAppend ==
    ASSUME NEW T, NEW q \in Seq(T), NEW o \in T
    PROVE  Items(Append(q, o)) = Items(q) \cup {o}
<1>1. /\ Len(q) \in Nat /\ Len(Append(q, o)) = Len(q) + 1
      /\ \A i \in 1..Len(q) : Append(q, o)[i] = q[i]
      /\ Append(q, o)[Len(q) + 1] = o
  BY LenProperties, AppendProperties
<1>2. 1..Len(Append(q, o)) = 1..Len(q) \cup {Len(q) + 1}
  BY <1>1
<1> QED
  BY <1>1, <1>2 DEF Items

\* So do the members of a sequence that is joined to it.
LEMMA ItemsConcat ==
    ASSUME NEW T, NEW q \in Seq(T), NEW r \in Seq(T)
    PROVE  Items(q \o r) = Items(q) \cup Items(r)
<1>1. /\ Len(q) \in Nat /\ Len(r) \in Nat /\ Len(q \o r) = Len(q) + Len(r)
      /\ \A i \in 1..(Len(q) + Len(r)) :
             (q \o r)[i] = IF i <= Len(q) THEN q[i] ELSE r[i - Len(q)]
  BY LenProperties, ConcatProperties
<1>2. ASSUME NEW i \in 1..Len(q \o r) PROVE (q \o r)[i] \in Items(q) \cup Items(r)
  <2>1. CASE i <= Len(q)
    <3>1. i \in 1..Len(q) /\ (q \o r)[i] = q[i]
      BY <1>1, <2>1
    <3> QED
      BY <3>1 DEF Items
  <2>2. CASE ~(i <= Len(q))
    <3>1. i - Len(q) \in 1..Len(r) /\ (q \o r)[i] = r[i - Len(q)]
      BY <1>1, <2>2
    <3> QED
      BY <3>1 DEF Items
  <2> QED
    BY <2>1, <2>2
<1>3. ASSUME NEW i \in 1..Len(q) PROVE q[i] \in Items(q \o r)
  <2>1. i \in 1..Len(q \o r) /\ (q \o r)[i] = q[i]
    BY <1>1
  <2> QED
    BY <2>1 DEF Items
<1>4. ASSUME NEW i \in 1..Len(r) PROVE r[i] \in Items(q \o r)
  <2>1. /\ Len(q) + i \in 1..Len(q \o r) /\ ~(Len(q) + i <= Len(q))
        /\ Len(q) + i - Len(q) = i
    BY <1>1
  <2>2. (q \o r)[Len(q) + i] = r[i]
    BY <1>1, <2>1
  <2> QED
    BY <2>1, <2>2 DEF Items
<1> QED
  BY <1>2, <1>3, <1>4 DEF Items

\* A sequence is its head and its tail.
LEMMA ItemsHead ==
    ASSUME NEW T, NEW q \in Seq(T), q # <<>>
    PROVE  Items(q) = {Head(q)} \cup Items(Tail(q)) /\ Head(q) \in Items(q)
<1>1. /\ Len(q) \in Nat /\ Len(q) > 0 /\ Head(q) = q[1]
      /\ Len(Tail(q)) = Len(q) - 1
      /\ \A i \in 1..Len(Tail(q)) : Tail(q)[i] = q[i + 1]
  BY LenProperties, HeadTailProperties
<1>2. ASSUME NEW i \in 1..Len(q), i # 1 PROVE q[i] \in Items(Tail(q))
  <2>1. i - 1 \in 1..Len(Tail(q)) /\ Tail(q)[i - 1] = q[i]
    BY <1>1, <1>2
  <2> QED
    BY <2>1 DEF Items
<1>3. ASSUME NEW i \in 1..Len(Tail(q)) PROVE Tail(q)[i] \in Items(q)
  <2>1. i + 1 \in 1..Len(q) /\ Tail(q)[i] = q[i + 1]
    BY <1>1
  <2> QED
    BY <2>1 DEF Items
<1>4. 1 \in 1..Len(q)
  BY <1>1
<1> QED
  BY <1>1, <1>2, <1>3, <1>4 DEF Items

\* The occurrences for a set of devices are one for each of them.
LEMMA ItemsListed ==
    ASSUME NEW S, S \subseteq Device, NEW list \in Listings(S),
           NEW k \in {"down", "loss"},
           NEW src \in {"event", "upstream", "held", "metric"}
    PROVE  Items(Occurrences(list, k, src)) = {[dev |-> d, kind |-> k, from |-> src] : d \in S}
<1> DEFINE more == Occurrences(list, k, src)
<1>1. list \in Seq(S) /\ Len(list) \in Nat /\ \A i \in 1..Len(list) : list[i] \in S
  BY ListingIsSeq, LenProperties, ElementOfSeq
<1>2. more = [i \in 1..Len(list) |-> [dev |-> list[i], kind |-> k, from |-> src]]
  BY DEF Occurrences
<1>3. Len(more) = Len(list)
  <2>1. more \in Seq(Occurrence)
    BY OccurrencesType
  <2>2. DOMAIN more = 1..Len(list) /\ DOMAIN more = 1..Len(more) /\ Len(more) \in Nat
    BY <1>2, <2>1, LenProperties
  <2> QED
    BY <1>1, <2>2
<1>4. \A d \in S : \E i \in 1..Len(list) : list[i] = d
  <2>1. DOMAIN list = 1..Len(list)
    BY <1>1, LenProperties
  <2> QED
    BY <2>1 DEF Listings
<1> HIDE DEF more
<1> QED
  BY <1>1, <1>2, <1>3, <1>4 DEF Items, more

\* Taking the first occurrence off a batch takes at most its device.
LEMMA DownsOfTail ==
    ASSUME NEW q \in Seq(Occurrence), q # <<>>
    PROVE  /\ DownIn(Tail(q)) \subseteq DownIn(q)
           /\ Head(q).kind = "down" => Head(q).dev \in DownIn(q)
           /\ \A d \in DownIn(q) :
                  d \in DownIn(Tail(q)) \/ (Head(q).kind = "down" /\ d = Head(q).dev)
  BY ItemsHead DEF DownIn

\* Occurrences for a set of devices add those devices, if they are outages.
LEMMA DownsOfMore ==
    ASSUME NEW q \in Seq(Occurrence), NEW S, S \subseteq Device,
           NEW list \in Listings(S), NEW k \in {"down", "loss"},
           NEW src \in {"event", "upstream", "held", "metric"}
    PROVE  DownIn(q \o Occurrences(list, k, src)) = DownIn(q) \cup (IF k = "down" THEN S ELSE {})
<1> DEFINE more == Occurrences(list, k, src)
<1>1. /\ Items(q \o more) = Items(q) \cup Items(more)
      /\ Items(more) = {[dev |-> d, kind |-> k, from |-> src] : d \in S}
  BY OccurrencesType, ItemsConcat, ItemsListed
<1>2. DownIn(q \o more) = DownIn(q) \cup DownIn(more)
  BY <1>1 DEF DownIn
<1>3. DownIn(more) = IF k = "down" THEN S ELSE {}
  <2>1. CASE k = "down"
    <3>1. ASSUME NEW d \in S PROVE d \in DownIn(more)
      <4>1. [dev |-> d, kind |-> k, from |-> src] \in Items(more)
        BY <1>1
      <4>2. [dev |-> d, kind |-> k, from |-> src].kind = "down"
            /\ [dev |-> d, kind |-> k, from |-> src].dev = d
        BY <2>1
      <4> HIDE DEF more
      <4> QED
        BY <4>1, <4>2 DEF DownIn
    <3>2. ASSUME NEW d \in DownIn(more) PROVE d \in S
      BY <1>1, <3>2 DEF DownIn
    <3> QED
      BY <2>1, <3>1, <3>2
  <2>2. CASE k = "loss"
    BY <1>1, <2>2 DEF DownIn
  <2> QED
    BY <2>1, <2>2
<1> QED
  BY <1>2, <1>3

\* An outage put at the end of a batch adds its own device.
LEMMA DownsOfOneMore ==
    ASSUME NEW q \in Seq(Occurrence), NEW o \in Occurrence, o.kind = "down"
    PROVE  DownIn(Append(q, o)) = DownIn(q) \cup {o.dev}
<1>1. Items(Append(q, o)) = Items(q) \cup {o}
  BY ItemsAppend
<1> QED
  BY <1>1 DEF DownIn

\* A row that is appended is behind every position, and the last of its device.
LEMMA LogAppend ==
    ASSUME TypeOK, adv <= Len(log), NEW row, log' = Append(log, row)
    PROVE  /\ Len(log') = Len(log) + 1 /\ log'[Len(log) + 1] = row
           /\ \A i \in 1..Len(log) : log'[i] = log[i]
           /\ Len(log) + 1 \in (adv + 1)..Len(log')
           /\ \A n \in Nat : (n + 1)..Len(log) \subseteq (n + 1)..Len(log')
           /\ 1..Len(log') = 1..Len(log) \cup {Len(log) + 1}
<1>1. Len(log) \in Nat /\ adv \in Nat /\ log \in Seq(Event)
  BY Lengths
<1>2. /\ Len(log') = Len(log) + 1 /\ log'[Len(log) + 1] = row
      /\ \A i \in 1..Len(log) : log'[i] = log[i]
  <2>1. log \in Seq(Event \cup {row})
    BY <1>1, SeqMonotonic, Zenon
  <2> QED
    BY <1>1, <2>1, AppendProperties
<1> QED
  BY <1>1, <1>2

\* Moving past the rows a tick has read leaves those behind them.
LEMMA LogRest ==
    ASSUME TypeOK, adv <= Len(log), log' = SubSeq(log, adv + 1, Len(log))
    PROVE  /\ Len(log') = Len(log) - adv
           /\ \A i \in 1..Len(log') : adv + i \in 1..Len(log) /\ log'[i] = log[adv + i]
<1>1. /\ Len(log) \in Nat /\ adv \in Nat /\ log \in Seq(Event)
      /\ \A i \in (adv + 1)..Len(log) : log[i] \in Event
  BY Lengths
<1>2. /\ Len(SubSeq(log, adv + 1, Len(log)))
             = IF adv + 1 <= Len(log) THEN Len(log) - (adv + 1) + 1 ELSE 0
      /\ \A i \in 1..(Len(log) - (adv + 1) + 1) :
             SubSeq(log, adv + 1, Len(log))[i] = log[adv + 1 + i - 1]
  BY <1>1, SubSeqProperties
<1> QED
  BY <1>1, <1>2

-----------------------------------------------------------------------------
(* The steps of the chase.                                                 *)

\* A step that neither reads nor writes events, opens rows only for what the
\* batch reports down, and adds to the batch only devices that are down.
LEMMA ChaseCalm ==
    ASSUME Chase, UNCHANGED <<status, owed, log, adv, todo, raced>>, lost \subseteq lost',
           pc' \in {"idle", "read"} => adv = 0 /\ batch' = <<>>,
           pc' = "drain" => pc = "drain", pc' # "drain" => todo = <<>>,
           outage' \cup told' \subseteq outage \cup told \cup DownIn(batch),
           DownIn(batch') \subseteq DownIn(batch) \cup {d \in Device : status[d] = "down"}
    PROVE  Chase'
<1>1. Reading'
  BY DEF Chase, Reading
<1>2. Recorded'
  BY DEF Chase, Recorded
<1>3. \A d : Coming(d) => Coming(d)'
  BY DEF Coming
<1>4. DownIn(batch)' = DownIn(batch')
  BY DEF DownIn
<1>5. Chased'
  <2>1. ASSUME NEW d \in Device, status[d] = "up", d \in outage' \cup told'
        PROVE  Coming(d)' \/ Row(d, "up") \in Items(todo')
    BY <1>3, <2>1 DEF Chase, Chased
  <2>2. ASSUME NEW d \in Device, status[d] = "up", d \in DownIn(batch')
        PROVE  Coming(d)'
    BY <1>3, <2>2 DEF Chase, Chased
  <2> QED
    BY <1>4, <2>1, <2>2 DEF Chased
<1> QED
  BY <1>1, <1>2, <1>5 DEF Chase

\* A tick that ends without its cursor leaves every row to be read again.
LEMMA ChaseReset ==
    ASSUME TypeOK, Chase, ForgetTick, UNCHANGED <<status, log, outage, told, raced>>,
           lost \subseteq lost', \A d \in Device : owed'[d] \in {owed[d], "none"},
           \A d \in Device : owed'[d] # owed[d] => d \in lost'
    PROVE  Chase'
<1>1. /\ pc' = "idle" /\ adv' = 0 /\ todo' = <<>> /\ batch' = <<>>
      /\ Len(log) \in Nat /\ adv \in Nat /\ Len(todo) \in Nat
      /\ adv <= Len(log) /\ Len(todo) <= adv
  BY Lengths DEF ForgetTick, Chase, Reading
<1>2. Len(todo') = 0 /\ DownIn(batch)' = {}
  BY <1>1, NoDowns DEF DownIn
<1>3. Reading'
  BY <1>1, <1>2 DEF Reading
<1>4. Recorded'
  BY DEF Chase, Recorded
<1>5. \A d \in Device : Coming(d) => Coming(d)'
  <2>1. ASSUME NEW i \in (adv + 1)..Len(log) PROVE i \in 1..Len(log)
    BY <1>1
  <2> QED
    BY <1>1, <2>1 DEF Coming
<1>6. ASSUME NEW d \in Device, Row(d, "up") \in Items(todo) PROVE Coming(d)'
  <2>1. PICK k \in 1..Len(todo) : todo[k] = Row(d, "up")
    BY <1>6 DEF Items
  <2>2. todo[k] = log[adv - Len(todo) + k]
    BY <2>1 DEF Chase, Reading
  <2>3. adv - Len(todo) + k \in (0 + 1)..Len(log)
    BY <1>1, <2>1
  <2> QED
    BY <1>1, <2>1, <2>2, <2>3 DEF Coming
<1>7. Chased'
  BY <1>2, <1>5, <1>6 DEF Chase, Chased
<1> QED
  BY <1>3, <1>4, <1>7 DEF Chase

\* A device that changes owes its event; one that goes down is not chased.
LEMMA ChaseStatus ==
    ASSUME TypeOK, Chase, NEW d \in Device, PollStatus(d)
    PROVE  Chase'
<1>1. /\ UNCHANGED <<log, adv, todo, raced, lost, pc, batch, outage, told>>
      /\ owed[d] = "none"
      /\ \E s \in {"up", "down", "unsupported", "unknown"} :
             /\ status' = [status EXCEPT ![d] = s]
             /\ owed' = [owed EXCEPT ![d] = IF s = "unknown" THEN "none" ELSE s]
  BY DEF PollStatus, Verdicts, tickVars
<1>2. /\ \A e \in Device : e # d => status'[e] = status[e] /\ owed'[e] = owed[e]
      /\ owed'[d] = IF status'[d] = "unknown" THEN "none" ELSE status'[d]
      /\ status'[d] # "none"
  <2>1. status \in [Device -> {"up", "down", "unsupported", "unknown"}]
    BY DEF TypeOK
  <2>2. owed \in [Device -> {"none", "up", "down", "unsupported"}]
    BY DEF TypeOK
  <2> QED
    BY <1>1, <2>1, <2>2
<1>3. Reading'
  BY <1>1 DEF Chase, Reading
<1>4. Recorded'
  <2>1. ASSUME NEW e \in Device, e # d
        PROVE  /\ owed'[e] \in {"none", status'[e]}
               /\ owed'[e] = "none" /\ e \notin lost' /\ status'[e] \in {"up", "down"} =>
                      \A i \in 1..Len(log) : log[i].dev = e =>
                          \/ log[i].kind = status'[e]
                          \/ \E j \in (i + 1)..Len(log) : log[j] = Row(e, status'[e])
    BY <1>1, <1>2, <2>1 DEF Chase, Recorded
  <2> QED
    BY <1>1, <1>2, <2>1 DEF Recorded
<1>5. Chased'
  <2>1. ASSUME NEW e \in Device, e # d PROVE Coming(e) => Coming(e)'
    BY <1>1, <1>2, <2>1 DEF Coming
  <2>2. status'[d] = "up" => Coming(d)'
    BY <1>2 DEF Coming
  <2>3. DownIn(batch)' = DownIn(batch) /\ Items(todo)' = Items(todo)
    BY <1>1
  <2> QED
    BY <1>1, <1>2, <2>1, <2>2, <2>3 DEF Chase, Chased
<1> QED
  BY <1>3, <1>4, <1>5 DEF Chase

\* An event that is written is the last of its device and behind every position.
LEMMA ChaseEvent ==
    ASSUME TypeOK, Chase, NEW d \in Device, PollEvent(d)
    PROVE  Chase'
<1>1. /\ UNCHANGED <<status, adv, todo, raced, pc, batch, outage, told>>
      /\ log' = Append(log, Row(d, owed[d])) /\ owed[d] # "none"
      /\ owed' = [owed EXCEPT ![d] = "none"]
      /\ lost' = IF owed[d] = "unsupported" THEN lost ELSE lost \ {d}
  BY DEF PollEvent, tickVars, Row
<1>2. /\ owed[d] = status[d] /\ owed'[d] = "none"
      /\ \A e \in Device : e # d => owed'[e] = owed[e]
  BY <1>1 DEF Chase, Recorded, TypeOK
<1>3. adv <= Len(log) /\ Len(log) \in Nat /\ adv \in Nat
  BY Lengths DEF Chase, Reading
<1>4. /\ Len(log') = Len(log) + 1 /\ log'[Len(log) + 1] = Row(d, status[d])
      /\ \A i \in 1..Len(log) : log'[i] = log[i]
      /\ Len(log) + 1 \in (adv + 1)..Len(log')
      /\ \A n \in Nat : (n + 1)..Len(log) \subseteq (n + 1)..Len(log')
      /\ 1..Len(log') = 1..Len(log) \cup {Len(log) + 1}
  BY <1>1, <1>2, <1>3, LogAppend
<1>5. Reading'
  <2>1. adv <= Len(log')
    BY <1>3, <1>4
  <2>2. \A k \in 1..Len(todo) : todo[k] = log'[adv - Len(todo) + k]
    <3>1. ASSUME NEW k \in 1..Len(todo) PROVE adv - Len(todo) + k \in 1..Len(log)
      <4>1. Len(todo) \in Nat /\ Len(todo) <= adv
        BY Lengths DEF Chase, Reading
      <4> QED
        BY <1>3, <4>1
    <3> QED
      BY <1>4, <3>1 DEF Chase, Reading
  <2>3. \A i \in 1..adv : log'[i] = log[i]
    BY <1>3, <1>4
  <2> QED
    BY <1>1, <2>1, <2>2, <2>3 DEF Chase, Reading
<1>6. Recorded'
  <2>1. ASSUME NEW e \in Device, owed'[e] = "none", e \notin lost',
               status[e] \in {"up", "down"}, NEW i \in 1..Len(log'), log'[i].dev = e
        PROVE  \/ log'[i].kind = status'[e]
               \/ \E j \in (i + 1)..Len(log') : log'[j] = Row(e, status'[e])
    <3>1. CASE i = Len(log) + 1
      BY <1>1, <1>4, <2>1, <3>1 DEF Row
    <3>2. CASE i \in 1..Len(log) /\ e = d
      <4>1. Len(log) + 1 \in (i + 1)..Len(log')
        BY <1>3, <1>4, <3>2
      <4> QED
        BY <1>1, <1>4, <3>2, <4>1
    <3>3. CASE i \in 1..Len(log) /\ e # d
      <4>1. \/ log[i].kind = status[e]
            \/ \E j \in (i + 1)..Len(log) : log[j] = Row(e, status[e])
        BY <1>1, <1>2, <1>4, <2>1, <3>3 DEF Chase, Recorded
      <4>2. ASSUME NEW j \in (i + 1)..Len(log)
            PROVE  j \in (i + 1)..Len(log') /\ log'[j] = log[j]
        BY <1>3, <1>4, <3>3
      <4> QED
        BY <1>1, <1>4, <3>3, <4>1, <4>2
    <3> QED
      BY <1>4, <3>1, <3>2, <3>3
  <2>2. \A e \in Device : owed'[e] \in {"none", status'[e]}
    BY <1>1, <1>2 DEF Chase, Recorded
  <2>3. \A e \in Device : status'[e] = status[e]
    BY <1>1
  <2> QED
    BY <2>1, <2>2, <2>3 DEF Recorded
<1>7. Chased'
  <2>1. ASSUME NEW e \in Device, e # d, Coming(e) PROVE Coming(e)'
    <3>1. ASSUME NEW i \in (adv + 1)..Len(log)
          PROVE  i \in (adv + 1)..Len(log') /\ log'[i] = log[i]
      BY <1>3, <1>4
    <3> QED
      BY <1>1, <1>2, <2>1, <3>1 DEF Coming
  <2>2. status[d] = "up" => Coming(d)'
    BY <1>1, <1>4 DEF Coming
  <2>3. DownIn(batch)' = DownIn(batch) /\ Items(todo)' = Items(todo)
    BY <1>1
  <2> QED
    BY <1>1, <2>1, <2>2, <2>3 DEF Chase, Chased
<1> QED
  BY <1>5, <1>6, <1>7 DEF Chase

\* What is read is to be drained; a recovery that is no longer counted as raced
\* is among it.
LEMMA ChaseRead ==
    ASSUME TypeOK, Chase, ReadEvents
    PROVE  Chase'
<1>1. /\ UNCHANGED <<status, owed, log, lost, batch, outage, told>>
      /\ pc = "read" /\ pc' = "drain" /\ todo' = log /\ adv' = Len(log)
      /\ raced' = (raced \ {d \in Device : Recovers(log, d)})
                      \cup {d \in Device : DownThenUp(log, d)}
  BY DEF ReadEvents, RowsRead, nodesVars
<1>2. adv = 0 /\ batch = <<>> /\ Len(log) \in Nat
  BY <1>1, Lengths DEF Chase, Reading
<1>3. Reading'
  <2>1. ASSUME NEW i \in 1..Len(log), NEW j \in 1..Len(log), NEW d \in Device,
               i < j, log[i] = Row(d, "down"), log[j] = Row(d, "up")
        PROVE  d \in raced'
    BY <1>1, <2>1 DEF DownThenUp, Row
  <2>2. \A k \in 1..Len(log) : Len(log) - Len(log) + k = k
    BY <1>2
  <2> QED
    BY <1>1, <1>2, <2>1, <2>2 DEF Reading
<1>4. Recorded'
  BY <1>1 DEF Chase, Recorded
<1>5. Chased'
  <2>1. ASSUME NEW d \in Device, Coming(d) PROVE Coming(d)' \/ Row(d, "up") \in Items(log)
    <3>1. CASE owed[d] = "up" \/ d \in lost
      BY <1>1, <3>1 DEF Coming
    <3>2. CASE \E i \in (adv + 1)..Len(log) : log[i] = Row(d, "up")
      <4>1. (adv + 1)..Len(log) = 1..Len(log)
        BY <1>2
      <4> QED
        BY <3>2, <4>1 DEF Items
    <3>3. CASE d \in raced
      BY <1>1, <3>3 DEF Coming, Recovers, Items, Row
    <3> QED
      BY <2>1, <3>1, <3>2, <3>3 DEF Coming
  <2>2. Items(todo) = {} /\ DownIn(batch') = {} /\ Items(todo)' = Items(log)
    <3>1. todo = <<>>
      BY <1>1 DEF Chase, Reading
    <3> QED
      BY <1>1, <1>2, <3>1, NoDowns
  <2>3. DownIn(batch)' = {}
    BY <2>2 DEF DownIn
  <2> QED
    BY <1>1, <2>1, <2>2, <2>3 DEF Chase, Chased
<1> QED
  BY <1>3, <1>4, <1>5 DEF Chase

\* Draining takes the first of the rows that were read.
LEMMA DrainReads ==
    ASSUME TypeOK, Chase, pc = "drain", todo # <<>>, todo' = Tail(todo),
           UNCHANGED <<log, adv, pc, raced>>
    PROVE  /\ Reading' /\ Items(todo) \subseteq {Head(todo)} \cup Items(todo')
           /\ adv - Len(todo) + 1 \in 1..Len(log)
           /\ adv - Len(todo) + 1 <= adv
           /\ Head(todo) = log[adv - Len(todo) + 1]
<1>1. /\ Len(log) \in Nat /\ adv \in Nat /\ Len(todo) \in Nat
      /\ adv <= Len(log) /\ Len(todo) <= adv /\ todo \in Seq(Event)
  BY Lengths DEF Chase, Reading
<1>2. /\ Len(todo) > 0 /\ Head(todo) = todo[1] /\ Len(todo') = Len(todo) - 1
      /\ \A k \in 1..Len(todo') : todo'[k] = todo[k + 1]
  BY <1>1, HeadTailProperties
<1>3. ASSUME NEW k \in 1..Len(todo') PROVE todo'[k] = log[adv - Len(todo') + k]
  <2>1. k + 1 \in 1..Len(todo) /\ adv - Len(todo) + (k + 1) = adv - Len(todo') + k
    BY <1>1, <1>2
  <2> QED
    BY <1>2, <2>1 DEF Chase, Reading
<1>4. Items(todo) \subseteq {Head(todo)} \cup Items(todo')
  <2>1. ASSUME NEW k \in 1..Len(todo), k # 1 PROVE todo[k] \in Items(todo')
    <3>1. k - 1 \in 1..Len(todo') /\ todo'[k - 1] = todo[k]
      BY <1>1, <1>2, <2>1
    <3> QED
      BY <3>1 DEF Items
  <2> QED
    BY <1>2, <2>1 DEF Items
<1>5. Reading'
  <2>1. Len(todo') <= adv
    BY <1>1, <1>2
  <2> QED
    BY <1>3, <2>1 DEF Chase, Reading
<1>6. /\ adv - Len(todo) + 1 \in 1..Len(log) /\ adv - Len(todo) + 1 <= adv
      /\ 1 \in 1..Len(todo)
  BY <1>1, <1>2
<1> QED
  BY <1>2, <1>4, <1>5, <1>6 DEF Chase, Reading

\* A recovery that is drained takes the row; what it reports again is down.
LEMMA ChaseUp ==
    ASSUME TypeOK, Chase, DrainUp
    PROVE  Chase'
<1> DEFINE d == Head(todo).dev
<1>1. /\ UNCHANGED <<status, owed, log, adv, pc, lost, raced>>
      /\ pc = "drain" /\ todo # <<>> /\ todo' = Tail(todo)
      /\ Head(todo).kind = "up" /\ outage' = outage \ {d} /\ told' = told \ {d}
  BY DEF DrainUp, nodesVars, Cleared
<1>2. Reading' /\ Items(todo) \subseteq {Head(todo)} \cup Items(todo')
  BY <1>1, DrainReads
<1>3. PICK list \in Listings(StillDownBelow(d)) :
          batch' = batch \o Occurrences(list, "down", "upstream")
  BY DEF DrainUp
<1>4. DownIn(batch)' \subseteq DownIn(batch) \cup StillDownBelow(d)
  <2>1. StillDownBelow(d) \subseteq Device /\ batch \in Seq(Occurrence)
    BY Lengths DEF StillDownBelow, Below
  <2> QED
    BY <1>3, <2>1, DownsOfMore
<1>5. \A e : Coming(e) => Coming(e)'
  BY <1>1 DEF Coming
<1>6. Recorded'
  BY <1>1 DEF Chase, Recorded
<1>7. Chased'
  <2>1. ASSUME NEW e \in Device, status[e] = "up", e \in outage' \cup told'
        PROVE  Coming(e)' \/ Row(e, "up") \in Items(todo')
    <3>1. e \in outage \cup told /\ e # d
      BY <1>1, <2>1
    <3>2. Row(e, "up") # Head(todo)
      BY <3>1 DEF Row
    <3> QED
      BY <1>2, <1>5, <2>1, <3>1, <3>2 DEF Chase, Chased
  <2>2. ASSUME NEW e \in Device, status[e] = "up", e \in DownIn(batch)'
        PROVE  Coming(e)'
    <3>1. e \in DownIn(batch)
      BY <1>4, <2>2 DEF StillDownBelow
    <3> QED
      BY <1>5, <2>2, <3>1 DEF Chase, Chased
  <2>3. Items(todo)' = Items(todo')
    BY DEF Items
  <2> QED
    BY <1>1, <2>1, <2>2, <2>3 DEF Chased
<1> QED
  BY <1>2, <1>6, <1>7 DEF Chase

\* A "down" that is drained late is chased by the "up" behind it: within what
\* was read that is a race, beyond it a later tick drains it.
LEMMA ChaseDown ==
    ASSUME TypeOK, Chase, DrainDown
    PROVE  Chase'
<1> DEFINE d == Head(todo).dev
           n == adv - Len(todo) + 1
<1>1. /\ UNCHANGED <<status, owed, log, adv, pc, lost, raced, outage, told>>
      /\ pc = "drain" /\ todo # <<>> /\ todo' = Tail(todo)
      /\ Head(todo).kind = "down"
      /\ batch' = Append(batch, [dev |-> d, kind |-> "down", from |-> "event"])
  BY DEF DrainDown, nodesVars, ghosts
<1>2. /\ Reading' /\ Items(todo) \subseteq {Head(todo)} \cup Items(todo')
      /\ n \in 1..Len(log) /\ n <= adv /\ Head(todo) = log[n]
  BY <1>1, DrainReads
<1>3. d \in Device /\ Head(todo) \in Event /\ Head(todo) = Row(d, "down")
  BY <1>1, TodoType DEF Event, Row
<1>4. DownIn(batch)' \subseteq DownIn(batch) \cup {d}
  <2>1. /\ [dev |-> d, kind |-> "down", from |-> "event"] \in Occurrence
        /\ batch \in Seq(Occurrence)
    BY <1>3, Lengths DEF Occurrence
  <2> QED
    BY <1>1, <2>1, DownsOfOneMore
<1> HIDE DEF n, d
<1>5. ASSUME status[d] = "up" PROVE Coming(d)
  <2>1. CASE owed[d] = "up" \/ d \in lost
    BY <2>1 DEF Coming
  <2>2. CASE owed[d] # "up" /\ d \notin lost
    <3>1. owed[d] = "none"
      BY <1>3, <1>5, <2>2 DEF Chase, Recorded
    <3>2. log[n].dev = d /\ log[n].kind = "down"
      BY <1>2, <1>3 DEF Row
    <3>3. PICK j \in (n + 1)..Len(log) : log[j] = Row(d, "up")
      BY <1>2, <1>3, <1>5, <2>2, <3>1, <3>2 DEF Chase, Recorded
    <3>4. adv \in Nat /\ Len(log) \in Nat /\ n \in Int
      BY <1>2, Lengths
    <3>5. CASE j > adv
      <4>1. j \in (adv + 1)..Len(log)
        BY <3>4, <3>5
      <4> QED
        BY <3>3, <4>1 DEF Coming
    <3>6. CASE ~(j > adv)
      <4>1. n \in 1..adv /\ j \in 1..adv /\ n < j
        BY <1>2, <3>4, <3>6
      <4>2. d \in raced
        BY <1>1, <1>2, <1>3, <3>3, <4>1 DEF Chase, Reading
      <4> QED
        BY <4>2 DEF Coming
    <3> QED
      BY <3>5, <3>6
  <2> QED
    BY <2>1, <2>2
<1>6. \A e : Coming(e) => Coming(e)'
  BY <1>1 DEF Coming
<1>7. Recorded'
  BY <1>1 DEF Chase, Recorded
<1>8. Chased'
  <2>1. ASSUME NEW e \in Device, status[e] = "up", e \in outage \cup told
        PROVE  Coming(e)' \/ Row(e, "up") \in Items(todo')
    <3>1. Row(e, "up") # Head(todo)
      BY <1>3 DEF Row
    <3> QED
      BY <1>2, <1>6, <2>1, <3>1 DEF Chase, Chased
  <2>2. ASSUME NEW e \in Device, status[e] = "up", e \in DownIn(batch)'
        PROVE  Coming(e)'
    BY <1>4, <1>5, <1>6, <2>2 DEF Chase, Chased
  <2>3. Items(todo)' = Items(todo')
    BY DEF Items
  <2> QED
    BY <1>1, <2>1, <2>2, <2>3 DEF Chased
<1> QED
  BY <1>2, <1>7, <1>8 DEF Chase

\* An event that is neither leaves what chases a device where it is.
LEMMA ChaseOtherRow ==
    ASSUME TypeOK, Chase, DrainOther
    PROVE  Chase'
<1>1. /\ UNCHANGED <<status, owed, log, adv, pc, lost, raced, outage, told, batch>>
      /\ pc = "drain" /\ todo # <<>> /\ todo' = Tail(todo)
      /\ Head(todo).kind = "unsupported"
  BY DEF DrainOther, nodesVars, ghosts
<1>2. Reading' /\ Items(todo) \subseteq {Head(todo)} \cup Items(todo')
  BY <1>1, DrainReads
<1>3. \A e : Coming(e) => Coming(e)'
  BY <1>1 DEF Coming
<1>4. Recorded'
  BY <1>1 DEF Chase, Recorded
<1>5. Chased'
  <2>1. ASSUME NEW e \in Device, status[e] = "up", e \in outage \cup told
        PROVE  Coming(e)' \/ Row(e, "up") \in Items(todo')
    <3>1. Row(e, "up") # Head(todo)
      BY <1>1 DEF Row
    <3> QED
      BY <1>2, <1>3, <2>1, <3>1 DEF Chase, Chased
  <2>2. DownIn(batch)' = DownIn(batch) /\ Items(todo)' = Items(todo')
    BY <1>1 DEF Items
  <2> QED
    BY <1>1, <1>3, <2>1, <2>2 DEF Chase, Chased
<1> QED
  BY <1>2, <1>4, <1>5 DEF Chase

\* A drain that raises leaves every row to be read again.
LEMMA ChaseRaises ==
    ASSUME TypeOK, Chase, DrainRaises
    PROVE  Chase'
<1>1. /\ UNCHANGED <<status, owed, log, lost, raced, outage, told>>
      /\ pc' = "thresholds" /\ batch' = <<>> /\ todo' = <<>> /\ adv' = 0
      /\ Len(log) \in Nat /\ adv \in Nat /\ Len(todo) \in Nat
      /\ adv <= Len(log) /\ Len(todo) <= adv
  BY Lengths DEF DrainRaises, nodesVars, ghosts, Chase, Reading
<1>2. Len(todo') = 0 /\ DownIn(batch)' = {}
  BY <1>1, NoDowns DEF DownIn
<1>3. Reading'
  BY <1>1, <1>2 DEF Reading
<1>4. Recorded'
  BY <1>1 DEF Chase, Recorded
<1>5. \A d \in Device : Coming(d) => Coming(d)'
  <2>1. ASSUME NEW i \in (adv + 1)..Len(log) PROVE i \in (0 + 1)..Len(log)
    BY <1>1
  <2> QED
    BY <1>1, <2>1 DEF Coming
<1>6. ASSUME NEW d \in Device, Row(d, "up") \in Items(todo) PROVE Coming(d)'
  <2>1. PICK k \in 1..Len(todo) : todo[k] = Row(d, "up")
    BY <1>6 DEF Items
  <2>2. todo[k] = log[adv - Len(todo) + k]
    BY <2>1 DEF Chase, Reading
  <2>3. adv - Len(todo) + k \in (0 + 1)..Len(log)
    BY <1>1, <2>1
  <2> QED
    BY <1>1, <2>1, <2>2, <2>3 DEF Coming
<1>7. Chased'
  BY <1>1, <1>2, <1>5, <1>6 DEF Chase, Chased
<1> QED
  BY <1>3, <1>4, <1>7 DEF Chase

\* The flush moves past what was drained, and past nothing else.
LEMMA ChaseFlush ==
    ASSUME TypeOK, Chase, FlushCursors
    PROVE  Chase'
<1>1. /\ UNCHANGED <<status, owed, lost, raced, outage, told>>
      /\ pc = "apply" /\ pc' = "idle" /\ batch' = <<>> /\ todo' = <<>> /\ adv' = 0
      /\ log' = SubSeq(log, adv + 1, Len(log))
      /\ Len(log) \in Nat /\ adv \in Nat /\ adv <= Len(log) /\ todo = <<>>
  BY Lengths DEF FlushCursors, ForgetTick, nodesVars, ghosts, Chase, Reading
<1>2. /\ Len(log') = Len(log) - adv
      /\ \A i \in 1..Len(log') : adv + i \in 1..Len(log) /\ log'[i] = log[adv + i]
  BY <1>1, LogRest
<1>3. /\ Len(todo') = 0 /\ DownIn(batch)' = {} /\ Items(todo) = {}
      /\ Len(log') \in Nat
  BY <1>1, <1>2, NoDowns DEF DownIn
<1>4. Reading'
  BY <1>1, <1>3 DEF Reading
<1>5. Recorded'
  <2>1. ASSUME NEW d \in Device, owed[d] = "none", d \notin lost,
               status[d] \in {"up", "down"}, NEW i \in 1..Len(log'), log'[i].dev = d
        PROVE  \/ log'[i].kind = status[d]
               \/ \E j \in (i + 1)..Len(log') : log'[j] = Row(d, status[d])
    <3>1. CASE log[adv + i].kind = status[d]
      BY <1>2, <3>1
    <3>2. CASE \E j \in (adv + i + 1)..Len(log) : log[j] = Row(d, status[d])
      <4>1. PICK j \in (adv + i + 1)..Len(log) : log[j] = Row(d, status[d])
        BY <3>2
      <4>2. /\ i \in Nat /\ j \in Int /\ adv + i + 1 <= j /\ j <= Len(log)
            /\ 1 <= i /\ Len(log') = Len(log) - adv
        BY <1>1, <1>2, <1>3
      <4>3. j - adv \in (i + 1)..Len(log') /\ adv + (j - adv) = j /\ j - adv \in 1..Len(log')
        BY <1>1, <4>2
      <4>4. log'[j - adv] = Row(d, status[d])
        BY <1>2, <4>1, <4>3
      <4> QED
        BY <4>3, <4>4
    <3> QED
      BY <1>2, <2>1, <3>1, <3>2 DEF Chase, Recorded
  <2> QED
    BY <1>1, <2>1 DEF Recorded, Chase
<1>6. ASSUME NEW d \in Device, Coming(d) PROVE Coming(d)'
  <2>1. CASE owed[d] = "up" \/ d \in raced \cup lost
    BY <1>1, <2>1 DEF Coming
  <2>2. CASE \E i \in (adv + 1)..Len(log) : log[i] = Row(d, "up")
    <3>1. PICK i \in (adv + 1)..Len(log) : log[i] = Row(d, "up")
      BY <2>2
    <3>2. i - adv \in (0 + 1)..Len(log') /\ adv + (i - adv) = i /\ i - adv \in 1..Len(log')
      BY <1>1, <1>2
    <3>3. log'[i - adv] = Row(d, "up")
      BY <1>2, <3>1, <3>2
    <3> QED
      BY <1>1, <3>2, <3>3 DEF Coming
  <2> QED
    BY <1>6, <2>1, <2>2 DEF Coming
<1>7. Chased'
  BY <1>1, <1>3, <1>6 DEF Chase, Chased
<1> QED
  BY <1>4, <1>5, <1>7 DEF Chase

\* Every step of the apply loop takes its occurrence from the batch.
LEMMA ChaseApply ==
    ASSUME TypeOK, Absorbing, Chase,
           \/ Hold \/ Silence \/ RollUpDown \/ OpenDown \/ AbsorbChildren
           \/ (\E e \in Device : AbsorbDownstream(e)) \/ AbsorbDone \/ RollUpLoss
           \/ SuppressLoss \/ OwnCoverOrOpen \/ ApplyRaises
    PROVE  Chase'
<1> USE DEF nodesVars, tickVars, ghosts
<1>1. /\ UNCHANGED <<status, owed, log, adv, todo, raced, told>> /\ lost \subseteq lost'
      /\ pc \in {"apply", "children", "downstream"}
      /\ pc' \in {"apply", "children", "downstream"}
  BY DEF Hold, Silence, RollUpDown, OpenDown, AbsorbChildren, AbsorbDownstream,
         AbsorbDone, RollUpLoss, SuppressLoss, OwnCoverOrOpen, ApplyRaises, Applying
<1>2. batch # <<>> /\ (batch' = batch \/ batch' = Tail(batch))
  BY DEF Hold, Silence, RollUpDown, OpenDown, AbsorbChildren, AbsorbDownstream,
         AbsorbDone, RollUpLoss, SuppressLoss, OwnCoverOrOpen, ApplyRaises, Applying,
         Absorbing
<1>3. outage' \subseteq outage \/ (Head(batch).kind = "down" /\ outage' = outage \cup {Head(batch).dev})
  BY DEF Hold, Silence, RollUpDown, OpenDown, AbsorbChildren, AbsorbDownstream,
         AbsorbDone, RollUpLoss, SuppressLoss, OwnCoverOrOpen, ApplyRaises, Applying
<1>4. /\ DownIn(batch') \subseteq DownIn(batch)
      /\ outage' \cup told' \subseteq outage \cup told \cup DownIn(batch)
  <2>1. /\ DownIn(Tail(batch)) \subseteq DownIn(batch)
        /\ Head(batch).kind = "down" => Head(batch).dev \in DownIn(batch)
    BY <1>2, Lengths, DownsOfTail
  <2>2. told' = told
    BY <1>1
  <2>3. outage' \subseteq outage \cup DownIn(batch)
    BY <1>3, <2>1
  <2> QED
    BY <1>2, <2>1, <2>2, <2>3
<1>5. pc' # "drain" => todo = <<>>
  BY <1>1 DEF Chase, Reading
<1>6. pc' = "drain" => pc = "drain"
  BY <1>1
<1>7. pc' \in {"idle", "read"} => adv = 0 /\ batch' = <<>>
  BY <1>1
<1> QED
  BY <1>1, <1>4, <1>5, <1>6, <1>7, ChaseCalm

\* So does every other step that moves no event.
LEMMA ChaseOther ==
    ASSUME TypeOK, Chase,
           \/ (\E d \in Device : \/ PollSample(d) \/ LeaveGrace(d) \/ Operator(d))
           \/ Rewire \/ TickStart \/ DrainDone \/ EvaluateThresholds
           \/ DrainPending \/ ReadMutes \/ UNCHANGED vars
    PROVE  Chase'
<1> USE DEF nodesVars, alertVars, tickVars, ghosts
<1>1. /\ UNCHANGED <<status, owed, log, adv, todo, raced, lost>>
      /\ outage' \cup told' \subseteq outage \cup told
  BY DEF PollSample, LeaveGrace, Operator, ResolveByHand, ResolveWindowEnds, Mute,
         Unmute, Rewire, TickStart, DrainDone, EvaluateThresholds, DrainPending,
         ReadMutes, vars
<1>2. \/ UNCHANGED <<pc, batch>>
      \/ TickStart \/ DrainDone \/ EvaluateThresholds \/ DrainPending \/ ReadMutes
  BY DEF PollSample, LeaveGrace, Operator, ResolveByHand, ResolveWindowEnds, Mute,
         Unmute, Rewire, vars
<1>3. /\ pc' \in {"idle", "read"} => pc \in {"idle", "read"} /\ batch' = batch
      /\ pc' = "drain" => pc = "drain"
      /\ pc' # "drain" => pc # "drain" \/ todo = <<>>
  BY <1>2 DEF TickStart, DrainDone, EvaluateThresholds, DrainPending, ReadMutes
<1>4. DownIn(batch') \subseteq DownIn(batch) \cup {d \in Device : status[d] = "down"}
  <2>1. batch \in Seq(Occurrence)
    BY Lengths
  <2>2. CASE EvaluateThresholds
    <3>1. PICK list \in Listings(lossy) :
             batch' = batch \o Occurrences(list, "loss", "metric")
      BY <2>2 DEF EvaluateThresholds
    <3>2. lossy \subseteq Device
      BY DEF TypeOK
    <3>3. DownIn(batch') = DownIn(batch)
      BY <2>1, <3>1, <3>2, DownsOfMore
    <3> QED
      BY <3>3
  <2>3. CASE DrainPending
    <3> DEFINE S == {d \in Due : status[d] = "down"}
    <3>1. PICK list \in Listings(S) : batch' = batch \o Occurrences(list, "down", "held")
      BY <2>3 DEF DrainPending
    <3>2. S \subseteq Device
      BY DEF Due, TypeOK
    <3>3. DownIn(batch') \subseteq DownIn(batch) \cup S
      BY <2>1, <3>1, <3>2, DownsOfMore
    <3> QED
      BY <3>2, <3>3
  <2>4. CASE batch' = batch
    BY <2>4
  <2> QED
    BY <1>2, <2>2, <2>3, <2>4 DEF TickStart, DrainDone, ReadMutes
<1>5. pc' # "drain" => todo = <<>>
  BY <1>3 DEF Chase, Reading
<1>6. pc' \in {"idle", "read"} => adv = 0 /\ batch' = <<>>
  BY <1>3 DEF Chase, Reading
<1> QED
  BY <1>1, <1>3, <1>4, <1>5, <1>6, ChaseCalm

\* Every step keeps the chase.
LEMMA ChaseStep ==
    ASSUME TypeOK, Absorbing, Chase, [Next]_vars
    PROVE  Chase'
<1>1. CASE RulesRaise \/ MutesRaise
  BY <1>1, ChaseReset DEF RulesRaise, MutesRaise, nodesVars, ghosts
<1>2. CASE Crash
  <2>1. /\ ForgetTick /\ UNCHANGED <<status, log, outage, told, raced>>
        /\ owed' = [d \in Device |-> "none"]
        /\ lost' = lost \cup {d \in Device : owed[d] # "none"} \cup HeldInBatch
    BY <1>2 DEF Crash
  <2> QED
    BY <2>1, ChaseReset
<1> QED
  BY <1>1, <1>2, ChaseStatus, ChaseEvent, ChaseRead, ChaseUp, ChaseDown, ChaseOtherRow,
     ChaseRaises, ChaseFlush, ChaseApply, ChaseOther DEF Next, Tick, Fault, Poller

\* At first no device is down and nothing is written.
LEMMA ChaseInit == Init => Chase
<1> SUFFICES ASSUME Init PROVE Chase
  OBVIOUS
<1>1. /\ log = <<>> /\ todo = <<>> /\ batch = <<>> /\ adv = 0 /\ pc = "idle"
      /\ outage = {} /\ told = {} /\ owed = [d \in Device |-> "none"]
  BY DEF Init
<1>2. Len(log) = 0 /\ Len(todo) = 0 /\ DownIn(batch) = {}
  BY <1>1, NoDowns
<1>3. Reading
  BY <1>1, <1>2 DEF Reading
<1>4. Recorded
  BY <1>1, <1>2 DEF Recorded
<1>5. Chased
  BY <1>1, <1>2 DEF Chased
<1> QED
  BY <1>3, <1>4, <1>5 DEF Chase

\* A recovery ends the outage, however many devices fail and however often the
\* tick does: when the engine has caught up, a row of a device that is up is
\* left by a batch that held its "down" before its "up", or its recovery was
\* never written (_drain_node_events, _apply, CLEARS, _flush_cursors).
THEOREM RecoveryClears == Spec => []RecoveryClearsUnlessRaced
<1>1. TypeOK /\ Absorbing /\ Chase /\ [Next]_vars => Chase'
  BY ChaseStep
<1>2. TypeOK /\ Chase => RecoveryClearsUnlessRaced
  <2> SUFFICES ASSUME TypeOK, Chase, Settled, NEW d \in outage, status[d] = "up"
               PROVE  d \in raced \cup lost
    BY DEF RecoveryClearsUnlessRaced
  <2>1. d \in Device /\ status[d] = "up" /\ owed[d] = "none"
    BY DEF TypeOK, Settled
  <2>2. todo = <<>> /\ Items(todo) = {} /\ adv = 0 /\ Len(log) = 0
    BY NoDowns DEF Chase, Reading, Settled
  <2>3. Coming(d)
    BY <2>1, <2>2 DEF Chase, Chased
  <2> QED
    BY <2>1, <2>2, <2>3 DEF Coming
<1> QED
  BY <1>1, <1>2, ChaseInit, TypeCorrect, AbsorbingHolds, PTL DEF Spec

-----------------------------------------------------------------------------
(* Suppression never swallows an outage: the inductive invariant, in parts. *)

\* A transition that a later tick is going to read.
Later(a, k) == owed[a] = k \/ \E i \in (adv + 1)..Len(log) : log[i] = Row(a, k)

\* An outage that is on its way to the apply loop, or is held.
Reporting(a) ==
    \/ Later(a, "down") \/ Row(a, "down") \in Items(todo)
    \/ a \in DownIn(batch) \cup pending

\* A recovery that is still to be drained: it reports what is behind again.
Recovering(a) == Later(a, "up") \/ Row(a, "up") \in Items(todo)

\* What accounts for the outage of a device and of what is behind it.
Known(a) == status[a] = "down" /\ (a \in outage \cup told \/ Reporting(a))
Excepted == lost \cup moved \cup stranded
Anchored(a) == Known(a) \/ Recovering(a) \/ a \in Excepted \/ LeftOpen(a)
Reached(d) == \E a \in {d} \cup above[d] : Anchored(a)

\* An outage that need not be opened, if it lasts: another report of it is on
\* its way, or something upstream accounts for it.
Elsewhere(d) ==
    \/ Later(d, "down") \/ d \in Excepted
    \/ \E a \in above[d] : Anchored(a)

\* Every outage is accounted for, by the device or by one upstream of it.
Accounted == \A d \in Device : status[d] = "down" => Reached(d)

\* What a tick remembers of the upstream devices: a device it was told to be
\* covered is, however old the answer, and an ancestor it saw down is still
\* down, or what is down behind it is accounted for without it.
Remembered ==
    /\ pc \notin {"apply", "children", "downstream"} => cache = Fresh /\ memo = Fresh
    /\ \A d \in Device : cache[d] \in {"row", "cover"} /\ status[d] = "down" => Elsewhere(d)
    /\ \A a \in Device : memo[a] = "down" =>
           status[a] = "down" \/ \A d \in StillDownBelow(a) : Elsewhere(d)

\* Where an occurrence comes from, and so what brings it back if the tick ends
\* without it.
EventOrigin(o) == o.from = "event" => Row(o.dev, "down") \in Items(log)
UpstreamOrigin(o) ==
    o.from = "upstream" /\ status[o.dev] = "down" =>
        \/ owed[o.dev] = "down" \/ Row(o.dev, "down") \in Items(log)
        \/ o.dev \in lost \cup moved
        \/ \E a \in above[o.dev] : Row(a, "up") \in Items(log)
Origins ==
    \A o \in Items(batch) :
        /\ o.kind = "down" => EventOrigin(o) /\ UpstreamOrigin(o) /\ o.from # "metric"
        /\ o.from = "held" => pc \in {"mutes", "apply", "children", "downstream"}

Account == Accounted /\ Remembered /\ Origins

-----------------------------------------------------------------------------
(* What anchors an outage.                                                 *)

\* The devices upstream of one upstream of a device are upstream of it.
LEMMA Chains ==
    ASSUME TypeOK
    PROVE  \A d \in Device :
               /\ above[d] \subseteq Device /\ d \notin above[d]
               /\ \A a \in above[d] : above[a] \subseteq above[d]
<1>1. Forest(above)
  BY TopologyAssumption DEF TypeOK
<1> QED
  BY <1>1 DEF Forest

\* A device that has an outage row, or had one until an operator resolved it,
\* accounts for itself and for what is behind it: it is down, or it is chased,
\* or nothing but its row is left.
LEMMA RowsAnchor ==
    ASSUME TypeOK, Chase, NEW d \in Device, d \in outage \cup told
    PROVE  Anchored(d)
<1>1. CASE status[d] = "down"
  BY <1>1 DEF Anchored, Known
<1>2. CASE status[d] = "up"
  <2>1. Coming(d) \/ Row(d, "up") \in Items(todo)
    BY <1>2 DEF Chase, Chased
  <2>2. Coming(d) => Later(d, "up") \/ d \in raced \cup lost
    BY DEF Coming, Later
  <2> QED
    BY <1>2, <2>1, <2>2 DEF Anchored, Recovering, LeftOpen, Ended, Excepted
<1>3. CASE status[d] \in {"unsupported", "unknown"}
  BY <1>3 DEF Anchored, LeftOpen, Ended
<1> QED
  BY <1>1, <1>2, <1>3 DEF TypeOK

\* A device is told to be covered only if something accounts for its outage
\* without a report of its own: an answer given earlier in the tick, a row
\* upstream, or a hand resolve of an ancestor this tick saw down.
LEMMA AskedElsewhere ==
    ASSUME TypeOK, Chase, Account, NEW d \in Device, status[d] = "down",
           Upstream(d) # "none"
    PROVE  Elsewhere(d)
<1>1. CASE cache[d] # "unread"
  <2>1. cache[d] \in {"row", "cover"}
    BY <1>1 DEF Upstream, TypeOK
  <2> QED
    BY <2>1 DEF Account, Remembered
<1>2. CASE cache[d] = "unread" /\ above[d] \cap outage # {}
  <2>1. PICK a \in above[d] : a \in outage
    BY <1>2
  <2>2. Anchored(a)
    BY <2>1, Chains, RowsAnchor
  <2> QED
    BY <2>1, <2>2 DEF Elsewhere
<1>3. CASE cache[d] = "unread" /\ above[d] \cap outage = {}
  <2>1. PICK a \in Covering(d) : TRUE
    BY <1>3 DEF Upstream, UpstreamNow
  <2>2. a \in above[d] /\ a \in Device /\ Seen(a) = "down"
    BY <2>1, Chains DEF Covering, Asked, Walked
  <2>3. CASE status[a] = "down"
    <3>1. PICK b \in {a} \cup above[a] : Anchored(b)
      BY <2>2, <2>3 DEF Account, Accounted, Reached
    <3>2. b \in above[d]
      BY <2>2, <3>1, Chains
    <3> QED
      BY <3>1, <3>2 DEF Elsewhere
  <2>4. CASE status[a] # "down"
    <3>1. memo[a] = "down"
      BY <2>2, <2>4 DEF Seen, Standing
    <3>2. d \in StillDownBelow(a)
      BY <2>2 DEF StillDownBelow, Below
    <3> QED
      BY <2>2, <2>4, <3>1, <3>2 DEF Account, Remembered
  <2> QED
    BY <2>3, <2>4
<1> QED
  BY <1>1, <1>2, <1>3

\* Nothing that anchors an outage is let go of without another that does.
Kept == \A x \in Device : Anchored(x) => Reached(x)'

\* Then what is accounted for stays so.
LEMMA Carry ==
    ASSUME TypeOK, UNCHANGED above, Kept, NEW d \in Device
    PROVE  /\ Reached(d) => Reached(d)'
           /\ (\E a \in above[d] : Anchored(a)) => (\E a \in above[d] : Anchored(a))'
<1>1. ASSUME NEW a \in {d} \cup above[d], Anchored(a)
      PROVE  \E b \in {a} \cup above[a] : Anchored(b)'
  <2>1. a \in Device
    BY Chains
  <2> QED
    BY <1>1, <2>1 DEF Kept, Reached
<1>2. \A a \in above[d] : above[a] \subseteq above[d]
  BY Chains
<1> HIDE DEF Anchored
<1>3. (\E a \in above[d] : Anchored(a)) => (\E a \in above[d] : Anchored(a)')
  BY <1>1, <1>2
<1>4. Reached(d) => (\E a \in {d} \cup above[d] : Anchored(a)')
  BY <1>1, <1>2 DEF Reached
<1> QED
  BY <1>3, <1>4 DEF Reached

\* A step that moves no event leaves a device's own anchor where it is, if an
\* outage that is known of stays known of.
LEMMA AnchorStays ==
    ASSUME NEW x \in Device, UNCHANGED <<status, owed, log, adv, todo>>,
           x \in Excepted => x \in Excepted', x \in raced => x \in raced',
           x \in outage \cup told => x \in outage' \cup told',
           status[x] = "down" /\ x \in DownIn(batch) \cup pending
               => x \in outage' \cup told' \cup DownIn(batch)' \cup pending',
           Anchored(x)
    PROVE  Anchored(x)'
<1>1. /\ \A k : Later(x, k)' <=> Later(x, k)
      /\ Items(todo)' = Items(todo)
  BY DEF Later
<1>2. Recovering(x) => Recovering(x)'
  BY <1>1 DEF Recovering
<1>3. Known(x) => Known(x)'
  BY <1>1 DEF Known, Reporting
<1> QED
  BY <1>2, <1>3 DEF Anchored, LeftOpen, Ended

-----------------------------------------------------------------------------
(* The apply loop.                                                         *)

\* Each of its steps.
ApplyStep ==
    \/ Hold \/ Silence \/ RollUpDown \/ OpenDown \/ AbsorbChildren
    \/ (\E e \in Device : AbsorbDownstream(e)) \/ AbsorbDone \/ RollUpLoss
    \/ SuppressLoss \/ OwnCoverOrOpen \/ ApplyRaises

\* What every one of them leaves alone.
LEMMA ApplyFrame ==
    ASSUME TypeOK, Absorbing, Chase, ApplyStep
    PROVE  /\ UNCHANGED <<status, owed, log, adv, todo, above, told, raced, moved, stranded>>
           /\ lost \subseteq lost' /\ pending \subseteq pending'
           /\ pc \in {"apply", "children", "downstream"}
           /\ pc' \in {"apply", "children", "downstream"}
           /\ batch # <<>> /\ batch' \in {batch, Tail(batch)}
  BY DEF ApplyStep, Hold, Silence, RollUpDown, OpenDown, AbsorbChildren,
         AbsorbDownstream, AbsorbDone, RollUpLoss, SuppressLoss, OwnCoverOrOpen,
         ApplyRaises, Applying, Absorbing, nodesVars, alertVars, tickVars, ghosts

\* A device the occurrence in hand and the sweep are not about keeps its anchor.
LEMMA ApplyOthers ==
    ASSUME TypeOK, Absorbing, Chase, ApplyStep, NEW x \in Device, Anchored(x),
           x \in outage \cup told => x \in outage' \cup told',
           x \in DownIn(batch) => x \in outage' \cup told' \cup DownIn(batch') \cup pending'
    PROVE  Anchored(x)'
<1>1. DownIn(batch)' = DownIn(batch')
  BY DEF DownIn
<1>2. x \in Excepted => x \in Excepted'
  BY ApplyFrame DEF Excepted
<1> QED
  BY <1>1, <1>2, ApplyFrame, AnchorStays

\* A row that an opened outage absorbs is behind it, or was moved from there.
LEMMA AbsorbKeeps ==
    ASSUME TypeOK, Absorbing, Opener, Chase, NEW e \in Device, AbsorbDownstream(e)
    PROVE  Kept
<1>1. ApplyStep
  BY DEF ApplyStep
<1>2. /\ UNCHANGED <<above, batch, pending, told, moved>> /\ outage' = outage \ {e}
      /\ e \in sweep /\ pc = "downstream" /\ batch # <<>>
  BY DEF AbsorbDownstream, nodesVars, alertVars, Absorbing
<1>3. ASSUME NEW x \in Device, Anchored(x), x # e \/ e \notin outage PROVE Anchored(x)'
  BY <1>1, <1>2, <1>3, ApplyOthers
<1>4. ASSUME e \in outage PROVE Reached(e)'
  <2>1. PICK h \in Device : h = Head(batch).dev
    BY <1>2, BatchType
  <2>2. h \in outage \cup told /\ h # e /\ e \in Below(h) \cup moved
    BY <1>2, <1>4, <2>1 DEF Opener
  <2>3. CASE e \in moved
    BY <1>2, <2>3 DEF Reached, Anchored, Excepted
  <2>4. CASE e \in Below(h)
    <3>1. h \in above[e]
      BY <2>4 DEF Below
    <3>2. Anchored(h)'
      BY <1>3, <2>2, RowsAnchor
    <3> QED
      BY <1>2, <3>1, <3>2 DEF Reached
  <2> QED
    BY <2>2, <2>3, <2>4
<1>5. \A x \in Device : Anchored(x)' => Reached(x)'
  BY DEF Reached
<1> QED
  BY <1>3, <1>4, <1>5 DEF Kept

\* The occurrence that is taken off the batch is held, was opened, is lost or
\* is covered from upstream.
LEMMA ConsumedReached ==
    ASSUME TypeOK, Absorbing, Opener, Chase, Account, ApplyStep,
           \A e \in Device : ~AbsorbDownstream(e),
           NEW h \in Device, h = Head(batch).dev, Head(batch).kind = "down",
           Anchored(h), status[h] = "down", batch' = Tail(batch)
    PROVE  \/ h \in outage' \cup told' \cup pending' \cup lost'
           \/ Elsewhere(h)
<1>1. CASE Hold
  BY <1>1 DEF Hold
<1>2. CASE Silence
  BY <1>2 DEF Silence
<1>3. CASE RollUpDown
  BY <1>3, AskedElsewhere DEF RollUpDown
<1>4. CASE OpenDown
  BY <1>4 DEF OpenDown
<1>5. CASE AbsorbDone
  BY <1>5 DEF AbsorbDone, Opener, ghosts
<1>6. CASE ApplyRaises
  BY <1>6 DEF ApplyRaises, Opener
<1>7. CASE AbsorbChildren
  BY <1>7 DEF AbsorbChildren, Opener
<1>8. ~(RollUpLoss \/ SuppressLoss \/ OwnCoverOrOpen)
  BY DEF RollUpLoss, SuppressLoss, OwnCoverOrOpen, Applying
<1> QED
  BY <1>1, <1>2, <1>3, <1>4, <1>5, <1>6, <1>7, <1>8 DEF ApplyStep

\* No step of the apply loop lets an anchor go without another.
LEMMA ApplyKeeps ==
    ASSUME TypeOK, Absorbing, Opener, Chase, Account, ApplyStep
    PROVE  Kept
<1>1. CASE \E e \in Device : AbsorbDownstream(e)
  BY <1>1, AbsorbKeeps
<1>2. CASE \A e \in Device : ~AbsorbDownstream(e)
  <2>1. outage \subseteq outage' /\ told' = told
    BY <1>2 DEF ApplyStep, Hold, Silence, RollUpDown, OpenDown, AbsorbChildren,
            AbsorbDone, RollUpLoss, SuppressLoss, OwnCoverOrOpen, ApplyRaises, ghosts
  <2>2. PICK h \in Device : h = Head(batch).dev
    BY ApplyFrame, BatchType
  <2>3. /\ UNCHANGED <<status, owed, log, adv, above, raced, moved, stranded>>
        /\ lost \subseteq lost' /\ pending \subseteq pending'
        /\ batch # <<>> /\ batch' \in {batch, Tail(batch)}
    BY ApplyFrame
  <2>4. \A x \in DownIn(batch) :
           x \in DownIn(batch') \/ (batch' = Tail(batch) /\ Head(batch).kind = "down" /\ x = h)
    BY <2>2, <2>3, Lengths, DownsOfTail
  <2>5. ASSUME NEW x \in Device, Anchored(x), x # h PROVE Anchored(x)'
    BY <2>1, <2>4, <2>5, ApplyOthers
  <2>6. ASSUME Anchored(h),
               batch' = batch \/ Head(batch).kind # "down"
                   \/ h \in outage' \cup told' \cup DownIn(batch') \cup pending'
        PROVE  Anchored(h)'
    BY <2>1, <2>4, <2>6, ApplyOthers
  <2>7. ASSUME Anchored(h), batch' = Tail(batch), Head(batch).kind = "down"
        PROVE  Reached(h)'
    <3>1. CASE status[h] # "down"
      <4>1. Recovering(h) \/ h \in Excepted \/ LeftOpen(h)
        BY <2>7, <3>1 DEF Anchored, Known
      <4>2. Recovering(h) => Recovering(h)'
        BY ApplyFrame DEF Recovering, Later
      <4>3. Anchored(h)'
        BY <2>1, <2>3, <4>1, <4>2 DEF Anchored, LeftOpen, Ended, Excepted
      <4> QED
        BY <4>3 DEF Reached
    <3>2. CASE status[h] = "down"
      <4>1. \/ h \in outage' \cup told' \cup pending' \cup lost'
            \/ Elsewhere(h)
        BY <1>2, <2>2, <2>7, <3>2, ConsumedReached
      <4>2. CASE h \in outage' \cup told' \cup pending'
        BY <2>6, <2>7, <4>2 DEF Reached
      <4>3. CASE h \in lost'
        BY <4>3 DEF Reached, Anchored, Excepted
      <4>4. CASE Elsewhere(h)
        <5>1. CASE Later(h, "down")
          <6>1. Later(h, "down")'
            BY <2>3, <5>1 DEF Later
          <6> QED
            BY <2>3, <3>2, <6>1 DEF Reached, Anchored, Known, Reporting
        <5>2. CASE h \in Excepted
          BY <2>3, <5>2 DEF Reached, Anchored, Excepted
        <5>3. CASE \E a \in above[h] : Anchored(a)
          <6>1. PICK a \in above[h] : Anchored(a)
            BY <5>3
          <6>2. a \in Device /\ a # h
            BY <6>1, Chains
          <6>3. Anchored(a)'
            BY <2>5, <6>1, <6>2
          <6> QED
            BY <2>3, <6>1, <6>3 DEF Reached
        <5> QED
          BY <4>4, <5>1, <5>2, <5>3 DEF Elsewhere
      <4> QED
        BY <4>1, <4>2, <4>3, <4>4
    <3> QED
      BY <3>1, <3>2
  <2>8. \A x \in Device : Anchored(x)' => Reached(x)'
    BY DEF Reached
  <2> QED
    BY <2>3, <2>5, <2>6, <2>7, <2>8 DEF Kept
<1> QED
  BY <1>1, <1>2

\* What the apply loop comes to remember is asked in the step, and is so.
LEMMA ApplyMemory ==
    ASSUME TypeOK, Absorbing, Chase, ApplyStep
    PROVE  /\ \A d \in Device :
                  cache'[d] \in {"row", "cover"} => cache'[d] = cache[d] \/ Upstream(d) # "none"
           /\ \A a \in Device : memo'[a] = "down" => memo[a] = "down" \/ status[a] = "down"
<1>1. PICK h \in Device : h = Head(batch).dev
  BY ApplyFrame, BatchType
<1>2. /\ cache \in [Device -> {"unread", "row", "cover", "none"}]
      /\ \/ cache' = cache
         \/ cache' = [cache EXCEPT ![h] = Upstream(h)]
         \/ cache' = [cache EXCEPT ![h] = "none"]
  BY <1>1 DEF ApplyStep, Hold, Silence, RollUpDown, OpenDown, AbsorbChildren,
              AbsorbDownstream, AbsorbDone, RollUpLoss, SuppressLoss, OwnCoverOrOpen,
              ApplyRaises, AskUpstream, memoVars, TypeOK
<1>3. memo' = memo \/ \E S : memo' = MemoAfter(S)
  BY DEF ApplyStep, Hold, Silence, RollUpDown, OpenDown, AbsorbChildren,
         AbsorbDownstream, AbsorbDone, RollUpLoss, SuppressLoss, OwnCoverOrOpen,
         ApplyRaises, AskUpstream, memoVars
<1>4. ASSUME NEW d \in Device, cache'[d] \in {"row", "cover"}
      PROVE  cache'[d] = cache[d] \/ Upstream(d) # "none"
  BY <1>2, <1>4
<1>5. \A S : \A a \in Device : MemoAfter(S)[a] = "down" => memo[a] = "down" \/ status[a] = "down"
  BY DEF MemoAfter, Seen, Standing
<1> QED
  BY <1>3, <1>4, <1>5

\* The apply loop keeps the account.
LEMMA ApplyAccount ==
    ASSUME TypeOK, Absorbing, Opener, Chase, Account, ApplyStep
    PROVE  Account'
<1>1. /\ UNCHANGED <<status, owed, log, adv, above, raced, moved, stranded>>
      /\ lost \subseteq lost'
      /\ pc' \in {"apply", "children", "downstream"}
      /\ batch # <<>> /\ batch' \in {batch, Tail(batch)}
  BY ApplyFrame
<1>2. Kept
  BY ApplyKeeps
<1>3. Accounted'
  BY <1>1, <1>2, Carry DEF Account, Accounted
<1>4. ASSUME NEW d \in Device, Elsewhere(d) PROVE Elsewhere(d)'
  <2>1. Later(d, "down") => Later(d, "down")'
    BY <1>1 DEF Later
  <2> QED
    BY <1>1, <1>2, <1>4, <2>1, Carry DEF Elsewhere, Excepted
<1>5. Remembered'
  <2>1. ASSUME NEW d \in Device, cache'[d] \in {"row", "cover"}, status[d] = "down"
        PROVE  Elsewhere(d)'
    BY <1>4, <2>1, ApplyMemory, AskedElsewhere DEF Account, Remembered
  <2>2. ASSUME NEW a \in Device, memo'[a] = "down", status[a] # "down",
               NEW d \in StillDownBelow(a)
        PROVE  Elsewhere(d)'
    <3>1. memo[a] = "down" /\ d \in Device
      BY <2>2, ApplyMemory DEF StillDownBelow, Below
    <3> QED
      BY <1>4, <2>2, <3>1 DEF Account, Remembered
  <2>3. \A a : StillDownBelow(a)' = StillDownBelow(a)
    BY <1>1 DEF StillDownBelow, Below
  <2> QED
    BY <1>1, <2>1, <2>2, <2>3 DEF Remembered
<1>6. Origins'
  <2>1. Items(batch)' \subseteq Items(batch)
    <3>1. Items(batch)' = Items(batch')
      BY DEF Items
    <3> QED
      BY <1>1, <3>1, Lengths, ItemsHead
  <2> QED
    BY <1>1, <2>1 DEF Account, Origins, EventOrigin, UpstreamOrigin
<1> QED
  BY <1>3, <1>5, <1>6 DEF Account

-----------------------------------------------------------------------------
(* The poller, and its stores.                                             *)

\* An occurrence names a device.
LEMMA BatchItems ==
    ASSUME TypeOK, NEW o \in Items(batch)
    PROVE  o \in Occurrence /\ o.dev \in Device
<1>1. PICK i \in 1..Len(batch) : o = batch[i]
  BY DEF Items
<1>2. o \in Occurrence
  BY <1>1, Lengths, ElementOfSeq
<1> QED
  BY <1>2 DEF Occurrence

\* A device that goes up or down owes its event, and that is an account of it;
\* one that goes from "down" to "unsupported" owes none, and strands what is down
\* behind it.
LEMMA StatusAccount ==
    ASSUME TypeOK, Chase, Account, NEW d \in Device, PollStatus(d)
    PROVE  Account'
<1>1. /\ UNCHANGED <<log, adv, todo, raced, lost, moved, pc, batch, outage, told,
                     above, pending, cache, memo>>
      /\ owed[d] = "none"
      /\ \E s \in {"up", "down", "unsupported", "unknown"} :
             /\ status' = [status EXCEPT ![d] = s]
             /\ owed' = [owed EXCEPT ![d] = IF s = "unknown" THEN "none" ELSE s]
             /\ s = "unknown" => status[d] # "down"
             /\ stranded' = IF status[d] = "down" /\ s = "unsupported"
                              THEN stranded \cup StillDownBelow(d) ELSE stranded
  BY DEF PollStatus, Verdicts, tickVars, alertVars, memoVars
<1>2. /\ \A e \in Device : e # d => status'[e] = status[e] /\ owed'[e] = owed[e]
      /\ status'[d] \in {"up", "down"} => owed'[d] = status'[d]
      /\ status'[d] \in {"up", "down", "unsupported", "unknown"}
      /\ status[d] = "down" /\ status'[d] \notin {"up", "down"} =>
             StillDownBelow(d) \subseteq stranded'
      /\ stranded \subseteq stranded'
  BY <1>1 DEF TypeOK
<1>3. /\ \A e \in Device : \A k \in {"up", "down"} : Later(e, k) => Later(e, k)'
      /\ status'[d] = "down" => Later(d, "down")'
      /\ status'[d] = "up" => Later(d, "up")'
  BY <1>1, <1>2 DEF Later
<1>4. /\ Items(todo)' = Items(todo) /\ DownIn(batch)' = DownIn(batch)
      /\ Items(batch)' = Items(batch) /\ Excepted \subseteq Excepted'
  BY <1>1, <1>2 DEF Excepted
<1>5. status'[d] \in {"up", "down"} => Anchored(d)'
  BY <1>3 DEF Anchored, Known, Recovering, Reporting
<1>6. ASSUME NEW e \in Device, e # d, Anchored(e) PROVE Anchored(e)'
  <2>1. Known(e) => Known(e)'
    BY <1>1, <1>2, <1>3, <1>4, <1>6 DEF Known, Reporting
  <2>2. Recovering(e) => Recovering(e)'
    BY <1>3, <1>4 DEF Recovering
  <2>3. LeftOpen(e) => LeftOpen(e)'
    BY <1>1, <1>2, <1>6 DEF LeftOpen, Ended
  <2> QED
    BY <1>4, <1>6, <2>1, <2>2, <2>3 DEF Anchored
<1>7. ASSUME status[d] # "down", Anchored(d) PROVE Anchored(d)'
  <2>1. Recovering(d) => Recovering(d)'
    BY <1>3, <1>4 DEF Recovering
  <2>2. LeftOpen(d) => LeftOpen(d)' \/ status'[d] \in {"up", "down"}
    BY <1>1, <1>2 DEF LeftOpen, Ended
  <2> QED
    BY <1>4, <1>5, <1>7, <2>1, <2>2 DEF Anchored, Known
<1>8. ASSUME NEW e \in Device, status'[e] = "down", NEW a \in {e} \cup above[e], Anchored(a)
      PROVE  \/ Anchored(a)'
             \/ e \in stranded'
  <2>1. CASE a # d
    BY <1>6, <1>8, <2>1, Chains
  <2>2. CASE a = d /\ (status[d] # "down" \/ status'[d] \in {"up", "down"})
    BY <1>5, <1>7, <1>8, <2>2
  <2>3. CASE a = d /\ status[d] = "down" /\ status'[d] \notin {"up", "down"}
    <3>1. e # d /\ e \in Below(d) /\ status[e] = "down"
      BY <1>2, <1>8, <2>3 DEF Below
    <3> QED
      BY <1>2, <2>3, <3>1 DEF StillDownBelow
  <2> QED
    BY <2>1, <2>2, <2>3
<1>9. \A e \in Device : e \in stranded' => Reached(e)' /\ Elsewhere(e)'
  BY DEF Reached, Elsewhere, Anchored, Excepted
<1>10. Accounted'
  <2>1. ASSUME NEW e \in Device, status'[e] = "down" PROVE Reached(e)'
    <3>1. CASE e = d
      BY <1>5, <2>1, <3>1 DEF Reached
    <3>2. CASE e # d
      <4>1. PICK a \in {e} \cup above[e] : Anchored(a)
        BY <1>2, <2>1, <3>2 DEF Account, Accounted, Reached
      <4>2. Anchored(a)' \/ e \in stranded'
        BY <1>8, <2>1, <4>1
      <4> QED
        BY <1>1, <1>9, <4>1, <4>2 DEF Reached
    <3> QED
      BY <3>1, <3>2
  <2> QED
    BY <2>1 DEF Accounted
<1>11. ASSUME NEW e \in Device, status'[e] = "down", e = d \/ Elsewhere(e)
       PROVE  Elsewhere(e)'
  <2>1. CASE e = d
    BY <1>3, <1>11, <2>1 DEF Elsewhere
  <2>2. CASE Later(e, "down") \/ e \in Excepted
    BY <1>3, <1>4, <2>2 DEF Elsewhere
  <2>3. CASE \E a \in above[e] : Anchored(a)
    <3>1. PICK a \in above[e] : Anchored(a)
      BY <2>3
    <3>2. Anchored(a)' \/ e \in stranded'
      BY <1>8, <1>11, <3>1
    <3> QED
      BY <1>1, <1>9, <3>1, <3>2 DEF Elsewhere
  <2> QED
    BY <1>11, <2>1, <2>2, <2>3 DEF Elsewhere
<1>12. Remembered'
  <2>1. ASSUME NEW e \in Device, cache[e] \in {"row", "cover"}, status'[e] = "down"
        PROVE  Elsewhere(e)'
    BY <1>2, <1>11, <2>1 DEF Account, Remembered
  <2>2. ASSUME NEW a \in Device, memo[a] = "down", status'[a] # "down",
               NEW e \in Below(a), status'[e] = "down"
        PROVE  Elsewhere(e)'
    <3>1. e \in Device /\ a \in above[e]
      BY <2>2 DEF Below
    <3>2. CASE e = d
      BY <1>11, <2>2, <3>1, <3>2
    <3>3. CASE e # d /\ status[a] # "down"
      BY <1>2, <1>11, <2>2, <3>1, <3>3 DEF Account, Remembered, StillDownBelow
    <3>4. CASE e # d /\ status[a] = "down"
      <4>1. PICK b \in {a} \cup above[a] : Anchored(b)
        BY <3>4 DEF Account, Accounted, Reached
      <4>2. b \in above[e]
        BY <3>1, <4>1, Chains
      <4>3. Elsewhere(e)
        BY <4>1, <4>2 DEF Elsewhere
      <4> QED
        BY <1>11, <2>2, <3>1, <4>3
    <3> QED
      BY <3>2, <3>3, <3>4
  <2>3. \A a : StillDownBelow(a)' = {e \in Below(a) : status'[e] = "down"}
    BY <1>1 DEF StillDownBelow, Below
  <2> QED
    BY <1>1, <2>1, <2>2, <2>3 DEF Account, Remembered, Fresh
<1>13. Origins'
  <2>1. ASSUME NEW o \in Items(batch) PROVE o.dev \in Device
    BY <2>1, BatchItems
  <2> QED
    BY <1>1, <1>2, <1>4, <2>1 DEF Account, Origins, EventOrigin, UpstreamOrigin
<1> QED
  BY <1>10, <1>12, <1>13 DEF Account

\* An event that is written is still to be read, and accounts for a device
\* whose last transition was lost.
LEMMA EventAccount ==
    ASSUME TypeOK, Chase, Account, NEW d \in Device, PollEvent(d)
    PROVE  Account'
<1>1. /\ UNCHANGED <<status, adv, todo, raced, moved, pc, batch, outage, told,
                     above, pending, cache, memo>>
      /\ log' = Append(log, Row(d, owed[d])) /\ owed[d] # "none"
      /\ owed' = [owed EXCEPT ![d] = "none"]
      /\ owed[d] = "unsupported" => UNCHANGED <<lost, stranded>>
      /\ lost \ {d} \subseteq lost' /\ stranded \ {d} \subseteq stranded'
  BY DEF PollEvent, tickVars, alertVars, memoVars, Row
<1>2. /\ owed[d] = status[d] /\ \A e \in Device : e # d => owed'[e] = owed[e]
  BY <1>1 DEF Chase, Recorded, TypeOK
<1>3. adv <= Len(log) /\ Len(log) \in Nat /\ adv \in Nat
  BY Lengths DEF Chase, Reading
<1>4. /\ Len(log') = Len(log) + 1 /\ log'[Len(log) + 1] = Row(d, status[d])
      /\ \A i \in 1..Len(log) : log'[i] = log[i]
      /\ Len(log) + 1 \in (adv + 1)..Len(log')
      /\ \A n \in Nat : (n + 1)..Len(log) \subseteq (n + 1)..Len(log')
      /\ 1..Len(log') = 1..Len(log) \cup {Len(log) + 1}
  BY <1>1, <1>2, <1>3, LogAppend
<1>5. /\ status[d] = "down" => Later(d, "down")'
      /\ status[d] = "up" => Later(d, "up")'
      /\ \A e \in Device : \A k : Later(e, k) => Later(e, k)'
  <2>1. \A k : k = status[d] => Later(d, k)'
    BY <1>1, <1>4 DEF Later
  <2>2. ASSUME NEW e \in Device, NEW k, Later(e, k) PROVE Later(e, k)'
    <3>1. ASSUME NEW i \in (adv + 1)..Len(log)
          PROVE  i \in (adv + 1)..Len(log') /\ log'[i] = log[i]
      BY <1>3, <1>4
    <3>2. CASE e = d /\ owed[e] = k
      BY <1>2, <2>1, <3>2
    <3> QED
      BY <1>1, <1>2, <2>2, <3>1, <3>2 DEF Later
  <2> QED
    BY <2>1, <2>2
<1>6. Items(log) \cup {Row(d, status[d])} \subseteq Items(log)'
  BY <1>4 DEF Items
<1>7. /\ Items(todo)' = Items(todo) /\ DownIn(batch)' = DownIn(batch)
      /\ Items(batch)' = Items(batch)
      /\ \A e \in Device : e \in Excepted =>
             e \in Excepted' \/ (e = d /\ status[d] # "unsupported")
  BY <1>1, <1>2 DEF Excepted
<1>8. status[d] \in {"up", "down"} => Anchored(d)'
  BY <1>1, <1>5 DEF Anchored, Known, Recovering, Reporting
<1>9. ASSUME NEW e \in Device, Anchored(e) PROVE Anchored(e)'
  <2>1. Known(e) => Known(e)'
    BY <1>1, <1>5, <1>7 DEF Known, Reporting
  <2>2. Recovering(e) => Recovering(e)'
    BY <1>5, <1>7 DEF Recovering
  <2>3. LeftOpen(e) => LeftOpen(e)'
    BY <1>1 DEF LeftOpen, Ended
  <2>4. e \in Excepted => e \in Excepted' \/ (e = d /\ status[d] \in {"up", "down"})
    BY <1>1, <1>2, <1>7 DEF TypeOK
  <2> QED
    BY <1>8, <1>9, <2>1, <2>2, <2>3, <2>4 DEF Anchored
<1>10. Kept
  BY <1>9 DEF Kept, Reached
<1>11. Accounted'
  BY <1>1, <1>10, Carry DEF Account, Accounted
<1>12. Remembered'
  <2>1. ASSUME NEW e \in Device, status[e] = "down", Elsewhere(e) PROVE Elsewhere(e)'
    <3>1. CASE e = d
      BY <1>5, <2>1, <3>1 DEF Elsewhere
    <3>2. CASE e # d
      BY <1>1, <1>5, <1>7, <1>10, <2>1, <3>2, Carry DEF Elsewhere
    <3> QED
      BY <3>1, <3>2
  <2>2. /\ \A a : StillDownBelow(a)' = StillDownBelow(a)
        /\ \A a : \A e \in StillDownBelow(a) : e \in Device /\ status[e] = "down"
    BY <1>1 DEF StillDownBelow, Below
  <2> QED
    BY <1>1, <2>1, <2>2 DEF Account, Remembered, Fresh
<1>13. Origins'
  <2>1. ASSUME NEW o \in Items(batch) PROVE o.dev \in Device
    BY <2>1, BatchItems
  <2>2. ASSUME NEW o \in Items(batch), EventOrigin(o) PROVE EventOrigin(o)'
    BY <1>6, <2>2 DEF EventOrigin
  <2>3. ASSUME NEW o \in Items(batch), UpstreamOrigin(o) PROVE UpstreamOrigin(o)'
    <3>1. CASE o.dev = d
      BY <1>1, <1>6, <3>1 DEF UpstreamOrigin
    <3>2. CASE o.dev # d
      BY <1>1, <1>2, <1>6, <2>1, <2>3, <3>2 DEF UpstreamOrigin
    <3> QED
      BY <3>1, <3>2
  <2> QED
    BY <1>1, <1>7, <2>2, <2>3 DEF Account, Origins
<1> QED
  BY <1>11, <1>12, <1>13 DEF Account

-----------------------------------------------------------------------------
(* The rest of the tick, and the operators.                                *)

\* A step that moves no event and no upstream pointer only adds to what is
\* known of an outage.
LEMMA CalmAccount ==
    ASSUME TypeOK, Chase, Account,
           \/ (\E d \in Device : \/ PollSample(d) \/ LeaveGrace(d) \/ Operator(d))
           \/ TickStart \/ DrainDone \/ EvaluateThresholds
           \/ DrainPending \/ ReadMutes \/ UNCHANGED vars
    PROVE  Account'
<1> USE DEF nodesVars, alertVars, tickVars, memoVars, ghosts
<1>1. /\ UNCHANGED <<status, owed, log, adv, todo, above, lost, raced, moved, stranded,
                     cache, memo>>
      /\ outage \cup told \subseteq outage' \cup told'
  BY DEF PollSample, LeaveGrace, Operator, ResolveByHand, ResolveWindowEnds, Mute,
         Unmute, TickStart, DrainDone, EvaluateThresholds, DrainPending,
         ReadMutes, vars
<1>2. \/ UNCHANGED <<pc, batch, pending>>
      \/ TickStart \/ DrainDone \/ EvaluateThresholds \/ DrainPending \/ ReadMutes
  BY DEF PollSample, LeaveGrace, Operator, ResolveByHand, ResolveWindowEnds, Mute,
         Unmute, vars
<1>3. /\ pc \in {"mutes", "apply", "children", "downstream"} =>
             pc' \in {"mutes", "apply", "children", "downstream"}
      /\ pc' \notin {"apply", "children", "downstream"} =>
             pc \notin {"apply", "children", "downstream"}
  BY <1>2 DEF TickStart, DrainDone, EvaluateThresholds, DrainPending, ReadMutes
<1>4. /\ DownIn(batch) \subseteq DownIn(batch')
      /\ \A d \in pending : status[d] = "down" => d \in pending' \cup DownIn(batch')
      /\ \A o \in Items(batch') \ Items(batch) :
             \/ o.from = "metric" /\ o.kind = "loss"
             \/ o.from = "held" /\ pc' = "mutes"
  <2>1. batch \in Seq(Occurrence)
    BY Lengths
  <2>2. CASE EvaluateThresholds
    <3>1. PICK list \in Listings(lossy) :
             batch' = batch \o Occurrences(list, "loss", "metric")
      BY <2>2 DEF EvaluateThresholds
    <3> lossy \subseteq Device
      BY DEF TypeOK
    <3>2. Items(batch') = Items(batch) \cup {[dev |-> d, kind |-> "loss", from |-> "metric"] : d \in lossy}
      BY <2>1, <3>1, OccurrencesType, ItemsConcat, ItemsListed
    <3>3. DownIn(batch') = DownIn(batch)
      BY <2>1, <3>1, DownsOfMore
    <3> QED
      BY <2>2, <3>2, <3>3 DEF EvaluateThresholds
  <2>3. CASE DrainPending
    <3> DEFINE S == {d \in Due : status[d] = "down"}
    <3>1. PICK list \in Listings(S) : batch' = batch \o Occurrences(list, "down", "held")
      BY <2>3 DEF DrainPending
    <3>2. S \subseteq Device /\ pending' = pending \ Due /\ pc' = "mutes"
      BY <2>3 DEF Due, DrainPending, TypeOK
    <3>3. \A d \in Due : status[d] = "down" => d \in S
      OBVIOUS
    <3> HIDE DEF S
    <3>4. Items(batch') = Items(batch) \cup {[dev |-> d, kind |-> "down", from |-> "held"] : d \in S}
      BY <2>1, <3>1, <3>2, OccurrencesType, ItemsConcat, ItemsListed
    <3>5. DownIn(batch') = DownIn(batch) \cup S
      BY <2>1, <3>1, <3>2, DownsOfMore
    <3> QED
      BY <3>2, <3>3, <3>4, <3>5
  <2>4. CASE batch' = batch /\ pending' = pending
    BY <2>4
  <2> QED
    BY <1>2, <2>2, <2>3, <2>4 DEF TickStart, DrainDone, ReadMutes
<1>5. DownIn(batch)' = DownIn(batch') /\ Items(batch)' = Items(batch')
  BY DEF DownIn, Items
<1>6. ASSUME NEW x \in Device, Anchored(x) PROVE Anchored(x)'
  BY <1>1, <1>4, <1>5, <1>6, AnchorStays DEF Excepted
<1>7. Kept
  BY <1>6 DEF Kept, Reached
<1>8. Accounted'
  BY <1>1, <1>7, Carry DEF Account, Accounted
<1>9. Remembered'
  <2>1. \A a, k : Later(a, k)' <=> Later(a, k)
    BY <1>1 DEF Later
  <2>2. ASSUME NEW d \in Device, Elsewhere(d) PROVE Elsewhere(d)'
    BY <1>1, <1>7, <2>1, <2>2, Carry DEF Elsewhere, Excepted
  <2>3. \A a : StillDownBelow(a)' = StillDownBelow(a) /\ StillDownBelow(a) \subseteq Device
    BY <1>1 DEF StillDownBelow, Below
  <2>4. pc' \notin {"apply", "children", "downstream"} => cache = Fresh /\ memo = Fresh
    BY <1>3 DEF Account, Remembered
  <2>5. Fresh' = Fresh
    BY DEF Fresh
  <2> QED
    BY <1>1, <2>2, <2>3, <2>4, <2>5 DEF Account, Remembered
<1>10. Origins'
  <2>1. ASSUME NEW o \in Items(batch)
        PROVE  /\ EventOrigin(o) => EventOrigin(o)'
               /\ UpstreamOrigin(o) => UpstreamOrigin(o)'
    BY <1>1 DEF EventOrigin, UpstreamOrigin
  <2>2. ASSUME NEW o, o.from \in {"metric", "held"}
        PROVE  EventOrigin(o)' /\ UpstreamOrigin(o)'
    BY <2>2 DEF EventOrigin, UpstreamOrigin
  <2> QED
    BY <1>3, <1>4, <1>5, <2>1, <2>2 DEF Account, Origins
<1> QED
  BY <1>8, <1>9, <1>10 DEF Account

\* A device that is moved while it is down is noted, and it is what a move can
\* take out of an account.
LEMMA RewireAccount ==
    ASSUME TypeOK, Chase, Account, Rewire
    PROVE  Account'
<1>1. /\ UNCHANGED <<status, owed, log, adv, todo, lost, raced, cache, memo,
                     outage, told, batch, pending, pc>>
      /\ UNCHANGED stranded /\ moved \subseteq moved'
      /\ \A d \in Device : status[d] = "down" => above'[d] = above[d] \/ d \in moved'
  BY DEF Rewire, alertVars, tickVars, memoVars
<1>2. /\ \A a, k : Later(a, k)' <=> Later(a, k)
      /\ Items(todo)' = Items(todo) /\ DownIn(batch)' = DownIn(batch)
      /\ Items(batch)' = Items(batch) /\ Items(log)' = Items(log)
      /\ Excepted \subseteq Excepted' /\ moved' \subseteq Excepted'
  BY <1>1 DEF Later, Excepted
<1>3. \A x \in Device : Anchored(x) => Anchored(x)'
  BY <1>1, <1>2 DEF Anchored, Known, Recovering, Reporting, LeftOpen, Ended
<1>4. ASSUME NEW d \in Device, status[d] = "down", d \notin moved'
      PROVE  /\ Reached(d) => Reached(d)'
             /\ Elsewhere(d) => Elsewhere(d)'
  <2>1. above'[d] = above[d] /\ above[d] \subseteq Device
    BY <1>1, <1>4, Chains
  <2> QED
    BY <1>1, <1>2, <1>3, <2>1 DEF Reached, Elsewhere
<1>5. Accounted'
  BY <1>1, <1>2, <1>4 DEF Account, Accounted, Reached, Anchored
<1>6. Remembered'
  <2>1. ASSUME NEW d \in Device, status[d] = "down", Elsewhere(d) \/ d \in moved'
        PROVE  Elsewhere(d)'
    <3>1. CASE d \in moved'
      BY <1>2, <3>1 DEF Elsewhere
    <3>2. CASE d \notin moved'
      BY <1>4, <2>1, <3>2
    <3> QED
      BY <3>1, <3>2
  <2>2. ASSUME NEW a \in Device, NEW d \in StillDownBelow(a)'
        PROVE  /\ d \in Device /\ status[d] = "down"
               /\ d \in StillDownBelow(a) \/ d \in moved'
    BY <1>1, <2>2 DEF StillDownBelow, Below
  <2>3. Fresh' = Fresh
    BY DEF Fresh
  <2> QED
    BY <1>1, <2>1, <2>2, <2>3 DEF Account, Remembered
<1>7. Origins'
  <2>1. ASSUME NEW o \in Items(batch)
        PROVE  /\ EventOrigin(o) => EventOrigin(o)'
               /\ UpstreamOrigin(o) => UpstreamOrigin(o)'
    <3>1. o.dev \in Device
      BY BatchItems
    <3> QED
      BY <1>1, <1>2, <3>1 DEF EventOrigin, UpstreamOrigin
  <2> QED
    BY <1>1, <1>2, <2>1 DEF Account, Origins
<1> QED
  BY <1>5, <1>6, <1>7 DEF Account

\* What is read is to be drained.
LEMMA ReadAccount ==
    ASSUME TypeOK, Chase, Account, ReadEvents
    PROVE  Account'
<1>1. /\ UNCHANGED <<status, owed, log, lost, batch, outage, told, above, moved,
                     stranded, pending, cache, memo>>
      /\ pc = "read" /\ pc' = "drain" /\ todo' = log /\ adv' = Len(log)
      /\ raced' = (raced \ {d \in Device : Recovers(log, d)})
                      \cup {d \in Device : DownThenUp(log, d)}
  BY DEF ReadEvents, RowsRead, nodesVars, alertVars, memoVars, ghosts
<1>2. /\ adv = 0 /\ batch = <<>> /\ todo = <<>> /\ Len(log) \in Nat
      /\ Items(todo) = {} /\ DownIn(batch) = {} /\ Items(batch) = {}
  <2>1. adv = 0 /\ batch = <<>> /\ todo = <<>>
    BY <1>1 DEF Chase, Reading
  <2> QED
    BY <2>1, Lengths, NoDowns
<1>3. \A a, k : Later(a, k) => Later(a, k)' \/ Row(a, k) \in Items(todo)'
  <2>1. (adv + 1)..Len(log) = 1..Len(log)
    BY <1>2
  <2> QED
    BY <1>1, <2>1 DEF Later, Items
<1>4. \A x \in raced : x \in raced' \/ Row(x, "up") \in Items(todo)'
  <2>1. ASSUME NEW x \in raced, x \notin raced' PROVE Recovers(log, x)
    BY <1>1, <2>1 DEF TypeOK
  <2> QED
    BY <1>1, <2>1 DEF Recovers, Items, Row
<1>5. ASSUME NEW x \in Device, Anchored(x) PROVE Anchored(x)'
  <2>1. Recovering(x) => Recovering(x)'
    BY <1>2, <1>3 DEF Recovering
  <2>2. Known(x) => Known(x)'
    BY <1>1, <1>2, <1>3 DEF Known, Reporting
  <2>3. LeftOpen(x) => LeftOpen(x)' \/ Recovering(x)'
    BY <1>1, <1>4 DEF LeftOpen, Ended, Recovering
  <2> QED
    BY <1>1, <1>5, <2>1, <2>2, <2>3 DEF Anchored, Excepted
<1>6. Kept
  BY <1>5 DEF Kept, Reached
<1>7. Accounted'
  BY <1>1, <1>6, Carry DEF Account, Accounted
<1>8. Remembered'
  BY <1>1 DEF Account, Remembered, Fresh
<1>9. Origins'
  BY <1>1, <1>2 DEF Origins
<1> QED
  BY <1>7, <1>8, <1>9 DEF Account

\* A "down" that is drained is handed to the apply loop.
LEMMA DownAccount ==
    ASSUME TypeOK, Chase, Account, DrainDown
    PROVE  Account'
<1>1. PICK h \in Device : h = Head(todo).dev
  BY TodoType DEF DrainDown
<1>2. /\ UNCHANGED <<status, owed, log, adv, pc, lost, raced, moved, stranded, outage,
                     told, above, pending, cache, memo>>
      /\ pc = "drain" /\ todo # <<>> /\ todo' = Tail(todo)
      /\ Head(todo) = Row(h, "down")
      /\ batch' = Append(batch, [dev |-> h, kind |-> "down", from |-> "event"])
  BY <1>1, TodoType DEF DrainDown, nodesVars, alertVars, memoVars, ghosts, Event, Row
<1>3. /\ Items(todo) \subseteq {Row(h, "down")} \cup Items(todo')
      /\ Row(h, "down") \in Items(log)
  BY <1>2, DrainReads DEF Items
<1>4. /\ Items(batch') = Items(batch) \cup {[dev |-> h, kind |-> "down", from |-> "event"]}
      /\ DownIn(batch') = DownIn(batch) \cup {h}
  <2>1. /\ [dev |-> h, kind |-> "down", from |-> "event"] \in Occurrence
        /\ batch \in Seq(Occurrence)
    BY Lengths DEF Occurrence
  <2> QED
    BY <1>2, <2>1, ItemsAppend, DownsOfOneMore
<1>5. /\ DownIn(batch)' = DownIn(batch') /\ Items(batch)' = Items(batch')
      /\ Items(todo)' = Items(todo') /\ \A a, k : Later(a, k)' <=> Later(a, k)
  BY <1>2 DEF DownIn, Items, Later
<1>6. ASSUME NEW x \in Device, Anchored(x) PROVE Anchored(x)'
  <2>1. Reporting(x) => Reporting(x)'
    BY <1>2, <1>3, <1>4, <1>5 DEF Reporting, Row
  <2>2. Row(x, "up") # Row(h, "down")
    BY DEF Row
  <2>3. Recovering(x) => Recovering(x)'
    BY <1>3, <1>5, <2>2 DEF Recovering
  <2> QED
    BY <1>2, <1>6, <2>1, <2>3 DEF Anchored, Known, LeftOpen, Ended, Excepted
<1>7. Kept
  BY <1>6 DEF Kept, Reached
<1>8. Accounted'
  BY <1>2, <1>7, Carry DEF Account, Accounted
<1>9. Remembered'
  BY <1>2 DEF Account, Remembered, Fresh
<1>10. Origins'
  <2>1. ASSUME NEW o \in Items(batch)
        PROVE  /\ EventOrigin(o) => EventOrigin(o)'
               /\ UpstreamOrigin(o) => UpstreamOrigin(o)'
    BY <1>2 DEF EventOrigin, UpstreamOrigin
  <2>2. ASSUME NEW o, o = [dev |-> h, kind |-> "down", from |-> "event"]
        PROVE  EventOrigin(o)' /\ UpstreamOrigin(o)' /\ o.from = "event"
    BY <1>2, <1>3, <2>2 DEF EventOrigin, UpstreamOrigin
  <2> QED
    BY <1>2, <1>4, <1>5, <2>1, <2>2 DEF Account, Origins
<1> QED
  BY <1>8, <1>9, <1>10 DEF Account

\* An event that is neither takes nothing away.
LEMMA OtherAccount ==
    ASSUME TypeOK, Chase, Account, DrainOther
    PROVE  Account'
<1>1. /\ UNCHANGED <<status, owed, log, adv, pc, lost, raced, moved, stranded, outage,
                     told, above, pending, cache, memo, batch>>
      /\ pc = "drain" /\ todo # <<>> /\ todo' = Tail(todo)
      /\ Head(todo).kind = "unsupported"
  BY DEF DrainOther, nodesVars, alertVars, memoVars, ghosts
<1>2. Items(todo) \subseteq {Head(todo)} \cup Items(todo')
  BY <1>1, DrainReads
<1>3. /\ DownIn(batch)' = DownIn(batch) /\ Items(batch)' = Items(batch)
      /\ Items(todo)' = Items(todo') /\ \A a, k : Later(a, k)' <=> Later(a, k)
  BY <1>1 DEF Items, Later
<1>4. ASSUME NEW x \in Device, Anchored(x) PROVE Anchored(x)'
  <2>1. Row(x, "up") # Head(todo) /\ Row(x, "down") # Head(todo)
    BY <1>1 DEF Row
  <2>2. Reporting(x) => Reporting(x)'
    BY <1>1, <1>2, <1>3, <2>1 DEF Reporting
  <2>3. Recovering(x) => Recovering(x)'
    BY <1>2, <1>3, <2>1 DEF Recovering
  <2> QED
    BY <1>1, <1>4, <2>2, <2>3 DEF Anchored, Known, LeftOpen, Ended, Excepted
<1>5. Kept
  BY <1>4 DEF Kept, Reached
<1>6. Accounted'
  BY <1>1, <1>5, Carry DEF Account, Accounted
<1>7. Remembered'
  BY <1>1 DEF Account, Remembered, Fresh
<1>8. Origins'
  BY <1>1, <1>3 DEF Account, Origins, EventOrigin, UpstreamOrigin
<1> QED
  BY <1>6, <1>7, <1>8 DEF Account

\* A recovery that is drained reports again what is behind it and still down;
\* the device itself is up, or its next outage is recorded behind.
LEMMA UpAccount ==
    ASSUME TypeOK, Chase, Account, DrainUp
    PROVE  Account'
<1>1. PICK h \in Device : h = Head(todo).dev
  BY TodoType DEF DrainUp
<1>2. /\ UNCHANGED <<status, owed, log, adv, pc, lost, raced, above, pending, cache, memo>>
      /\ pc = "drain" /\ todo # <<>> /\ todo' = Tail(todo)
      /\ Head(todo) = Row(h, "up")
      /\ outage' = outage \ {h} /\ told' = told \ {h} /\ moved' = moved \ {h}
      /\ stranded' = stranded \ Below(h)
  BY <1>1, TodoType DEF DrainUp, nodesVars, alertVars, memoVars, Cleared, Event, Row
<1>3. PICK list \in Listings(StillDownBelow(h)) :
          batch' = batch \o Occurrences(list, "down", "upstream")
  BY <1>1 DEF DrainUp
<1>4. /\ Items(batch') = Items(batch)
             \cup {[dev |-> d, kind |-> "down", from |-> "upstream"] : d \in StillDownBelow(h)}
      /\ DownIn(batch') = DownIn(batch) \cup StillDownBelow(h)
  <2>1. StillDownBelow(h) \subseteq Device /\ batch \in Seq(Occurrence)
    BY Lengths DEF StillDownBelow, Below
  <2>2. DownIn(batch') = DownIn(batch) \cup StillDownBelow(h)
    BY <1>3, <2>1, DownsOfMore
  <2>3. Occurrences(list, "down", "upstream") \in Seq(Occurrence)
    BY <2>1, OccurrencesType
  <2>4. Items(batch') = Items(batch) \cup Items(Occurrences(list, "down", "upstream"))
    BY <1>3, <2>1, <2>3, ItemsConcat
  <2> QED
    BY <2>1, <2>2, <2>4, ItemsListed
<1>5. /\ DownIn(batch)' = DownIn(batch') /\ Items(batch)' = Items(batch')
      /\ Items(todo)' = Items(todo') /\ \A a, k : Later(a, k)' <=> Later(a, k)
  BY <1>2 DEF DownIn, Items, Later
<1> DEFINE n == adv - Len(todo) + 1
<1>6. /\ Items(todo) \subseteq {Row(h, "up")} \cup Items(todo')
      /\ n \in 1..Len(log) /\ n <= adv /\ log[n] = Row(h, "up")
  BY <1>2, DrainReads
<1>7. Reading'
  BY <1>2, DrainReads
<1> HIDE DEF n
<1>8. ASSUME status[h] = "down"
      PROVE  \/ owed[h] = "down" \/ h \in lost
             \/ /\ Row(h, "down") \in Items(log)
                /\ Later(h, "down") \/ Row(h, "down") \in Items(todo')
  <2>1. CASE owed[h] # "none"
    BY <1>8, <2>1 DEF Chase, Recorded
  <2>2. CASE owed[h] = "none" /\ h \notin lost
    <3>1. log[n].dev = h /\ log[n].kind = "up"
      BY <1>6 DEF Row
    <3>2. PICK j \in (n + 1)..Len(log) : log[j] = Row(h, "down")
      BY <1>6, <1>8, <2>2, <3>1 DEF Chase, Recorded
    <3>3. /\ adv \in Nat /\ Len(log) \in Nat /\ Len(todo) \in Nat /\ n \in Int
          /\ Len(todo) > 0 /\ Len(todo') = Len(todo) - 1 /\ n = adv - Len(todo) + 1
      BY <1>2, <1>6, Lengths, HeadTailProperties DEF n
    <3>4. j \in 1..Len(log) /\ (j > adv => j \in (adv + 1)..Len(log))
      BY <1>6, <3>3
    <3>5. CASE j > adv
      BY <3>2, <3>4, <3>5 DEF Later, Items
    <3>6. CASE ~(j > adv)
      <4>1. j - n \in 1..Len(todo') /\ adv - Len(todo') + (j - n) = j
        BY <1>6, <3>3, <3>6
      <4>2. todo'[j - n] = log[j]
        BY <1>2, <1>7, <4>1 DEF Reading
      <4> QED
        BY <3>2, <3>4, <4>1, <4>2 DEF Items
    <3> QED
      BY <3>5, <3>6
  <2> QED
    BY <2>1, <2>2
<1>9. ASSUME NEW x \in Device, x # h, Anchored(x) PROVE Anchored(x)' \/ x \in Below(h)
  <2>1. Row(x, "up") # Row(h, "up") /\ Row(x, "down") # Row(h, "up")
    BY <1>9 DEF Row
  <2>2. Reporting(x) => Reporting(x)'
    BY <1>2, <1>4, <1>5, <1>6, <2>1 DEF Reporting
  <2>3. Recovering(x) => Recovering(x)'
    BY <1>5, <1>6, <2>1 DEF Recovering
  <2> QED
    BY <1>2, <1>9, <2>2, <2>3 DEF Anchored, Known, LeftOpen, Ended, Excepted
<1>10. ASSUME status[h] = "down" PROVE Anchored(h)'
  <2>1. Later(h, "down")' \/ h \in lost' \/ Row(h, "down") \in Items(todo)'
    BY <1>2, <1>5, <1>8, <1>10 DEF Later
  <2> QED
    BY <1>2, <1>10, <2>1 DEF Anchored, Known, Reporting, Excepted
<1>11. Accounted'
  <2>1. ASSUME NEW d \in Device, status[d] = "down" PROVE Reached(d)'
    <3>1. PICK a \in {d} \cup above[d] : Anchored(a)
      BY <2>1 DEF Account, Accounted, Reached
    <3>2. CASE Anchored(a)'
      BY <1>2, <3>1, <3>2 DEF Reached
    <3>3. CASE a = h /\ d = h
      BY <1>10, <2>1, <3>3 DEF Reached
    <3>4. CASE (a = h /\ d # h) \/ a \in Below(h)
      <4>1. h \in above[d]
        BY <3>1, <3>4, Chains DEF Below
      <4>2. d \in StillDownBelow(h)
        BY <2>1, <4>1 DEF StillDownBelow, Below
      <4> QED
        BY <1>2, <1>4, <1>5, <2>1, <4>2 DEF Reached, Anchored, Known, Reporting
    <3> QED
      BY <1>9, <3>1, <3>2, <3>3, <3>4, Chains
  <2> QED
    BY <1>2, <2>1 DEF Accounted
<1>12. Remembered'
  BY <1>2 DEF Account, Remembered, Fresh
<1>13. Origins'
  <2>1. ASSUME NEW o \in Items(batch)
        PROVE  /\ EventOrigin(o) => EventOrigin(o)'
               /\ UpstreamOrigin(o) => UpstreamOrigin(o)'
    <3>1. EventOrigin(o) => EventOrigin(o)'
      BY <1>2 DEF EventOrigin
    <3>2. CASE o.dev = h /\ status[h] = "down"
      BY <1>2, <1>8, <3>1, <3>2 DEF UpstreamOrigin
    <3>3. CASE o.dev # h \/ status[h] # "down"
      BY <1>2, <3>1, <3>3 DEF UpstreamOrigin
    <3> QED
      BY <3>2, <3>3
  <2>2. ASSUME NEW d \in StillDownBelow(h), NEW o,
               o = [dev |-> d, kind |-> "down", from |-> "upstream"]
        PROVE  EventOrigin(o)' /\ UpstreamOrigin(o)' /\ o.from = "upstream"
    <3>1. h \in above[d] /\ Row(h, "up") \in Items(log)
      BY <1>6 DEF StillDownBelow, Below, Items
    <3> QED
      BY <1>2, <2>2, <3>1 DEF EventOrigin, UpstreamOrigin
  <2>3. ASSUME NEW o \in Items(batch'), o \notin Items(batch)
        PROVE  EventOrigin(o)' /\ UpstreamOrigin(o)' /\ o.from = "upstream"
    BY <1>4, <2>2, <2>3
  <2> QED
    BY <1>2, <1>5, <2>1, <2>3 DEF Account, Origins
<1> QED
  BY <1>11, <1>12, <1>13 DEF Account

\* A tick that ends without its cursor, or a drain that raises, leaves every
\* row to be read again, and with them whatever it had still to apply.
LEMMA ResetAccount ==
    ASSUME TypeOK, Chase, Account,
           UNCHANGED <<status, log, above, outage, told, raced, moved, stranded, pending>>,
           adv' = 0, todo' = <<>>, batch' = <<>>, cache' = Fresh, memo' = Fresh,
           pc' \notin {"apply", "children", "downstream"}, lost \subseteq lost',
           HeldInBatch \subseteq lost' \/ pc \in {"drain", "rules"},
           \A d \in Device : owed'[d] = owed[d] \/ d \in lost'
    PROVE  Account'
<1>1. /\ Len(log) \in Nat /\ adv \in Nat /\ Len(todo) \in Nat
      /\ adv <= Len(log) /\ Len(todo) <= adv
  BY Lengths DEF Chase, Reading
<1>2. /\ Items(todo)' = {} /\ Items(batch)' = {} /\ DownIn(batch)' = {}
      /\ Items(log)' = Items(log)
  BY NoDowns DEF Items, DownIn
<1>3. ASSUME NEW x \in Device, NEW k, Row(x, k) \in Items(log) PROVE Later(x, k)'
  <2>1. PICK i \in 1..Len(log) : log[i] = Row(x, k)
    BY <1>3 DEF Items
  <2>2. i \in (0 + 1)..Len(log)
    BY <1>1
  <2> QED
    BY <2>1, <2>2 DEF Later
<1>4. ASSUME NEW x \in Device, NEW k, Later(x, k) PROVE Later(x, k)' \/ x \in lost'
  <2>1. CASE owed[x] = k
    BY <2>1 DEF Later
  <2>2. CASE \E i \in (adv + 1)..Len(log) : log[i] = Row(x, k)
    <3>1. (adv + 1)..Len(log) \subseteq 1..Len(log)
      BY <1>1
    <3> QED
      BY <1>3, <2>2, <3>1 DEF Items
  <2> QED
    BY <1>4, <2>1, <2>2 DEF Later
<1>5. Items(todo) \subseteq Items(log)
  <2>1. ASSUME NEW k \in 1..Len(todo) PROVE todo[k] \in Items(log)
    <3>1. adv - Len(todo) + k \in 1..Len(log) /\ todo[k] = log[adv - Len(todo) + k]
      BY <1>1 DEF Chase, Reading
    <3> QED
      BY <3>1 DEF Items
  <2> QED
    BY <2>1 DEF Items
<1>6. \A x \in Device : x \in lost' \cup Excepted \cup moved' => Anchored(x)'
  BY DEF Anchored, Excepted
<1>7. \A x \in Device : Later(x, "up")' => Anchored(x)'
  BY DEF Anchored, Recovering
<1>8. \A x \in Device : status[x] = "down" /\ Later(x, "down")' => Anchored(x)'
  BY DEF Anchored, Known, Reporting
<1>9. \A x \in Device : Anchored(x)' => Reached(x)'
  BY DEF Reached
<1>10. ASSUME NEW x \in Device, status[x] = "down", x \in DownIn(batch)
       PROVE  Reached(x)'
  <2>1. PICK o \in Items(batch) : o.kind = "down" /\ o.dev = x
    BY <1>10 DEF DownIn
  <2>2. o.from \in {"event", "upstream", "held"} /\ EventOrigin(o) /\ UpstreamOrigin(o)
    BY <2>1, BatchItems DEF Account, Origins, Occurrence
  <2>3. CASE o.from = "event"
    BY <1>3, <1>8, <1>9, <1>10, <2>1, <2>2, <2>3 DEF EventOrigin
  <2>4. CASE o.from = "upstream"
    <3>1. CASE owed[x] = "down"
      <4>1. Later(x, "down")
        BY <3>1 DEF Later
      <4> QED
        BY <1>4, <1>6, <1>8, <1>9, <1>10, <4>1
    <3>2. CASE Row(x, "down") \in Items(log)
      BY <1>3, <1>8, <1>9, <1>10, <3>2
    <3>3. CASE x \in lost \cup moved
      BY <1>6, <1>9, <3>3
    <3>4. CASE \E a \in above[x] : Row(a, "up") \in Items(log)
      <4>1. PICK a \in above[x] : Row(a, "up") \in Items(log)
        BY <3>4
      <4>2. Anchored(a)'
        BY <1>3, <1>7, <4>1, Chains
      <4> QED
        BY <4>1, <4>2 DEF Reached
    <3> QED
      BY <1>10, <2>1, <2>2, <2>4, <3>1, <3>2, <3>3, <3>4 DEF UpstreamOrigin
  <2>5. CASE o.from = "held"
    <3>1. pc \notin {"drain", "rules"}
      BY <2>5 DEF Account, Origins
    <3>2. x \in HeldInBatch
      BY <2>1, <2>5 DEF Items, HeldInBatch
    <3> QED
      BY <1>6, <1>9, <3>1, <3>2
  <2> QED
    BY <2>2, <2>3, <2>4, <2>5
<1>11. ASSUME NEW x \in Device, Anchored(x) PROVE Reached(x)'
  <2>1. CASE x \in Excepted \/ LeftOpen(x)
    <3>1. LeftOpen(x) => LeftOpen(x)'
      BY DEF LeftOpen, Ended
    <3> QED
      BY <1>6, <2>1, <3>1 DEF Reached, Anchored
  <2>2. CASE Recovering(x)
    BY <1>3, <1>4, <1>5, <1>6, <1>7, <1>9, <2>2 DEF Recovering
  <2>3. CASE Known(x)
    <3>1. CASE x \in outage \cup told \cup pending
      <4>1. Anchored(x)'
        BY <2>3, <3>1 DEF Anchored, Known, Reporting
      <4> QED
        BY <1>9, <4>1
    <3>2. CASE Later(x, "down") \/ Row(x, "down") \in Items(todo)
      BY <1>3, <1>4, <1>5, <1>6, <1>8, <1>9, <2>3, <3>2 DEF Known
    <3>3. CASE x \in DownIn(batch)
      BY <1>10, <2>3, <3>3 DEF Known
    <3> QED
      BY <2>3, <3>1, <3>2, <3>3 DEF Known, Reporting
  <2> QED
    BY <1>11, <2>1, <2>2, <2>3 DEF Anchored
<1>12. Kept
  BY <1>11 DEF Kept
<1>13. Accounted'
  BY <1>12, Carry DEF Account, Accounted
<1>14. Remembered'
  BY DEF Remembered, Fresh
<1>15. Origins'
  BY <1>2 DEF Origins
<1> QED
  BY <1>13, <1>14, <1>15 DEF Account

\* The flush moves past the rows that were applied, and no others.
LEMMA FlushAccount ==
    ASSUME TypeOK, Chase, Account, FlushCursors
    PROVE  Account'
<1>1. /\ UNCHANGED <<status, owed, lost, raced, moved, stranded, outage, told, above,
                     pending>>
      /\ pc = "apply" /\ pc' = "idle" /\ batch = <<>> /\ batch' = <<>>
      /\ todo = <<>> /\ todo' = <<>> /\ adv' = 0
      /\ cache' = Fresh /\ memo' = Fresh
      /\ log' = SubSeq(log, adv + 1, Len(log))
      /\ Len(log) \in Nat /\ adv \in Nat /\ adv <= Len(log)
  BY Lengths DEF FlushCursors, ForgetTick, nodesVars, alertVars, ghosts, Chase, Reading
<1>2. /\ Len(log') = Len(log) - adv
      /\ \A i \in 1..Len(log') : adv + i \in 1..Len(log) /\ log'[i] = log[adv + i]
  BY <1>1, LogRest
<1>3. /\ Items(todo) = {} /\ DownIn(batch) = {}
      /\ Items(todo)' = {} /\ DownIn(batch)' = {} /\ Items(batch)' = {}
  BY <1>1, NoDowns DEF Items, DownIn
<1>4. ASSUME NEW x \in Device, NEW k, Later(x, k) PROVE Later(x, k)'
  <2>1. CASE owed[x] = k
    BY <1>1, <2>1 DEF Later
  <2>2. CASE \E i \in (adv + 1)..Len(log) : log[i] = Row(x, k)
    <3>1. PICK i \in (adv + 1)..Len(log) : log[i] = Row(x, k)
      BY <2>2
    <3>2. i - adv \in (0 + 1)..Len(log') /\ adv + (i - adv) = i /\ i - adv \in 1..Len(log')
      BY <1>1, <1>2
    <3>3. log'[i - adv] = Row(x, k)
      BY <1>2, <3>1, <3>2
    <3> QED
      BY <1>1, <3>2, <3>3 DEF Later
  <2> QED
    BY <1>4, <2>1, <2>2 DEF Later
<1>5. ASSUME NEW x \in Device, Anchored(x) PROVE Anchored(x)'
  BY <1>1, <1>3, <1>4, <1>5
     DEF Anchored, Known, Recovering, Reporting, LeftOpen, Ended, Excepted
<1>6. Kept
  BY <1>5 DEF Kept, Reached
<1>7. Accounted'
  BY <1>1, <1>6, Carry DEF Account, Accounted
<1>8. Remembered'
  BY <1>1 DEF Remembered, Fresh
<1>9. Origins'
  BY <1>3 DEF Origins
<1> QED
  BY <1>7, <1>8, <1>9 DEF Account

\* Every step keeps the account.
LEMMA AccountStep ==
    ASSUME TypeOK, Absorbing, Opener, Chase, Account, [Next]_vars
    PROVE  Account'
<1>1. CASE DrainRaises
  <2>1. cache = Fresh /\ memo = Fresh
    BY <1>1 DEF Account, Remembered, DrainRaises
  <2> QED
    BY <1>1, <2>1, ResetAccount DEF DrainRaises, nodesVars, alertVars, memoVars, ghosts
<1>2. CASE RulesRaise
  BY <1>2, ResetAccount DEF RulesRaise, ForgetTick, nodesVars, alertVars, ghosts
<1>3. CASE MutesRaise
  BY <1>3, ResetAccount DEF MutesRaise, ForgetTick, nodesVars, alertVars
<1>4. CASE Crash
  <2>1. /\ ForgetTick
        /\ UNCHANGED <<status, log, above, outage, told, raced, moved, stranded, pending>>
        /\ owed' = [d \in Device |-> "none"]
        /\ lost' = lost \cup {d \in Device : owed[d] # "none"} \cup HeldInBatch
    BY <1>4 DEF Crash, alertVars
  <2> QED
    BY <2>1, ResetAccount DEF ForgetTick
<1>5. CASE ApplyStep
  BY <1>5, ApplyAccount
<1> QED
  BY <1>1, <1>2, <1>3, <1>4, <1>5, StatusAccount, EventAccount, CalmAccount,
     RewireAccount, ReadAccount, DownAccount, OtherAccount, UpAccount, FlushAccount
     DEF Next, Tick, Fault, Poller, ApplyStep

\* At first no device is down.
LEMMA AccountInit == Init => Account
<1> SUFFICES ASSUME Init PROVE Account
  OBVIOUS
<1>1. /\ status = [d \in Device |-> "up"] /\ cache = Fresh /\ memo = Fresh
      /\ Items(batch) = {}
  BY NoDowns DEF Init
<1> QED
  BY <1>1 DEF Account, Accounted, Remembered, Origins, Fresh

\* Suppression never swallows an outage, for any forest of devices: whatever is
\* resolved, rolled up, held, moved or drained again, and in whatever order, a
\* device that is down when the engine has caught up is visible, or is behind
\* one whose transition was dropped or whose row nothing clears (_replay_downstream_outages,
\* _absorb_downstream, _parent_covers, _upstream_outage, _drain_pending).
THEOREM OutageAccountedHolds == Spec => []OutageAccounted
<1>1. TypeOK /\ Absorbing /\ Opener /\ Chase /\ Account /\ [Next]_vars => Account'
  BY AccountStep
<1>2. TypeOK /\ Absorbing /\ Chase /\ [Next]_vars => Chase'
  BY ChaseStep
<1>3. TypeOK /\ Chase /\ Account => OutageAccounted
  <2> SUFFICES ASSUME TypeOK, Chase, Account, Settled, NEW d \in Device, status[d] = "down"
               PROVE  Visible(d) \/ Dropped(d) \/ Shadowed(d)
    BY DEF OutageAccounted
  <2>1. /\ todo = <<>> /\ batch = <<>> /\ adv = 0 /\ Len(log) = 0 /\ pending = {}
        /\ Items(todo) = {} /\ DownIn(batch) = {}
    BY NoDowns DEF Chase, Reading, Settled
  <2>2. \A a \in Device : ~Later(a, "up") /\ ~Later(a, "down")
    BY <2>1 DEF Later, Settled
  <2>3. PICK a \in {d} \cup above[d] : Anchored(a)
    BY DEF Account, Accounted, Reached
  <2>4. a \in Device
    BY Chains
  <2>5. \/ status[a] = "down" /\ a \in outage \cup told
        \/ a \in Excepted \/ LeftOpen(a)
    BY <2>1, <2>2, <2>3, <2>4 DEF Anchored, Known, Recovering, Reporting
  <2> QED
    BY <2>3, <2>5 DEF Visible, Dropped, Shadowed, LeftOpen, Ended, Excepted
<1> QED
  BY <1>1, <1>2, <1>3, ChaseInit, AccountInit, TypeCorrect, AbsorbingHolds, OpenerHolds,
     PTL DEF Spec

-----------------------------------------------------------------------------
(* The exceptions are paid for.                                            *)

\* A disturbance of this kind has happened.
Happened(k) == budget[k] # Budget[k]

\* Nothing gives a disturbance back, and each exception takes one: a transition
\* is lost to a mute or a failure, a row torn by a failure, a device moved by an
\* operator.
Paid ==
    /\ \A k \in Disturbance : budget[k] <= Budget[k]
    /\ muted \cup quiet # {} => Happened("mute")
    /\ lost # {} => Happened("mute") \/ Happened("fault") \/ Happened("crash")
    /\ torn # {} => Happened("fault") \/ Happened("crash")
    /\ moved # {} => Happened("rewire")

\* What has happened has happened.
LEMMA SpendPays ==
    ASSUME TypeOK, \A k \in Disturbance : budget[k] <= Budget[k],
           (\E j \in Disturbance : Spend(j)) \/ UNCHANGED budget
    PROVE  /\ \A k \in Disturbance : budget'[k] <= Budget[k]
           /\ \A k \in Disturbance : Happened(k) => Happened(k)'
           /\ \A k \in Disturbance : Spend(k) => Happened(k)'
<1>1. ASSUME NEW j \in Disturbance, Spend(j)
      PROVE  /\ budget'[j] = budget[j] - 1 /\ budget[j] \in Nat /\ Budget[j] \in Nat
             /\ \A k \in Disturbance : k # j => budget'[k] = budget[k]
  BY <1>1, BoundAssumption DEF Spend, TypeOK
<1>2. ASSUME NEW j \in Disturbance, Spend(j)
      PROVE  budget'[j] <= Budget[j] /\ budget'[j] # Budget[j]
  BY <1>1, <1>2
<1>3. \A k \in Disturbance : budget'[k] <= Budget[k]
  BY <1>1, <1>2
<1>4. \A k \in Disturbance : Spend(k) => Happened(k)'
  BY <1>2 DEF Happened
<1>5. \A k \in Disturbance : Happened(k) => Happened(k)'
  BY <1>1, <1>2 DEF Happened
<1> QED
  BY <1>3, <1>4, <1>5

\* Every step pays for its exceptions.
LEMMA PaidHolds == Spec => []Paid
<1>1. Init => Paid
  BY BoundAssumption DEF Init, Paid
<1>2. TypeOK /\ Paid /\ [Next]_vars => Paid'
  <2> SUFFICES ASSUME TypeOK, Paid, [Next]_vars PROVE Paid'
    OBVIOUS
  <2> USE DEF Next, Tick, Fault, Poller, Operator, PollStatus, PollEvent, PollSample,
              LeaveGrace, ResolveByHand, ResolveWindowEnds, Mute, Unmute, Rewire,
              TickStart, ReadEvents, DrainUp, DrainDown, DrainOther, DrainDone,
              EvaluateThresholds, DrainPending, ReadMutes, Hold, Silence, RollUpDown,
              OpenDown, AbsorbChildren, AbsorbDownstream, AbsorbDone, RollUpLoss,
              SuppressLoss, OwnCoverOrOpen, FlushCursors, ForgetTick, DrainRaises,
              RulesRaise, MutesRaise, ApplyRaises, Crash, StillTorn, vars, alertVars,
              tickVars, ghosts
  <2>1. (\E j \in Disturbance : Spend(j)) \/ UNCHANGED budget
    BY Disturbances
  <2>2. /\ \A k \in Disturbance : budget'[k] <= Budget[k]
        /\ \A k \in Disturbance : Happened(k) => Happened(k)'
        /\ \A k \in Disturbance : Spend(k) => Happened(k)'
    BY <2>1, SpendPays DEF Paid
  <2>3. muted' \subseteq muted \/ Spend("mute")
    OBVIOUS
  <2>4. quiet' \subseteq quiet \cup muted
    OBVIOUS
  <2>5. lost' \subseteq lost \/ quiet # {} \/ Spend("fault") \/ Spend("crash")
    OBVIOUS
  <2>6. torn' \subseteq torn \/ Spend("fault") \/ Spend("crash")
    OBVIOUS
  <2>7. moved' \subseteq moved \/ Spend("rewire")
    OBVIOUS
  <2> HIDE DEF Next
  <2> QED
    BY <2>2, <2>3, <2>4, <2>5, <2>6, <2>7, Disturbances DEF Paid
<1> QED
  BY <1>1, <1>2, TypeCorrect, PTL DEF Spec

\* An engine nothing interferes with: no mute, no move, no failure and no crash
\* so far. Transitions, samples and hand resolves come as they like.
Undisturbed == \A k \in {"mute", "rewire", "fault", "crash"} : budget[k] = Budget[k]

\* What the operators see is then the truth: every device that is down has its
\* row, resolved by hand or not, or is behind one; every row is of a device that
\* is down; and none has its loss alert beside it. What is left is the one race
\* of the code with itself, a "down" and its "up" read by the same tick, and the
\* devices that went from "down" to "unsupported", whose rows nothing clears and
\* behind which nothing is reported again.
SeesTheTruth ==
    Settled /\ Undisturbed =>
        /\ \A d \in Device : status[d] = "down" => Visible(d) \/ Shadowed(d)
        /\ \A d \in outage : status[d] = "down" \/ LeftOpen(d)
        /\ outage \cap loss = {}

\* Without interference the alert list is right, for any forest of devices and
\* any number of transitions, samples and hand resolves (_tick).
THEOREM UndisturbedSeesTheTruth == Spec => []SeesTheTruth
<1>1. TypeOK /\ Paid /\ OutageAccounted /\ RecoveryClearsUnlessRaced /\ OwnOutageSilencesLoss
         => SeesTheTruth
  <2> SUFFICES ASSUME TypeOK, Paid, OutageAccounted, RecoveryClearsUnlessRaced,
                      OwnOutageSilencesLoss, Settled, Undisturbed
               PROVE  /\ \A d \in Device : status[d] = "down" => Visible(d) \/ Shadowed(d)
                      /\ \A d \in outage : status[d] = "down" \/ LeftOpen(d)
                      /\ outage \cap loss = {}
    BY DEF SeesTheTruth
  <2>1. lost = {} /\ torn = {} /\ moved = {}
    BY DEF Paid, Undisturbed, Happened
  <2>2. \A d \in Device : status[d] = "down" => Visible(d) \/ Shadowed(d)
    BY <2>1 DEF OutageAccounted, Dropped
  <2>3. \A d \in outage : status[d] = "down" \/ LeftOpen(d)
    BY <2>1 DEF RecoveryClearsUnlessRaced, LeftOpen, Ended, TypeOK
  <2>4. outage \cap loss = {}
    BY <2>1 DEF OwnOutageSilencesLoss, Settled
  <2> QED
    BY <2>2, <2>3, <2>4
<1> QED
  BY <1>1, TypeCorrect, PaidHolds, OutageAccountedHolds, RecoveryClears,
     OwnOutageSilencesLossHolds, PTL
=============================================================================
