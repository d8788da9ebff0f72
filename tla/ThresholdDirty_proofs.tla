------------------------ MODULE ThresholdDirty_proofs ------------------------
(***************************************************************************)
(* Theorems about ThresholdDirty, for any finite set of devices, limits,   *)
(* values and for_polls, and any number of edits, resolves, roll-ups,      *)
(* gates, faults and crashes: the types, that change-driven evaluation     *)
(* misses nothing, and that a resolved run stays closed.                   *)
(*                                                                         *)
(* NothingMissed speaks of a settled engine, so its invariant (Watch) says *)
(* of every device that nobody has marked what is known of it at each      *)
(* position of the tick: judged on its latest sample under the limit, as   *)
(* far as the rule the tick works with is the stored one (Order).          *)
(***************************************************************************)
EXTENDS ThresholdDirty, TLAPS

\* A metric row.
Sample == [val : Int, ts : Nat]

\* The types of what holds numbers, samples, streaks and positions.
Numbers ==
    /\ clock \in Nat /\ sample \in [Device -> Sample]
    /\ limit \in Limits /\ generation \in Nat /\ seen \in Int
    /\ resolvedAt \in [Device -> Nat] /\ snap \in [Device -> Nat]
    /\ streaks \in [Device -> StreakEntry] /\ before \in [Device -> StreakEntry]
    /\ metrics \in [Device -> Sample]
    /\ pc \in {"idle", "rules", "work", "metrics", "scan", "rulesAgain", "apply"}
    /\ rule \in Int /\ gen \in Nat
    /\ budget \in [Disturbance -> Nat]

\* The entry a device gets, field by field: a changed limit starts it afresh.
LEMMA EntryOf ==
  ASSUME NEW d \in Device, streaks[d] \in StreakEntry, metrics[d] \in Sample, rule \in Int
  PROVE  /\ Entry(d) \in StreakEntry
         /\ Entry(d).ts = metrics[d].ts /\ Entry(d).limit = rule
         /\ Entry(d).n =
              IF ~Over(metrics[d].val) THEN 0
              ELSE LET n == IF streaks[d].limit = rule THEN streaks[d].n ELSE 0
                       ts == IF streaks[d].limit = rule THEN streaks[d].ts ELSE 0
                   IN IF metrics[d].ts # ts THEN n + 1 ELSE n
         /\ Entry(d).first =
              IF Clears(metrics[d].val) THEN 0
              ELSE LET first == IF streaks[d].limit = rule THEN streaks[d].first ELSE 0
                       ts == IF streaks[d].limit = rule THEN streaks[d].ts ELSE 0
                   IN IF Over(metrics[d].val) /\ metrics[d].ts # ts /\ first = 0
                      THEN metrics[d].ts ELSE first
  BY DEF Entry, StreakEntry, Sample, NoEntry, Over, Clears

\* Every step keeps Numbers.
LEMMA NumbersHold == Spec => []Numbers
<1>1. Init => Numbers
  <2> SUFFICES ASSUME Init PROVE Numbers
    OBVIOUS
  <2>1. /\ sample \in [Device -> Sample] /\ metrics \in [Device -> Sample]
    BY DEF Init, NoSample, Sample
  <2>2. streaks \in [Device -> StreakEntry] /\ before \in [Device -> StreakEntry]
    BY DEF Init, NoEntry, StreakEntry
  <2>3. resolvedAt \in [Device -> Nat] /\ snap \in [Device -> Nat]
    BY DEF Init
  <2>4. budget \in [Disturbance -> Nat]
    BY BoundAssumption DEF Init
  <2> QED
    BY <2>1, <2>2, <2>3, <2>4 DEF Init, Numbers
<1>2. Numbers /\ [Next]_vars => Numbers'
  <2> SUFFICES ASSUME Numbers, [Next]_vars
               PROVE  Numbers'
    OBVIOUS
  <2> USE ValueAssumption
      DEF Numbers, nodesVars, alertVars, keptVars, tickVars, ghosts
  <2>0. /\ [d \in Device |-> 0] \in [Device -> Nat]
        /\ [d \in Device |-> NoSample] \in [Device -> Sample]
        /\ [d \in Device |-> NoEntry] \in [Device -> StreakEntry]
    BY DEF NoSample, NoEntry, Sample, StreakEntry
  <2>21. ASSUME NEW k \in Disturbance, Spend(k) PROVE budget' \in [Disturbance -> Nat]
    BY <2>21 DEF Spend
  <2>22. ASSUME NEW d \in Device, TurnAway(d) PROVE Numbers'
    BY <2>22 DEF TurnAway
  <2>23. ASSUME NEW d \in Device, ResolveWindowEnds(d) PROVE Numbers'
    BY <2>23, <2>21 DEF ResolveWindowEnds, Disturbance
  <2>24. ASSUME NEW d \in Device, Gate(d) PROVE Numbers'
    BY <2>24, <2>21 DEF Gate, Disturbance
  <2>1. CASE TickStart
    BY <2>1 DEF TickStart
  <2>2. CASE ReadRules
    BY <2>2 DEF ReadRules
  <2>3. CASE TakeWork
    BY <2>3 DEF TakeWork
  <2>4. CASE ReadMetrics
    BY <2>4 DEF ReadMetrics
  <2>5. CASE ScanDone
    BY <2>5 DEF ScanDone
  <2>6. CASE RulesAgain
    BY <2>6 DEF RulesAgain
  <2>7. CASE TickEnd
    BY <2>7, <2>0 DEF TickEnd, ForgetTick
  <2>8. ASSUME NEW d \in Device, ScanDevice(d) PROVE Numbers'
    <3>1. Entry(d) \in StreakEntry
      BY EntryOf
    <3> QED
      BY <2>8, <3>1 DEF ScanDevice
  <2>9. ASSUME NEW d \in Device, Apply(d) PROVE Numbers'
    BY <2>9 DEF Apply
  <2>10. CASE ScanRaises
    BY <2>10, <2>21 DEF ScanRaises, Disturbance
  <2>11. CASE TickAborts
    BY <2>11, <2>21, <2>0 DEF TickAborts, ForgetTick, Disturbance
  <2>12. CASE Crash
    BY <2>12, <2>21, <2>0 DEF Crash, ForgetTick, Disturbance
  <2>13. ASSUME NEW d \in Device, ApplyRaises(d) PROVE Numbers'
    BY <2>13, <2>21 DEF ApplyRaises, Disturbance
  <2>14. CASE EditRule
    BY <2>14, <2>21 DEF EditRule, Disturbance
  <2>15. CASE MinutePasses
    BY <2>15 DEF MinutePasses
  <2>16. ASSUME NEW d \in Device, WriteSample(d) PROVE Numbers'
    <3>1. PICK v \in Values : sample' = [sample EXCEPT ![d] = [val |-> v, ts |-> clock + 1]]
      BY <2>16 DEF WriteSample
    <3>2. [val |-> v, ts |-> clock + 1] \in Sample
      BY DEF Sample
    <3> QED
      BY <2>16, <3>1, <3>2 DEF WriteSample
  <2>17. ASSUME NEW d \in Device, MarkDirty(d) PROVE Numbers'
    BY <2>17 DEF MarkDirty
  <2>18. ASSUME NEW d \in Device, ResolveByHand(d) PROVE Numbers'
    BY <2>18, <2>21 DEF ResolveByHand, Disturbance
  <2>19. ASSUME NEW d \in Device, Absorb(d) PROVE Numbers'
    BY <2>19, <2>21 DEF Absorb, Disturbance
  <2>20. CASE UNCHANGED vars
    BY <2>20 DEF vars
  <2> QED
    BY <2>1, <2>2, <2>3, <2>4, <2>5, <2>6, <2>7, <2>8, <2>9, <2>10, <2>11,
       <2>12, <2>13, <2>14, <2>15, <2>16, <2>17, <2>18, <2>19, <2>20,
       <2>22, <2>23, <2>24
    DEF Next, Tick, Fault, Poller, Others
<1> QED
  BY <1>1, <1>2, PTL DEF Spec

\* The sets of devices, and the keys read of them.
Sets ==
    /\ openKeys \subseteq Device \/ openKeys = Unread
    /\ marking \subseteq Device /\ dirtyNodes \subseteq Device /\ open \subseteq Device
    /\ dirtyAlerts \subseteq Device /\ carry \subseteq Device /\ dirty \subseteq Device
    /\ todo \subseteq Device /\ found \subseteq Device /\ run \subseteq Device
    /\ late \subseteq Device /\ skipped \subseteq Device
    /\ aged \subseteq Device /\ gated \subseteq Device

\* The switches.
Flags == full \in BOOLEAN /\ timerDue \in BOOLEAN /\ crossed \in BOOLEAN

\* Every step keeps Sets.
LEMMA SetsHold == Spec => []Sets
<1>1. Init => Sets
  BY DEF Init, Sets
<1>2. Sets /\ [Next]_vars => Sets'
  <2> SUFFICES ASSUME Sets, [Next]_vars
               PROVE  Sets'
    OBVIOUS
  <2> USE DEF Sets, nodesVars, alertVars, keptVars, tickVars, ghosts
  <2>1. CASE TickStart \/ ReadRules \/ TakeWork \/ ReadMetrics \/ ScanDone \/ RulesAgain
    BY <2>1 DEF TickStart, ReadRules, TakeWork, ReadMetrics, ScanDone, RulesAgain
  <2>2. CASE TickEnd \/ TickAborts \/ Crash
    BY <2>2 DEF TickEnd, TickAborts, Crash, ForgetTick
  <2>3. ASSUME NEW d \in Device, ScanDevice(d) PROVE Sets'
    BY <2>3 DEF ScanDevice, JudgeBreach, JudgeClear, JudgeNeither, KeysNow
  <2>4. ASSUME NEW d \in Device, Apply(d) \/ TurnAway(d) \/ ApplyRaises(d) PROVE Sets'
    BY <2>4 DEF Apply, TurnAway, ApplyRaises
  <2>5. CASE ScanRaises
    BY <2>5 DEF ScanRaises, CarryOver
  <2>6. CASE EditRule \/ MinutePasses
    BY <2>6 DEF EditRule, MinutePasses
  <2>7. ASSUME NEW d \in Device, Poller(d) \/ Others(d) PROVE Sets'
    BY <2>7 DEF Poller, Others, WriteSample, MarkDirty, ResolveByHand, Absorb,
         ResolveWindowEnds, Gate
  <2>8. CASE UNCHANGED vars
    BY <2>8 DEF vars
  <2> QED
    BY <2>1, <2>2, <2>3, <2>4, <2>5, <2>6, <2>7, <2>8 DEF Next, Tick, Fault
<1> QED
  BY <1>1, <1>2, PTL DEF Spec

\* Every step keeps Flags.
LEMMA FlagsHold == Spec => []Flags
<1>1. Init => Flags
  BY DEF Init, Flags
<1>2. Flags /\ [Next]_vars => Flags'
  <2> SUFFICES ASSUME Flags, [Next]_vars
               PROVE  Flags'
    OBVIOUS
  <2> USE DEF Flags, nodesVars, alertVars, keptVars, tickVars, ghosts
  <2>1. CASE TickStart \/ ReadRules \/ ReadMetrics \/ RulesAgain
    BY <2>1 DEF TickStart, ReadRules, ReadMetrics, RulesAgain
  <2>2. CASE TakeWork
    BY <2>2 DEF TakeWork, FullPassDue
  <2>3. CASE ScanDone
    BY <2>3 DEF ScanDone
  <2>4. CASE TickEnd \/ TickAborts \/ Crash
    BY <2>4 DEF TickEnd, TickAborts, Crash, ForgetTick
  <2>5. ASSUME NEW d \in Device, ScanDevice(d) \/ Apply(d) \/ TurnAway(d) \/ ApplyRaises(d)
        PROVE  Flags'
    BY <2>5 DEF ScanDevice, Apply, TurnAway, ApplyRaises
  <2>6. CASE ScanRaises \/ EditRule \/ MinutePasses
    BY <2>6 DEF ScanRaises, EditRule, MinutePasses
  <2>7. ASSUME NEW d \in Device, Poller(d) \/ Others(d) PROVE Flags'
    BY <2>7 DEF Poller, Others, WriteSample, MarkDirty, ResolveByHand, Absorb,
         ResolveWindowEnds, Gate
  <2>8. CASE UNCHANGED vars
    BY <2>8 DEF vars
  <2> QED
    BY <2>1, <2>2, <2>3, <2>4, <2>5, <2>6, <2>7, <2>8 DEF Next, Tick, Fault
<1> QED
  BY <1>1, <1>2, PTL DEF Spec

\* No streak, no copy of a sample and no resolve is later than what it was
\* taken from.
Past(e, at) == e.n <= e.ts /\ e.first <= e.ts /\ e.ts <= at

Times ==
    \A d \in Device :
        /\ sample[d].ts <= clock /\ resolvedAt[d] <= clock /\ snap[d] <= resolvedAt[d]
        /\ Past(streaks[d], sample[d].ts) /\ Past(before[d], sample[d].ts)
        /\ pc = "scan" => streaks[d].ts <= metrics[d].ts
        /\ metrics[d].ts <= sample[d].ts

\* The streak counts samples: it grows only with a later one.
LEMMA EntryIsPast ==
  ASSUME NEW d \in Device, streaks[d] \in StreakEntry, metrics[d] \in Sample, rule \in Int,
         streaks[d].n <= streaks[d].ts, streaks[d].first <= streaks[d].ts,
         streaks[d].ts <= metrics[d].ts
  PROVE  Entry(d).n <= metrics[d].ts /\ Entry(d).first <= metrics[d].ts
<1> DEFINE n == IF streaks[d].limit = rule THEN streaks[d].n ELSE 0
           ts == IF streaks[d].limit = rule THEN streaks[d].ts ELSE 0
           first == IF streaks[d].limit = rule THEN streaks[d].first ELSE 0
<1>1. /\ streaks[d].ts \in Nat /\ streaks[d].n \in Nat /\ streaks[d].first \in Nat
      /\ metrics[d].ts \in Nat
  BY DEF StreakEntry, Sample
<1>2. n \in Nat /\ ts \in Nat /\ first \in Nat /\ n <= ts /\ first <= ts /\ ts <= metrics[d].ts
  BY <1>1
<1>3. Entry(d).n \in {0, n} \/ (metrics[d].ts # ts /\ Entry(d).n = n + 1)
  BY EntryOf
<1>4. Entry(d).first \in {0, first, metrics[d].ts}
  BY EntryOf
<1> QED
  BY <1>1, <1>2, <1>3, <1>4

\* Time goes on, and what was taken earlier stays earlier.
LEMMA TimesHold == Spec => []Times
<1>1. Init => Times
  <2> SUFFICES ASSUME Init, NEW d \in Device PROVE
        /\ sample[d].ts <= clock /\ resolvedAt[d] <= clock /\ snap[d] <= resolvedAt[d]
        /\ Past(streaks[d], sample[d].ts) /\ Past(before[d], sample[d].ts)
        /\ pc = "scan" => streaks[d].ts <= metrics[d].ts
        /\ metrics[d].ts <= sample[d].ts
    BY DEF Times
  <2>1. /\ clock = 0 /\ sample[d].ts = 0 /\ resolvedAt[d] = 0 /\ snap[d] = 0
        /\ streaks[d] = NoEntry /\ before[d] = NoEntry /\ metrics[d].ts = 0 /\ pc = "idle"
    BY DEF Init, NoSample
  <2> QED
    BY <2>1 DEF Past, NoEntry
<1>2. Numbers /\ Numbers' /\ Times /\ [Next]_vars => Times'
  <2> SUFFICES ASSUME Numbers, Numbers', Times, [Next]_vars
               PROVE  Times'
    OBVIOUS
  <2> USE DEF Times, Past, Numbers, Sample, StreakEntry, nodesVars, alertVars,
              keptVars, tickVars, ghosts
  <2>1. CASE ReadRules \/ TakeWork \/ ReadMetrics \/ ScanDone \/ RulesAgain
    BY <2>1 DEF ReadRules, TakeWork, ReadMetrics, ScanDone, RulesAgain
  <2>12. CASE TickStart
    <3>1. /\ \A d \in Device : snap'[d] \in {0, resolvedAt[d]}
          /\ UNCHANGED <<clock, sample, resolvedAt, streaks, before, metrics>>
          /\ pc' = "rules"
      BY <2>12 DEF TickStart
    <3>2. \A d \in Device : resolvedAt[d] \in Nat
      OBVIOUS
    <3> QED
      BY <3>1, <3>2
  <2>2. CASE TickEnd \/ TickAborts
    BY <2>2 DEF TickEnd, TickAborts, ForgetTick, NoSample, NoEntry
  <2>3. CASE Crash
    BY <2>3 DEF Crash, ForgetTick, NoSample, NoEntry
  <2>4. ASSUME NEW d \in Device, ScanDevice(d) PROVE Times'
    <3>1. /\ streaks[d].ts <= metrics[d].ts /\ streaks[d].n <= streaks[d].ts
          /\ streaks[d].first <= streaks[d].ts
      BY <2>4 DEF ScanDevice
    <3>2. /\ streaks[d] \in StreakEntry /\ metrics[d] \in Sample /\ rule \in Int
      OBVIOUS
    <3>3. Entry(d).ts = metrics[d].ts
      BY <3>2, EntryOf
    <3>4. Entry(d).n <= metrics[d].ts /\ Entry(d).first <= metrics[d].ts
      BY <3>1, <3>2, EntryIsPast
    <3>5. streaks' = [streaks EXCEPT ![d] = Entry(d)]
      BY <2>4 DEF ScanDevice
    <3> QED
      BY <2>4, <3>3, <3>4, <3>5 DEF ScanDevice
  <2>5. ASSUME NEW d \in Device, Apply(d) \/ TurnAway(d) \/ ApplyRaises(d) PROVE Times'
    BY <2>5 DEF Apply, TurnAway, ApplyRaises
  <2>6. CASE ScanRaises
    BY <2>6 DEF ScanRaises
  <2>7. CASE EditRule \/ MinutePasses
    BY <2>7 DEF EditRule, MinutePasses
  <2>8. ASSUME NEW d \in Device, WriteSample(d) PROVE Times'
    <3>1. sample'[d].ts = clock + 1 /\ \A e \in Device \ {d} : sample'[e] = sample[e]
      BY <2>8 DEF WriteSample
    <3> QED
      BY <2>8, <3>1 DEF WriteSample
  <2>9. ASSUME NEW d \in Device, MarkDirty(d) \/ Absorb(d) \/ ResolveWindowEnds(d) \/ Gate(d)
        PROVE  Times'
    BY <2>9 DEF MarkDirty, Absorb, ResolveWindowEnds, Gate
  <2>10. ASSUME NEW d \in Device, ResolveByHand(d) PROVE Times'
    BY <2>10 DEF ResolveByHand
  <2>11. CASE UNCHANGED vars
    BY <2>11 DEF vars
  <2> QED
    BY <2>1, <2>2, <2>3, <2>4, <2>5, <2>6, <2>7, <2>8, <2>9, <2>10, <2>11, <2>12
    DEF Next, Tick, Fault, Poller, Others
<1> QED
  BY <1>1, <1>2, NumbersHold, PTL DEF Spec

\* Type correctness, with a streak that never counts more samples than there
\* were (_scan_thresholds).
THEOREM TypeCorrect == Spec => []TypeOK
<1>1. Numbers /\ Sets /\ Flags /\ Times => TypeOK
  <2> SUFFICES ASSUME Numbers, Sets, Flags, Times PROVE TypeOK
    OBVIOUS
  <2>1. \A d \in Device : streaks[d].n <= streaks[d].ts /\ streaks[d].ts <= clock
    BY DEF Times, Past, Numbers, Sample, StreakEntry
  <2> QED
    BY <2>1 DEF Numbers, Sets, Flags, Sample, TypeOK
<1> QED
  BY <1>1, NumbersHold, SetsHold, FlagsHold, TimesHold, PTL

\* What the engine still knows of a run an operator resolved by hand.
Runs ==
    /\ pc \in {"idle", "rules", "work", "metrics"} => found = {}
    /\ \A d \in run :
         /\ d \notin aged
         /\ streaks[d].first # 0 /\ streaks[d].first <= resolvedAt[d]
         /\ pc = "scan" => before[d].first <= resolvedAt[d]
         /\ pc # "idle" /\ d \notin late => snap[d] = resolvedAt[d]
         /\ d \in found => d \in late

\* Runs holds: a resolve is at or after the first breach of the run, and the
\* tick that could still overtake it is the one it came in.
LEMMA RunsHold == Spec => []Runs
<1>1. Init => Runs
  BY DEF Init, Runs
<1>2. Numbers /\ Sets /\ Times /\ Runs /\ [Next]_vars => Runs'
  <2> SUFFICES ASSUME Numbers, Sets, Times, Runs, [Next]_vars
               PROVE  Runs'
    OBVIOUS
  <2> USE DEF Runs, Sets, nodesVars, alertVars, keptVars, tickVars, ghosts
  <2>1. CASE TickStart \/ ReadRules \/ TakeWork \/ ReadMetrics \/ ScanDone \/ RulesAgain
    BY <2>1 DEF TickStart, ReadRules, TakeWork, ReadMetrics, ScanDone, RulesAgain
  <2>2. CASE TickEnd \/ TickAborts \/ Crash
    BY <2>2 DEF TickEnd, TickAborts, Crash, ForgetTick
  <2>3. ASSUME NEW d \in Device, ScanDevice(d) PROVE Runs'
    <3>1. /\ \A e \in Device \ {d} : streaks'[e] = streaks[e]
          /\ streaks'[d] = Entry(d)
          /\ run' \subseteq run /\ late' = late \cap run' /\ pc = "scan" /\ pc' = "scan"
          /\ d \in run' => ~Clears(metrics[d].val) /\ streaks[d].limit = rule
          /\ UNCHANGED <<resolvedAt, aged, before, snap>>
      BY <2>3 DEF ScanDevice, Numbers
    <3>2. d \in run' => Entry(d).first = streaks[d].first
      BY <3>1, EntryOf DEF Numbers, StreakEntry, Sample
    <3>3. found' = found \/ (found' = found \cup {d} /\ ~OperatorResolved(d))
      BY <2>3 DEF ScanDevice, JudgeBreach, JudgeClear, JudgeNeither
    <3>4. d \in run' /\ d \notin late => OperatorResolved(d)
      <4> SUFFICES ASSUME d \in run', d \notin late PROVE OperatorResolved(d)
        OBVIOUS
      <4>1. /\ streaks[d].first # 0 /\ streaks[d].first <= resolvedAt[d]
            /\ snap[d] = resolvedAt[d]
        BY <3>1
      <4>2. streaks[d].first \in Nat /\ snap[d] \in Nat
        BY DEF Numbers, StreakEntry
      <4> QED
        BY <3>2, <4>1, <4>2 DEF OperatorResolved
    <3> QED
      BY <3>1, <3>2, <3>3, <3>4
  <2>4. ASSUME NEW d \in Device, Apply(d) \/ TurnAway(d) \/ ApplyRaises(d) PROVE Runs'
    BY <2>4 DEF Apply, TurnAway, ApplyRaises
  <2>5. CASE ScanRaises
    BY <2>5 DEF ScanRaises
  <2>6. CASE EditRule \/ MinutePasses
    BY <2>6 DEF EditRule, MinutePasses
  <2>7. ASSUME NEW d \in Device, Poller(d) \/ Absorb(d) \/ ResolveWindowEnds(d) \/ Gate(d)
        PROVE  Runs'
    BY <2>7 DEF Poller, WriteSample, MarkDirty, Absorb, ResolveWindowEnds, Gate
  <2>8. ASSUME NEW d \in Device, ResolveByHand(d) PROVE Runs'
    <3>1. /\ streaks[d].first <= clock /\ before[d].first <= clock
      BY DEF Times, Past, Numbers, StreakEntry, Sample
    <3>2. /\ resolvedAt'[d] = clock
          /\ \A e \in Device \ {d} : resolvedAt'[e] = resolvedAt[e]
      BY <2>8 DEF ResolveByHand, Numbers
    <3> QED
      BY <2>8, <3>1, <3>2 DEF ResolveByHand
  <2>9. CASE UNCHANGED vars
    BY <2>9 DEF vars
  <2> QED
    BY <2>1, <2>2, <2>3, <2>4, <2>5, <2>6, <2>7, <2>8, <2>9 DEF Next, Tick, Fault, Others
<1> QED
  BY <1>1, <1>2, NumbersHold, SetsHold, TimesHold, PTL DEF Spec

\* A step opens an alert only for a breach that was found in the tick.
LEMMA OnlyApplyOpens ==
  ASSUME [Next]_vars, NEW d \in open' \ open
  PROVE  pc = "apply" /\ d \in found /\ d \in Device
<1> USE DEF nodesVars, alertVars, keptVars, tickVars, ghosts
<1>1. ASSUME NEW e \in Device, ScanDevice(e) PROVE open' \subseteq open
  BY <1>1 DEF ScanDevice, JudgeBreach, JudgeClear, JudgeNeither
<1>2. ASSUME NEW e \in Device, Apply(e) PROVE open' = open \cup {e} /\ e \in found /\ pc = "apply"
  BY <1>2 DEF Apply
<1>3. CASE TickStart \/ ReadRules \/ TakeWork \/ ReadMetrics \/ ScanDone \/ RulesAgain
           \/ TickEnd \/ ScanRaises \/ TickAborts \/ Crash \/ EditRule \/ MinutePasses
  BY <1>3 DEF TickStart, ReadRules, TakeWork, ReadMetrics, ScanDone, RulesAgain, TickEnd,
     ScanRaises, TickAborts, Crash, EditRule, MinutePasses
<1>4. ASSUME NEW e \in Device, Poller(e) \/ Others(e) \/ TurnAway(e) \/ ApplyRaises(e)
      PROVE  open' \subseteq open
  BY <1>4 DEF Poller, Others, WriteSample, MarkDirty, ResolveByHand, Absorb,
     ResolveWindowEnds, Gate, TurnAway, ApplyRaises
<1>5. CASE UNCHANGED vars
  BY <1>5 DEF vars
<1> QED
  BY <1>1, <1>2, <1>3, <1>4, <1>5 DEF Next, Tick, Fault

\* An alert an operator resolved stays closed for the rest of its run, or as
\* long as the resolve is remembered, whatever passes, retries, roll-ups and edits
\* come in between (_operator_resolved, operator_resolved_since).
THEOREM ResolvedStaysClosed == Spec => ResolvedRunStaysClosed
<1>1. Runs /\ [Next]_vars => [\A d \in open' \ open : d \notin run \/ d \in late]_vars
  BY OnlyApplyOpens DEF Runs
<1> QED
  BY <1>1, RunsHold, PTL DEF Spec, ResolvedRunStaysClosed

\* How the two generations and the rule of the tick relate to the stored ones.
Order ==
    /\ seen <= generation
    /\ pc \in {"metrics", "scan", "rulesAgain", "apply"} => seen <= gen /\ gen <= generation
    /\ pc \in {"metrics", "scan"} /\ ~full => gen = seen
    /\ pc = "work" /\ ~crossed => rule = limit
    /\ pc \in {"metrics", "scan", "rulesAgain", "apply"} /\ ~crossed /\ gen = generation =>
         rule = limit

\* The tick reads the rule before the generation, so an edit between the two
\* reads is the only way to work with an old rule unnoticed.
LEMMA OrderHolds == Spec => []Order
<1>1. Init => Order
  BY DEF Init, Order
<1>2. Numbers /\ Flags /\ Order /\ [Next]_vars => Order'
  <2> SUFFICES ASSUME Numbers, Flags, Order, [Next]_vars
               PROVE  Order'
    OBVIOUS
  <2> USE DEF Numbers, Order, nodesVars, alertVars, keptVars, tickVars, ghosts
  <2>1. CASE TickStart \/ ReadRules \/ ReadMetrics \/ RulesAgain
    BY <2>1 DEF TickStart, ReadRules, ReadMetrics, RulesAgain
  <2>2. CASE TakeWork
    <3>1. ~full' => generation = seen
      BY <2>2 DEF TakeWork, FullPassDue
    <3> QED
      BY <2>2, <3>1 DEF TakeWork
  <2>3. CASE ScanDone
    <3>1. CASE full
      <4>1. /\ seen' = gen /\ pc = "scan" /\ pc' = "rulesAgain"
            /\ UNCHANGED <<generation, gen, rule, limit, full>>
        BY <2>3, <3>1 DEF ScanDone
      <4>2. ~crossed' => ~crossed \/ rule = limit
        BY <2>3, <3>1 DEF ScanDone
      <4> QED
        BY <4>1, <4>2
    <3>2. CASE ~full
      BY <2>3, <3>2 DEF ScanDone
    <3> QED
      BY <3>1, <3>2
  <2>4. CASE TickEnd \/ TickAborts \/ Crash
    BY <2>4 DEF TickEnd, TickAborts, Crash, ForgetTick
  <2>5. ASSUME NEW d \in Device, ScanDevice(d) \/ Apply(d) \/ TurnAway(d) \/ ApplyRaises(d)
        PROVE  Order'
    BY <2>5 DEF ScanDevice, Apply, TurnAway, ApplyRaises
  <2>6. CASE ScanRaises
    BY <2>6 DEF ScanRaises
  <2>7. CASE EditRule
    <3>1. /\ generation' = generation + 1
          /\ UNCHANGED <<pc, seen, gen, rule, full>>
      BY <2>7 DEF EditRule
    <3>2. (crossed => crossed') /\ (pc = "work" => crossed')
      BY <2>7 DEF EditRule
    <3>3. seen <= generation' /\ gen <= generation => gen # generation'
      BY <3>1
    <3> QED
      BY <3>1, <3>2, <3>3
  <2>8. CASE MinutePasses
    BY <2>8 DEF MinutePasses
  <2>9. ASSUME NEW d \in Device, Poller(d) \/ Others(d) PROVE Order'
    BY <2>9 DEF Poller, Others, WriteSample, MarkDirty, ResolveByHand, Absorb,
         ResolveWindowEnds, Gate
  <2>10. CASE UNCHANGED vars
    BY <2>10 DEF vars
  <2> QED
    BY <2>1, <2>2, <2>3, <2>4, <2>5, <2>6, <2>7, <2>8, <2>9, <2>10 DEF Next, Tick, Fault
<1> QED
  BY <1>1, <1>2, NumbersHold, FlagsHold, PTL DEF Spec

\* What a pass starts from.
Pass ==
    /\ pc \in {"idle", "rules", "work", "metrics"} => found = {} /\ openKeys = Unread
    /\ pc = "scan" => /\ \A d \in todo : streaks[d] = before[d]
                      /\ ~full => todo \subseteq dirty

\* A pass begins with nothing found and no keys read.
LEMMA PassHolds == Spec => []Pass
<1>1. Init => Pass
  BY DEF Init, Pass
<1>2. Numbers /\ Sets /\ Pass /\ [Next]_vars => Pass'
  <2> SUFFICES ASSUME Numbers, Sets, Pass, [Next]_vars
               PROVE  Pass'
    OBVIOUS
  <2> USE DEF Numbers, Pass, nodesVars, alertVars, keptVars, tickVars, ghosts
  <2>1. CASE TickStart \/ ReadRules \/ TakeWork \/ ReadMetrics \/ ScanDone \/ RulesAgain
    BY <2>1 DEF TickStart, ReadRules, TakeWork, ReadMetrics, ScanDone, RulesAgain
  <2>2. CASE TickEnd \/ TickAborts \/ Crash
    BY <2>2 DEF TickEnd, TickAborts, Crash, ForgetTick
  <2>3. ASSUME NEW d \in Device, ScanDevice(d) PROVE Pass'
    <3>1. /\ \A e \in Device \ {d} : streaks'[e] = streaks[e]
          /\ todo' = todo \ {d} /\ pc' = pc /\ pc = "scan"
          /\ UNCHANGED <<before, full, dirty>>
      BY <2>3 DEF ScanDevice
    <3> QED
      BY <3>1 DEF Sets
  <2>4. ASSUME NEW d \in Device, Apply(d) \/ TurnAway(d) \/ ApplyRaises(d) PROVE Pass'
    BY <2>4 DEF Apply, TurnAway, ApplyRaises
  <2>5. CASE ScanRaises
    BY <2>5 DEF ScanRaises
  <2>6. CASE EditRule \/ MinutePasses
    BY <2>6 DEF EditRule, MinutePasses
  <2>7. ASSUME NEW d \in Device, Poller(d) \/ Others(d) PROVE Pass'
    BY <2>7 DEF Poller, Others, WriteSample, MarkDirty, ResolveByHand, Absorb,
         ResolveWindowEnds, Gate
  <2>8. CASE UNCHANGED vars
    BY <2>8 DEF vars
  <2> QED
    BY <2>1, <2>2, <2>3, <2>4, <2>5, <2>6, <2>7, <2>8 DEF Next, Tick, Fault
<1> QED
  BY <1>1, <1>2, NumbersHold, SetsHold, PTL DEF Spec

\* Devices the next tick will judge again.
Marked == marking \cup dirtyNodes \cup dirtyAlerts \cup carry

\* No edit is waiting for a full pass.
Known == seen = generation /\ ~crossed

\* The device was judged on its latest sample, with this entry and this limit.
Judged(d, e, l) ==
    sample[d].ts # 0 =>
      /\ e.ts = sample[d].ts /\ e.limit = l
      /\ sample[d].val < l - 1 => d \notin open
      /\ sample[d].val >= l /\ e.n >= ForPolls =>
           d \in open \cup skipped \cup found \/ resolvedAt[d] >= e.first

\* What is known of a device nobody has marked. In a scan, a full pass works
\* out new entries and may still fall back on those it began with.
Watched(d) ==
    /\ pc = "scan" =>
         metrics[d] = sample[d] /\ (openKeys # Unread /\ d \in openKeys => d \in open)
    /\ d \in found => sample[d].val >= rule
    /\ Known /\ pc \in {"idle", "rules", "work", "rulesAgain", "apply"} =>
         Judged(d, streaks[d], limit)
    /\ Known /\ pc = "metrics" /\ d \notin dirty => Judged(d, streaks[d], limit)
    /\ Known /\ pc = "scan" /\ d \notin dirty => Judged(d, before[d], limit)
    /\ pc = "scan" /\ d \notin todo /\ full => Judged(d, streaks[d], rule)
    /\ pc = "scan" /\ d \notin todo /\ ~full /\ Known => Judged(d, streaks[d], limit)

\* Watched holds of every device that is not marked.
Watch == \A d \in Device \ Marked : Watched(d)

\* ScanDevice judges the device: what it leaves behind is true of its sample.
LEMMA ScanJudges ==
  ASSUME NEW d \in Device, Numbers, Sets, Times, Order, Pass, Watched(d), ScanDevice(d),
         d \notin Marked'
  PROVE  Watched(d)'
<1>1. /\ pc = "scan" /\ pc' = "scan" /\ d \in todo /\ d \notin todo'
      /\ streaks'[d] = Entry(d)
      /\ UNCHANGED <<sample, limit, generation, seen, crossed, rule, full, dirty, metrics,
                     before, resolvedAt, snap, marking, dirtyNodes, carry>>
  BY DEF ScanDevice, Numbers, nodesVars
<1>2. metrics[d] = sample[d]
  BY <1>1 DEF Watched
<1>3. /\ streaks[d] \in StreakEntry /\ metrics[d] \in Sample /\ rule \in Int /\ limit \in Int
      /\ metrics[d].val \in Int /\ ForPolls \in Nat
      /\ snap[d] \in Nat /\ resolvedAt[d] \in Nat /\ Entry(d).first \in Nat
      /\ snap[d] <= resolvedAt[d]
  BY EntryOf, ValueAssumption, BoundAssumption DEF Numbers, Times, Sample, StreakEntry
<1>4. JudgeBreach(d) \/ JudgeClear(d) \/ JudgeNeither(d)
  BY DEF ScanDevice
<1>5. d \in openKeys /\ openKeys # Unread => d \in open
  BY <1>1 DEF Watched
<1>6. d \in KeysNow => d \in open
  BY <1>5 DEF KeysNow
<1>7. Clears(metrics[d].val) => d \notin open'
  BY <1>3, <1>4 DEF JudgeBreach, JudgeClear, JudgeNeither, Breach, Over, Clears
<1>8. Breach(d) => d \in open' \cup found' \/ resolvedAt[d] >= Entry(d).first
  <2> SUFFICES ASSUME Breach(d) PROVE d \in open' \cup found' \/ resolvedAt[d] >= Entry(d).first
    OBVIOUS
  <2>1. JudgeBreach(d)
    BY <1>3, <1>4 DEF JudgeClear, JudgeNeither, Breach, Over, Clears
  <2>2. OperatorResolved(d) => resolvedAt[d] >= Entry(d).first
    BY <1>3 DEF OperatorResolved
  <2> QED
    BY <2>1, <2>2, <1>6 DEF JudgeBreach
<1>9. d \in found' => metrics[d].val >= rule
  <2>1. d \in found => metrics[d].val >= rule
    BY <1>2 DEF Watched
  <2> QED
    BY <2>1, <1>4 DEF JudgeBreach, JudgeClear, JudgeNeither, Breach, Over
<1>10. openKeys' # Unread /\ d \in openKeys' => d \in open'
  <2>1. CASE JudgeBreach(d)
    BY <2>1, <1>5, <1>6 DEF JudgeBreach
  <2>2. CASE JudgeClear(d)
    BY <2>2, <1>5 DEF JudgeClear, Marked
  <2>3. CASE JudgeNeither(d)
    BY <2>3, <1>5 DEF JudgeNeither
  <2> QED
    BY <1>4, <2>1, <2>2, <2>3
<1>11. Judged(d, streaks[d], rule)'
  <2>1. Entry(d).ts = metrics[d].ts /\ Entry(d).limit = rule
    BY <1>3, EntryOf
  <2>2. metrics[d].val < rule - 1 => d \notin open'
    BY <1>7 DEF Clears
  <2>3. metrics[d].val >= rule /\ Entry(d).n >= ForPolls => Breach(d)
    BY DEF Breach, Over
  <2> QED
    BY <1>1, <1>2, <1>8, <2>1, <2>2, <2>3 DEF Judged
<1>12. Known => rule = limit
  BY <1>1, <1>3 DEF Known, Order, Numbers
<1>13. Known' => Known
  BY <1>1 DEF Known
<1>14. ASSUME Known, d \notin dirty PROVE Judged(d, before[d], limit)'
  <2> SUFFICES ASSUME sample[d].ts # 0 PROVE Judged(d, before[d], limit)'
    BY <1>1 DEF Judged
  <2>1. before[d] = streaks[d]
    BY <1>1 DEF Pass
  <2>2. streaks[d].ts = metrics[d].ts /\ streaks[d].limit = rule
    BY <1>1, <1>2, <1>12, <1>14, <2>1 DEF Watched, Judged
  <2>3. metrics[d].val >= rule => Entry(d).n = streaks[d].n /\ Entry(d).first = streaks[d].first
    BY <1>3, <2>2, EntryOf DEF Over, Clears
  <2> QED
    BY <1>1, <1>2, <1>11, <1>12, <1>14, <2>1, <2>2, <2>3 DEF Judged
<1> QED
  BY <1>1, <1>2, <1>9, <1>10, <1>11, <1>12, <1>13, <1>14 DEF Watched

\* Whoever disturbs what is known of a device marks it, or raises the
\* generation; what takes the marks away judges the device.
LEMMA WatchHolds == Spec => []Watch
<1>1. Init => Watch
  BY DEF Init, Watch, Watched, Known
<1>2. Numbers /\ Sets /\ Flags /\ Times /\ Order /\ Pass /\ Watch /\ [Next]_vars => Watch'
  <2> SUFFICES ASSUME Numbers, Sets, Flags, Times, Order, Pass, Watch, [Next]_vars,
                      NEW d \in Device, d \notin Marked'
               PROVE  Watched(d)'
    BY DEF Watch
  <2> USE DEF nodesVars, alertVars, keptVars, tickVars, ghosts
  <2>1. CASE TickStart \/ ReadRules \/ RulesAgain \/ MinutePasses \/ TickEnd
    <3>1. d \notin Marked
      BY <2>1 DEF TickStart, ReadRules, RulesAgain, MinutePasses, TickEnd, ForgetTick, Marked
    <3>2. Watched(d)
      BY <3>1 DEF Watch
    <3> QED
      BY <2>1, <3>2 DEF TickStart, ReadRules, RulesAgain, MinutePasses, TickEnd, ForgetTick,
         Watched, Known, Judged, Pass
  <2>2. CASE TakeWork
    <3>1. /\ UNCHANGED <<sample, limit, seen, generation, crossed, open, skipped, found,
                         resolvedAt, streaks, rule>>
          /\ pc = "work" /\ found = {} /\ pc' \in {"metrics", "rulesAgain"}
          /\ pc' = "rulesAgain" => dirty' = {}
      BY <2>2 DEF TakeWork, Pass
    <3>2. d \notin dirty' => d \notin Marked
      BY <2>2 DEF TakeWork, Marked
    <3>3. d \notin dirty' => Watched(d)
      BY <3>2 DEF Watch
    <3> QED
      BY <3>1, <3>3 DEF Watched, Known, Judged
  <2>3. CASE ReadMetrics
    <3>1. d \notin Marked
      BY <2>3 DEF ReadMetrics, Marked
    <3>2. Watched(d)
      BY <3>1 DEF Watch
    <3>3. /\ UNCHANGED <<sample, limit, seen, generation, crossed, open, skipped, found,
                         resolvedAt, streaks, rule, dirty, openKeys, full>>
          /\ pc = "metrics" /\ pc' = "scan" /\ found = {} /\ openKeys = Unread
          /\ metrics'[d] = sample[d] /\ before'[d] = streaks[d]
      BY <2>3 DEF ReadMetrics, Pass
    <3>4. d \notin todo' => sample[d].ts = 0 \/ (~full /\ d \notin dirty)
      BY <2>3 DEF ReadMetrics
    <3> QED
      BY <3>2, <3>3, <3>4 DEF Watched, Known, Judged
  <2>4. CASE ScanDone
    <3>1. d \notin Marked
      BY <2>4 DEF ScanDone, Marked
    <3>2. Watched(d)
      BY <3>1 DEF Watch
    <3>3. /\ UNCHANGED <<sample, limit, generation, open, skipped, found, resolvedAt,
                         streaks, rule, full, gen>>
          /\ pc = "scan" /\ pc' = "rulesAgain" /\ todo = {}
      BY <2>4 DEF ScanDone
    <3>4. CASE full
      <4>1. seen' = gen /\ (~crossed' => ~crossed \/ rule = limit)
        BY <2>4, <3>4 DEF ScanDone
      <4>2. Known' => rule = limit
        BY <3>3, <4>1 DEF Known, Order
      <4> QED
        BY <3>2, <3>3, <3>4, <4>2 DEF Watched, Judged
    <3>5. CASE ~full
      <4>1. seen' = seen /\ (~crossed' => ~crossed)
        BY <2>4, <3>5 DEF ScanDone
      <4> QED
        BY <3>2, <3>3, <3>5, <4>1 DEF Watched, Judged, Known
    <3> QED
      BY <3>4, <3>5
  <2>5. ASSUME NEW e \in Device, ScanDevice(e) PROVE Watched(d)'
    <3>1. d \notin Marked
      BY <2>5 DEF ScanDevice, JudgeBreach, JudgeClear, JudgeNeither, Marked
    <3>2. Watched(d)
      BY <3>1 DEF Watch
    <3>3. CASE e = d
      BY <2>5, <3>2, <3>3, ScanJudges
    <3>4. CASE e # d
      <4>1. /\ UNCHANGED <<sample, limit, seen, generation, crossed, resolvedAt, rule, dirty,
                           full, metrics, before, pc>>
            /\ streaks'[d] = streaks[d] /\ (d \in todo' <=> d \in todo)
            /\ (d \in skipped' <=> d \in skipped)
        BY <2>5, <3>4 DEF ScanDevice, Numbers
      <4>2. (d \in open' <=> d \in open) /\ (d \in found' <=> d \in found)
        BY <2>5, <3>4 DEF ScanDevice, JudgeBreach, JudgeClear, JudgeNeither
      <4>3. pc = "scan" /\ openKeys' \in {openKeys, KeysNow}
        BY <2>5 DEF ScanDevice, JudgeBreach, JudgeClear, JudgeNeither
      <4>4. openKeys' # Unread /\ d \in openKeys' => d \in open
        BY <3>2, <4>3 DEF Watched, KeysNow
      <4> QED
        BY <3>2, <4>1, <4>2, <4>4 DEF Watched, Known, Judged
    <3> QED
      BY <3>3, <3>4
  <2>6. ASSUME NEW e \in Device, Apply(e) PROVE Watched(d)'
    <3>1. d \notin Marked
      BY <2>6 DEF Apply, Marked
    <3>2. Watched(d)
      BY <3>1 DEF Watch
    <3>3. /\ UNCHANGED <<sample, limit, seen, generation, crossed, resolvedAt, rule, streaks,
                         pc, skipped>>
          /\ pc = "apply" /\ open' = open \cup {e} /\ found' = found \ {e} /\ e \in found
      BY <2>6 DEF Apply
    <3>4. Known => rule = limit
      BY <3>3 DEF Known, Order, Numbers
    <3>5. d = e => sample[d].val >= rule
      BY <3>2, <3>3 DEF Watched
    <3>6. sample[d].val \in Int /\ limit \in Int
      BY ValueAssumption DEF Numbers, Sample
    <3> QED
      BY <3>2, <3>3, <3>4, <3>5, <3>6 DEF Watched, Known, Judged
  <2>7. ASSUME NEW e \in Device, TurnAway(e) \/ ApplyRaises(e) PROVE Watched(d)'
    <3>1. d \notin Marked
      BY <2>7 DEF TurnAway, ApplyRaises, Marked
    <3>2. Watched(d)
      BY <3>1 DEF Watch
    <3>3. /\ UNCHANGED <<sample, limit, seen, generation, crossed, resolvedAt, rule, streaks,
                         pc, open>>
          /\ pc = "apply" /\ skipped' = skipped \cup {e} /\ found' = found \ {e}
      BY <2>7 DEF TurnAway, ApplyRaises
    <3> QED
      BY <3>2, <3>3 DEF Watched, Known, Judged
  <2>8. CASE ScanRaises
    <3>1. d \notin Marked /\ d \notin dirty
      BY <2>8 DEF ScanRaises, CarryOver, Marked
    <3>2. Watched(d)
      BY <3>1 DEF Watch
    <3>3. /\ UNCHANGED <<sample, limit, seen, generation, crossed, resolvedAt, rule, open>>
          /\ pc \in {"metrics", "scan"} /\ pc' = "rulesAgain"
          /\ skipped' = skipped \cup found /\ found' = {}
      BY <2>8 DEF ScanRaises
    <3>4. streaks' = IF full /\ pc = "scan" THEN before ELSE streaks
      BY <2>8 DEF ScanRaises
    <3>5. Known => Judged(d, streaks'[d], limit)
      <4>1. CASE pc = "metrics"
        BY <3>1, <3>2, <3>4, <4>1 DEF Watched
      <4>2. CASE pc = "scan" /\ full
        BY <3>1, <3>2, <3>4, <4>2 DEF Watched
      <4>3. CASE pc = "scan" /\ ~full
        <5>1. d \notin todo
          BY <3>1, <4>3 DEF Pass
        <5> QED
          BY <3>2, <3>4, <4>3, <5>1 DEF Watched
      <4> QED
        BY <3>3, <4>1, <4>2, <4>3
    <3> QED
      BY <3>3, <3>5 DEF Watched, Known, Judged
  <2>9. CASE TickAborts
    <3>1. d \notin Marked
      BY <2>9 DEF TickAborts, Marked
    <3>2. Watched(d)
      BY <3>1 DEF Watch
    <3>3. /\ UNCHANGED <<sample, limit, seen, generation, crossed, resolvedAt, streaks, open>>
          /\ pc = "rulesAgain" /\ pc' = "idle"
          /\ skipped' = skipped \cup found /\ found' = {}
      BY <2>9 DEF TickAborts, ForgetTick
    <3> QED
      BY <3>2, <3>3 DEF Watched, Known, Judged
  <2>10. CASE Crash
    BY <2>10 DEF Crash, ForgetTick, Watched, Known
  <2>11. CASE EditRule
    <3>1. d \notin Marked
      BY <2>11 DEF EditRule, Marked
    <3>2. Watched(d)
      BY <3>1 DEF Watch
    <3>3. /\ UNCHANGED <<sample, seen, resolvedAt, streaks, open, skipped, found, rule, pc,
                         metrics, openKeys, todo, full>>
          /\ generation' = generation + 1
      BY <2>11 DEF EditRule
    <3>4. ~Known'
      BY <3>3 DEF Known, Order, Numbers
    <3> QED
      BY <3>2, <3>3, <3>4 DEF Watched, Judged
  <2>12. ASSUME NEW e \in Device, Poller(e) \/ Others(e) PROVE Watched(d)'
    <3>1. d \notin Marked
      BY <2>12 DEF Poller, Others, WriteSample, MarkDirty, ResolveByHand, Absorb,
         ResolveWindowEnds, Gate, Marked
    <3>2. Watched(d)
      BY <3>1 DEF Watch
    <3>3. /\ UNCHANGED <<limit, seen, generation, crossed, streaks, skipped, found, rule, pc,
                         metrics, openKeys, todo, full, dirty, before>>
      BY <2>12 DEF Poller, Others, WriteSample, MarkDirty, ResolveByHand, Absorb,
         ResolveWindowEnds, Gate
    <3>4. sample'[d] = sample[d]
      BY <2>12 DEF Poller, Others, WriteSample, MarkDirty, ResolveByHand, Absorb,
         ResolveWindowEnds, Gate, Marked, Numbers
    <3>5. resolvedAt'[d] = resolvedAt[d] /\ (d \in open' <=> d \in open)
      BY <2>12 DEF Poller, Others, WriteSample, MarkDirty, ResolveByHand, Absorb,
         ResolveWindowEnds, Gate, Marked, Numbers
    <3> QED
      BY <3>2, <3>3, <3>4, <3>5 DEF Watched, Known, Judged
  <2>13. CASE UNCHANGED vars
    BY <2>13 DEF vars, Watch, Marked, Watched, Known, Judged
  <2> QED
    BY <2>1, <2>2, <2>3, <2>4, <2>5, <2>6, <2>7, <2>8, <2>9, <2>10, <2>11, <2>12, <2>13
    DEF Next, Tick, Fault
<1> QED
  BY <1>1, <1>2, NumbersHold, SetsHold, FlagsHold, TimesHold, OrderHolds, PassHolds,
     PTL DEF Spec

\* Whenever neither a dirty set nor the generation asks for a pass, every device
\* has been judged on its latest sample under the current rule, and its alert is
\* as the judgement says (_evaluate_thresholds, _scan_thresholds).
THEOREM NothingIsMissed == Spec => []NothingMissed
<1>1. Pass /\ Watch => NothingMissed
  <2> SUFFICES ASSUME Pass, Watch, Settled, ~crossed, NEW d \in Device, sample[d].ts # 0
               PROVE  /\ streaks[d].ts = sample[d].ts /\ streaks[d].limit = limit
                      /\ sample[d].val < limit - 1 => d \notin open
                      /\ sample[d].val >= limit /\ streaks[d].n >= ForPolls =>
                           \/ d \in open \cup skipped
                           \/ resolvedAt[d] >= streaks[d].first
    BY DEF NothingMissed
  <2>1. Watched(d) /\ Known /\ pc = "idle" /\ found = {}
    BY DEF Settled, Watch, Marked, Known, Pass
  <2> QED
    BY <2>1 DEF Watched, Judged
<1> QED
  BY <1>1, PassHolds, WatchHolds, PTL

-----------------------------------------------------------------------------
(* The exceptions are paid for.                                            *)

\* A disturbance of this kind has happened.
Happened(k) == budget[k] # Budget[k]

\* Nothing gives a disturbance back; a breach is lost only to a failure or a
\* gate, and the reads of a tick are crossed only by an edit.
Paid ==
    /\ \A k \in Disturbance : budget[k] <= Budget[k]
    /\ skipped # {} => Happened("fault") \/ Happened("gate")
    /\ gated # {} => Happened("gate")
    /\ crossed => Happened("edit")

\* What has happened has happened.
LEMMA SpendPays ==
  ASSUME Numbers, \A k \in Disturbance : budget[k] <= Budget[k],
         (\E j \in Disturbance : Spend(j)) \/ UNCHANGED budget
  PROVE  /\ \A k \in Disturbance : budget'[k] <= Budget[k]
         /\ \A k \in Disturbance : Happened(k) => Happened(k)'
         /\ \A k \in Disturbance : Spend(k) => Happened(k)'
<1>1. ASSUME NEW j \in Disturbance, Spend(j)
      PROVE  /\ budget'[j] = budget[j] - 1 /\ budget[j] \in Nat /\ Budget[j] \in Nat
             /\ \A k \in Disturbance : k # j => budget'[k] = budget[k]
  BY <1>1, BoundAssumption DEF Spend, Numbers
<1>2. ASSUME NEW j \in Disturbance, Spend(j)
      PROVE  budget'[j] <= Budget[j] /\ budget'[j] # Budget[j]
  BY <1>1, <1>2
<1>3. \A k \in Disturbance : budget'[k] <= Budget[k]
  BY <1>1, <1>2
<1>4. \A k \in Disturbance : Spend(k) => Happened(k)'
  BY <1>2 DEF Happened
<1>5. \A k \in Disturbance : Happened(k) => Happened(k)'
  BY <1>1, <1>2 DEF Happened
<1> QED
  BY <1>3, <1>4, <1>5

\* Every step pays for its exceptions.
LEMMA PaidHolds == Spec => []Paid
<1>1. Init => Paid
  BY BoundAssumption DEF Init, Paid
<1>2. Numbers /\ Paid /\ [Next]_vars => Paid'
  <2> SUFFICES ASSUME Numbers, Paid, [Next]_vars PROVE Paid'
    OBVIOUS
  <2> USE DEF Next, Tick, Fault, Poller, Others, TickStart, ReadRules, TakeWork,
              ReadMetrics, ScanDevice, ScanDone, ScanRaises, RulesAgain, TickAborts,
              Apply, TurnAway, ApplyRaises, TickEnd, Crash, EditRule, MinutePasses,
              WriteSample, MarkDirty, ResolveByHand, Absorb, ResolveWindowEnds, Gate,
              vars, alertVars, tickVars, ghosts
  <2>1. (\E j \in Disturbance : Spend(j)) \/ UNCHANGED budget
    BY DEF Disturbance
  <2>2. /\ \A k \in Disturbance : budget'[k] <= Budget[k]
        /\ \A k \in Disturbance : Happened(k) => Happened(k)'
        /\ \A k \in Disturbance : Spend(k) => Happened(k)'
    BY <2>1, SpendPays DEF Paid
  <2>3. skipped' \subseteq skipped \/ Spend("fault") \/ gated # {}
    OBVIOUS
  <2>5. gated' = gated \/ Spend("gate")
    OBVIOUS
  <2>4. (crossed' => crossed) \/ Spend("edit")
    OBVIOUS
  <2> HIDE DEF Next
  <2> QED
    BY <2>2, <2>3, <2>4, <2>5 DEF Paid, Disturbance
<1> QED
  BY <1>1, <1>2, NumbersHold, PTL DEF Spec

\* Where no write failed, nothing was turned away and the rule was not edited, the
\* exceptions of NothingMissed are not there: whatever is sustained is open, or was resolved by
\* hand within its run, however resolves, roll-ups and restarts fell in between.
SeesEveryBreach ==
    Settled /\ ~Happened("fault") /\ ~Happened("gate") /\ ~Happened("edit") =>
        \A d \in {e \in Device : sample[e].ts # 0} :
            /\ streaks[d].ts = sample[d].ts /\ streaks[d].limit = limit
            /\ sample[d].val < limit - 1 => d \notin open
            /\ sample[d].val >= limit /\ streaks[d].n >= ForPolls =>
                   d \in open \/ resolvedAt[d] >= streaks[d].first

\* An engine that no failure, gate or edit has disturbed shows what it was
\* told of every device, for any number of restarts (_evaluate_thresholds).
THEOREM UndisturbedSeesEveryBreach == Spec => []SeesEveryBreach
<1>1. Paid /\ NothingMissed => SeesEveryBreach
  <2> SUFFICES ASSUME Paid, NothingMissed, Settled, ~Happened("fault"), ~Happened("gate"),
                      ~Happened("edit"),
                      NEW d \in Device, sample[d].ts # 0
               PROVE  /\ streaks[d].ts = sample[d].ts /\ streaks[d].limit = limit
                      /\ sample[d].val < limit - 1 => d \notin open
                      /\ sample[d].val >= limit /\ streaks[d].n >= ForPolls =>
                             d \in open \/ resolvedAt[d] >= streaks[d].first
    BY DEF SeesEveryBreach
  <2>1. skipped = {} /\ ~crossed
    BY DEF Paid
  <2> QED
    BY <2>1 DEF NothingMissed
<1> QED
  BY <1>1, PaidHolds, NothingIsMissed, PTL
=============================================================================
