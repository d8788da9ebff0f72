------------------------- MODULE SystemQueue_proofs -------------------------
(***************************************************************************)
(* Proofs about SystemQueue for every set of conditions, every capacity    *)
(* and every budget of changes, failures and crashes.                      *)
(***************************************************************************)
EXTENDS SystemQueue, SequenceTheorems, TLAPS
-----------------------------------------------------------------------------
(* The inductive invariant, in parts.                                      *)

\* The queue holds the newest items, numbered in the order they were raised.
Newest ==
    \A i \in 1..Len(occurrences) :
        occurrences[i] = raised - Len(occurrences) + i

\* Outside a tick nothing was displaced, and a copy is stale only once the
\* drain of this tick has raised.
AtRest ==
    /\ pc = "idle" => displaced = 0
    /\ stale => pc \in {"rules", "apply"}

\* Where an item of a copy stands in the queue: as many places further to the
\* front as items have made room since the copy was taken.
Aligned(copy) ==
    \A j \in 1..Len(copy) :
        copy[j] = raised - Len(occurrences) - displaced + j

\* The copy in hand is aligned with the queue, and what of the copy in flight
\* is no longer in hand was applied.
Handed ==
    /\ pc = "clears" => Aligned(drained.occ)
    /\ (pc \in {"rules", "apply"} /\ ~stale) =>
           /\ Aligned(inflight.occ)
           /\ Items(inflight.occ) \subseteq applied \cup Items(batch)

Inv == TypeOK /\ Newest /\ AtRest /\ Handed
-----------------------------------------------------------------------------
(* The items of a queue.                                                   *)

\* What a queue holds is in the set its items are from.
LEMMA ItemsType ==
    ASSUME NEW S, NEW q \in Seq(S)
    PROVE  /\ Len(q) \in Nat /\ Items(q) \subseteq S
           /\ \A i \in 1..Len(q) : q[i] \in S
<1>1. \A i \in 1..Len(q) : q[i] \in S
  BY ElementOfSeq
<1> QED
  BY <1>1, LenProperties DEF Items

\* Nothing is in an empty queue.
LEMMA NoItems == Items(<<>>) = {} /\ Len(<<>>) = 0
  BY DEF Items

\* The item taken from the front of a queue is the only one that leaves it.
LEMMA HeadLeaves ==
    ASSUME NEW S, NEW q \in Seq(S), q # <<>>
    PROVE  /\ Head(q) \in S /\ Tail(q) \in Seq(S)
           /\ Items(q) \subseteq {Head(q)} \cup Items(Tail(q))
<1>1. /\ Head(q) \in S /\ Tail(q) \in Seq(S)
      /\ Len(Tail(q)) = Len(q) - 1
      /\ \A i \in 1..Len(Tail(q)) : Tail(q)[i] = q[i + 1]
  BY HeadTailProperties
<1>2. Len(q) \in Nat /\ Head(q) = q[1]
  BY LenProperties
<1>3. ASSUME NEW i \in 1..Len(q), i # 1 PROVE q[i] \in Items(Tail(q))
  <2>1. i - 1 \in 1..Len(Tail(q)) /\ Tail(q)[i - 1] = q[i]
    BY <1>1, <1>2, <1>3
  <2> QED
    BY <2>1 DEF Items
<1> QED
  BY <1>1, <1>2, <1>3 DEF Items

\* A longer numbering admits the sequences of a shorter one.
LEMMA ItemsRemain ==
    ASSUME NEW n \in Nat
    PROVE  Seq(1..n) \subseteq Seq(1..(n + 1)) /\ 1..n \subseteq 1..(n + 1)
<1>1. 1..n \subseteq 1..(n + 1)
  OBVIOUS
<1> QED
  BY <1>1, SeqMonotonic

\* What the first items of the queue are about are conditions.
LEMMA ConcernsType ==
    ASSUME TypeOK, NEW items \in SUBSET Item
    PROVE  Concerns(items) \subseteq Condition
<1>1. ASSUME NEW i \in items PROVE about[i] \in Condition
  <2>1. about \in Seq(Condition) /\ i \in 1..Len(about)
    BY DEF TypeOK, Item
  <2> QED
    BY <2>1, ElementOfSeq
<1> QED
  BY <1>1 DEF Concerns

\* What a report leaves: the new item is last, and a full queue lost its first.
LEMMA Reported ==
    ASSUME TypeOK, NEW q, q = Append(occurrences, raised + 1)
    PROVE  /\ q \in Seq(1..(raised + 1)) /\ Len(q) = Len(occurrences) + 1
           /\ \A i \in 1..Len(occurrences) : q[i] = occurrences[i]
           /\ q[Len(occurrences) + 1] = raised + 1
           /\ Len(occurrences) \in 0..Cap
<1>1. /\ raised \in Nat /\ occurrences \in Seq(1..raised)
      /\ Len(occurrences) \in Nat /\ Len(occurrences) <= Cap
  BY LenProperties DEF TypeOK, Item
<1>2. occurrences \in Seq(1..(raised + 1)) /\ raised + 1 \in 1..(raised + 1)
  BY <1>1, ItemsRemain
<1> QED
  BY <1>1, <1>2, AppendProperties, BoundAssumption

\* A queue one too long loses its first item.
LEMMA TrimFull ==
    ASSUME NEW S, NEW q \in Seq(S), Len(q) = Cap + 1
    PROVE  /\ Trim(q) \in Seq(S) /\ Len(Trim(q)) = Cap
           /\ \A i \in 1..Cap : Trim(q)[i] = q[i + 1]
           /\ Trim(q) = Tail(q)
<1>1. Cap \in Nat /\ Cap > 0 /\ Trim(q) = SubSeq(q, 2, Cap + 1)
  BY BoundAssumption DEF Trim
<1>2. \A i \in 2..(Cap + 1) : q[i] \in S
  BY <1>1, ElementOfSeq
<1>3. /\ SubSeq(q, 2, Cap + 1) \in Seq(S)
      /\ Len(SubSeq(q, 2, Cap + 1)) = IF 2 <= Cap + 1 THEN Cap + 1 - 2 + 1 ELSE 0
      /\ \A i \in 1..(Cap + 1 - 2 + 1) : SubSeq(q, 2, Cap + 1)[i] = q[2 + i - 1]
  BY <1>1, <1>2, SubSeqProperties
<1>4. Cap + 1 - 2 + 1 = Cap /\ 2 <= Cap + 1 /\ \A i \in 1..Cap : 2 + i - 1 = i + 1
  BY <1>1
<1>5. Trim(q) = Tail(q)
  <2>1. q # <<>>
    BY <1>1
  <2> QED
    BY <1>1, <2>1, TailIsSubSeq
<1> QED
  BY <1>1, <1>3, <1>4, <1>5

\* A queue that is one longer than occurrences, place by place, once trimmed.
LEMMA TrimmedByOne ==
    ASSUME raised \in Nat, Cap \in Nat, Len(occurrences) \in 0..Cap,
           NEW q \in Seq(1..(raised + 1)), Len(q) = Len(occurrences) + 1,
           \A i \in 1..Len(q) : q[i] = raised - Len(occurrences) + i
    PROVE  /\ Trim(q) \in Seq(1..(raised + 1)) /\ Len(Trim(q)) <= Cap
           /\ Len(Trim(q)) = IF Len(occurrences) = Cap THEN Cap ELSE Len(occurrences) + 1
           /\ \A i \in 1..Len(Trim(q)) : Trim(q)[i] = raised + 1 - Len(Trim(q)) + i
           /\ Len(q) > Cap <=> Len(occurrences) = Cap
           /\ Trim(q) = IF Len(occurrences) = Cap THEN Tail(q) ELSE q
<1>1. CASE Len(occurrences) # Cap
  <2>1. Trim(q) = q
    BY <1>1 DEF Trim
  <2> QED
    BY <1>1, <2>1
<1>2. CASE Len(occurrences) = Cap
  <2>1. /\ Trim(q) \in Seq(1..(raised + 1)) /\ Len(Trim(q)) = Cap
        /\ \A i \in 1..Cap : Trim(q)[i] = q[i + 1]
        /\ Trim(q) = Tail(q)
    BY <1>2, TrimFull
  <2>2. ASSUME NEW i \in 1..Cap PROVE Trim(q)[i] = raised + 1 - Cap + i
    BY <1>2, <2>1
  <2> QED
    BY <1>2, <2>1, <2>2
<1> QED
  BY <1>1, <1>2

\* The queue after a report, place by place.
LEMMA Trimmed ==
    ASSUME TypeOK, Newest, NEW q, q = Append(occurrences, raised + 1)
    PROVE  /\ Trim(q) \in Seq(1..(raised + 1)) /\ Len(Trim(q)) <= Cap
           /\ Len(Trim(q)) = IF Len(occurrences) = Cap THEN Cap ELSE Len(occurrences) + 1
           /\ \A i \in 1..Len(Trim(q)) : Trim(q)[i] = raised + 1 - Len(Trim(q)) + i
           /\ Len(q) > Cap <=> Len(occurrences) = Cap
           /\ Trim(q) = IF Len(occurrences) = Cap THEN Tail(q) ELSE q
<1>1. raised \in Nat /\ Cap \in Nat /\ Len(occurrences) \in 0..Cap
  BY BoundAssumption, Reported DEF TypeOK
<1>2. /\ q \in Seq(1..(raised + 1)) /\ Len(q) = Len(occurrences) + 1
      /\ \A i \in 1..Len(occurrences) : q[i] = occurrences[i]
      /\ q[Len(occurrences) + 1] = raised + 1
  BY Reported
<1>3. ASSUME NEW i \in 1..Len(q) PROVE q[i] = raised - Len(occurrences) + i
  <2>1. i \in 1..Len(occurrences) \/ i = Len(occurrences) + 1
    BY <1>1, <1>2
  <2>2. CASE i \in 1..Len(occurrences)
    BY <1>2, <2>2 DEF Newest
  <2>3. CASE i = Len(occurrences) + 1
    BY <1>1, <1>2, <2>3
  <2> QED
    BY <2>1, <2>2, <2>3
<1> QED
  BY <1>1, <1>2, <1>3, TrimmedByOne, ZenonT(40)

\* What del queue[:n] leaves, place by place.
LEMMA Dropped ==
    ASSUME NEW S, NEW q \in Seq(S), NEW n \in Nat
    PROVE  /\ DropFirst(q, n) \in Seq(S)
           /\ Len(DropFirst(q, n)) = IF n <= Len(q) THEN Len(q) - n ELSE 0
           /\ \A i \in 1..Len(DropFirst(q, n)) : DropFirst(q, n)[i] = q[n + i]
<1>1. Len(q) \in Nat /\ \A i \in (n + 1)..Len(q) : q[i] \in S
  BY LenProperties, ElementOfSeq
<1>2. /\ SubSeq(q, n + 1, Len(q)) \in Seq(S)
      /\ Len(SubSeq(q, n + 1, Len(q)))
             = IF n + 1 <= Len(q) THEN Len(q) - (n + 1) + 1 ELSE 0
      /\ \A i \in 1..(Len(q) - (n + 1) + 1) : SubSeq(q, n + 1, Len(q))[i] = q[n + 1 + i - 1]
  BY <1>1, SubSeqProperties
<1> QED
  BY <1>1, <1>2 DEF DropFirst

-----------------------------------------------------------------------------
(* Type correctness.                                                       *)

\* The two empty copies are copies.
LEMMA NothingIsCopy == Nothing \in Copy /\ <<>> \in Seq(Item) /\ <<>> \in Seq(Condition)
  BY EmptySeq DEF Nothing, Copy

\* A budget that is spent remains one.
LEMMA SpendType ==
    ASSUME TypeOK, NEW k \in Disturbance, Spend(k)
    PROVE  budget' \in [Disturbance -> Nat]
<1>1. budget \in [Disturbance -> Nat] /\ budget[k] > 0
      /\ budget' = [budget EXCEPT ![k] = @ - 1]
  BY DEF TypeOK, Spend
<1>2. budget[k] - 1 \in Nat
  BY <1>1
<1> QED
  BY <1>1, <1>2

\* The first state has its types.
LEMMA TypeInit == Init => Inv
<1> SUFFICES ASSUME Init PROVE Inv
  OBVIOUS
<1>1. Len(<<>>) = 0 /\ Cap \in Nat
  BY BoundAssumption
<1>2. TypeOK
  <2>1. /\ about \in Seq(Condition) /\ occurrences \in Seq(Item)
        /\ clears \in Seq(Condition) /\ resolving \in Seq(Condition)
        /\ batch \in Seq(Item) /\ drained \in Copy /\ inflight \in Copy
    BY NothingIsCopy DEF Init
  <2>2. Len(about) = raised /\ Len(occurrences) = 0 /\ Len(occurrences) <= Cap
    BY <1>1, BoundAssumption DEF Init
  <2>3. budget \in [Disturbance -> Nat]
    BY BoundAssumption DEF Init
  <2>4. \A i \in 2..Len(occurrences) : occurrences[i] = occurrences[i-1] + 1
    BY <2>2
  <2>5. /\ raised \in Nat /\ applied \subseteq Item /\ displaced \in Nat
        /\ stale \in BOOLEAN /\ pc \in {"idle", "clears", "rules", "apply"}
    BY DEF Init
  <2>6. /\ failing \subseteq Condition /\ owed \subseteq Condition
        /\ rows \subseteq Condition /\ skipped \subseteq Condition
        /\ stuck \subseteq Condition
        /\ enabled \subseteq Condition /\ rules \subseteq Condition
    BY DEF Init
  <2> QED
    BY <2>1, <2>2, <2>3, <2>4, <2>5, <2>6 DEF TypeOK
<1>3. Newest /\ AtRest /\ Handed
  BY <1>1 DEF Init, Newest, AtRest, Handed
<1> QED
  BY <1>2, <1>3 DEF Inv

\* The queue stays numbered by whoever keeps it numbered to the newest item.
LEMMA NumberedType ==
    ASSUME Newest', raised' \in Nat, occurrences' \in Seq(Item')
    PROVE  \A i \in 2..Len(occurrences') : occurrences'[i] = occurrences'[i-1] + 1
<1>1. Len(occurrences') \in Nat
  BY LenProperties
<1>2. ASSUME NEW i \in 2..Len(occurrences')
      PROVE  occurrences'[i] = occurrences'[i-1] + 1
  <2>1. i \in 1..Len(occurrences') /\ i - 1 \in 1..Len(occurrences')
    BY <1>1
  <2>2. /\ occurrences'[i] = raised' - Len(occurrences') + i
        /\ occurrences'[i-1] = raised' - Len(occurrences') + (i - 1)
    BY <2>1 DEF Newest
  <2> QED
    BY <1>1, <2>2
<1> QED
  BY <1>2

\* A report keeps the types and the numbering.
LEMMA ReportType ==
    ASSUME TypeOK, Newest, NEW c \in Condition, SystemOccurrence(c)
    PROVE  TypeOK' /\ Newest'
<1> DEFINE q == Append(occurrences, raised + 1)
<1>1. /\ raised \in Nat /\ raised' = raised + 1 /\ Cap \in Nat
      /\ occurrences' = Trim(q) /\ about' = Append(about, c)
  BY BoundAssumption DEF SystemOccurrence, TypeOK
<1>2. /\ Trim(q) \in Seq(1..(raised + 1)) /\ Len(Trim(q)) <= Cap
      /\ \A i \in 1..Len(Trim(q)) : Trim(q)[i] = raised + 1 - Len(Trim(q)) + i
  BY Trimmed
<1> HIDE DEF q
<1>3. Item' = 1..(raised + 1) /\ Item \subseteq Item' /\ Seq(Item) \subseteq Seq(Item')
  <2>1. Item = 1..raised /\ Item' = 1..(raised + 1)
    BY <1>1 DEF Item
  <2> QED
    BY <1>1, <2>1, ItemsRemain
<1>4. Newest'
  <2>1. Len(Trim(q)) \in Nat
    BY <1>2, LenProperties
  <2> QED
    BY <1>1, <1>2, <2>1 DEF Newest
<1>5. occurrences' \in Seq(Item') /\ Len(occurrences') <= Cap
  BY <1>1, <1>2, <1>3
<1>6. about' \in Seq(Condition) /\ Len(about') = raised'
  BY <1>1, AppendProperties DEF TypeOK
<1>7. skipped' \subseteq Condition /\ displaced' \in Nat
  <2>1. CASE ~(Len(q) > Cap)
    BY <2>1 DEF SystemOccurrence, TypeOK, q
  <2>2. CASE Len(q) > Cap
    <3>1. /\ skipped' = skipped \cup Concerns({Head(q)})
          /\ displaced' \in {displaced, displaced + 1}
      BY <2>2 DEF SystemOccurrence, q
    <3>2. Head(q) \in Item
      <4>1. /\ q \in Seq(1..(raised + 1)) /\ Len(q) = Len(occurrences) + 1
            /\ \A i \in 1..Len(occurrences) : q[i] = occurrences[i]
            /\ Len(occurrences) \in 0..Cap
        BY Reported DEF q
      <4>2. 1 \in 1..Len(occurrences) /\ Head(q) = q[1]
        BY <1>1, <2>2, <4>1, BoundAssumption
      <4> QED
        BY <4>1, <4>2, ElementOfSeq DEF TypeOK
    <3>3. Concerns({Head(q)}) \subseteq Condition
      BY <3>2, ConcernsType
    <3>4. skipped \subseteq Condition /\ displaced \in Nat
      BY DEF TypeOK
    <3> QED
      BY <3>1, <3>3, <3>4
  <2> QED
    BY <2>1, <2>2
<1>8. /\ batch' \in Seq(Item') /\ drained' \in Copy' /\ inflight' \in Copy'
      /\ applied' \subseteq Item'
  BY <1>3 DEF SystemOccurrence, TypeOK, Copy, tick
<1>9. \A i \in 2..Len(occurrences') : occurrences'[i] = occurrences'[i-1] + 1
  BY <1>1, <1>4, <1>5, NumberedType
<1> QED
  BY <1>1, <1>4, <1>5, <1>6, <1>7, <1>8, <1>9 DEF SystemOccurrence, TypeOK, tick

\* The commit keeps the types and the numbering.
LEMMA CommitType ==
    ASSUME TypeOK, Newest, CommitSystemDrain
    PROVE  TypeOK' /\ Newest'
<1> DEFINE n == Len(inflight.occ)  gone == Items(occurrences) \ Items(occurrences')
<1>1. /\ inflight.occ \in Seq(Item) /\ inflight.clr \in Seq(Condition)
      /\ n \in Nat /\ Len(inflight.clr) \in Nat
      /\ occurrences \in Seq(Item) /\ clears \in Seq(Condition)
      /\ Len(occurrences) \in Nat /\ Len(occurrences) <= Cap
      /\ raised \in Nat /\ Cap \in Nat /\ raised' = raised /\ Item' = Item
  BY LenProperties, BoundAssumption DEF TypeOK, Copy, CommitSystemDrain, workers, Item
<1>2. /\ occurrences' = DropFirst(occurrences, n)
      /\ clears' = DropFirst(clears, Len(inflight.clr))
  BY DEF CommitSystemDrain
<1> HIDE DEF n
<1>3. /\ occurrences' \in Seq(Item)
      /\ Len(occurrences') = IF n <= Len(occurrences) THEN Len(occurrences) - n ELSE 0
      /\ \A i \in 1..Len(occurrences') : occurrences'[i] = occurrences[n + i]
  BY <1>1, <1>2, Dropped
<1>4. Newest'
  <2>1. ASSUME NEW i \in 1..Len(occurrences')
        PROVE  occurrences'[i] = raised - Len(occurrences') + i
    <3>1. n + i \in 1..Len(occurrences) /\ Len(occurrences') = Len(occurrences) - n
      BY <1>1, <1>3
    <3>2. occurrences[n + i] = raised - Len(occurrences) + (n + i)
      BY <3>1 DEF Newest
    <3>3. occurrences'[i] = occurrences[n + i] /\ i \in Int
      BY <1>3, <3>1, <1>1
    <3> QED
      BY <1>1, <3>1, <3>2, <3>3
  <2> QED
    BY <1>1, <2>1 DEF Newest
<1>5. clears' \in Seq(Condition)
  BY <1>1, <1>2, Dropped
<1>6. skipped' \subseteq Condition /\ stuck' \subseteq Condition
  <2>1. /\ gone \subseteq Item /\ gone \cup Items(inflight.occ) \subseteq Item
        /\ gone \ applied \subseteq Item /\ {} \subseteq Item
        /\ Items(inflight.clr) \subseteq Condition
    BY <1>1, ItemsType
  <2>2. PICK items \in SUBSET Item : skipped' = skipped \cup Concerns(items)
    BY <2>1 DEF CommitSystemDrain
  <2> QED
    BY <2>1, <2>2, ConcernsType DEF CommitSystemDrain, TypeOK
<1>7. \A i \in 2..Len(occurrences') : occurrences'[i] = occurrences'[i-1] + 1
  BY <1>1, <1>3, <1>4, NumberedType
<1>8. drained' \in Copy /\ inflight' \in Copy /\ Copy' = Copy
  BY <1>1, NothingIsCopy DEF CommitSystemDrain, Copy
<1>9. Len(occurrences') <= Cap
  BY <1>1, <1>3
<1> QED
  BY <1>1, <1>3, <1>4, <1>5, <1>6, <1>7, <1>8, <1>9 DEF CommitSystemDrain, TypeOK, workers

\* Every step keeps the types and the numbering.
LEMMA TypeStep ==
    ASSUME TypeOK, Newest, [Next]_vars
    PROVE  TypeOK' /\ Newest'
<1> USE DEF workers, queues, tick, ghosts
<1>1. CASE \E c \in Condition : SystemOccurrence(c)
  BY <1>1, ReportType
<1>2. CASE CommitSystemDrain
  BY <1>2, CommitType
<1>3. ASSUME UNCHANGED <<raised, occurrences>> PROVE Newest' /\ Item' = Item /\ Copy' = Copy
  BY <1>3 DEF Newest, Item, Copy
<1>4. ASSUME NEW c \in Condition, Flip(c) PROVE TypeOK' /\ Newest'
  <2>1. budget' \in [Disturbance -> Nat]
    BY <1>4, SpendType DEF Flip, Disturbance
  <2> QED
    BY <1>3, <1>4, <2>1 DEF Flip, TypeOK
<1>5. ASSUME NEW c \in Condition, ClearSystemOccurrence(c) PROVE TypeOK' /\ Newest'
  <2>1. clears' \in Seq(Condition)
    BY <1>5, AppendProperties DEF ClearSystemOccurrence, TypeOK
  <2> QED
    BY <1>3, <1>5, <2>1 DEF ClearSystemOccurrence, TypeOK
<1>6. CASE Drain
  <2>1. drained' \in Copy /\ resolving' \in Seq(Condition)
    BY <1>6 DEF Drain, TypeOK, Copy
  <2> QED
    BY <1>3, <1>6, <2>1 DEF Drain, TypeOK
<1>7. CASE ResolveClear
  <2>1. Head(resolving) \in Condition /\ resolving' \in Seq(Condition)
    BY <1>7, HeadLeaves DEF ResolveClear, TypeOK
  <2> QED
    BY <1>3, <1>7, <2>1 DEF ResolveClear, TypeOK
<1>8. CASE ClearsDone
  <2>1. inflight' \in Copy /\ batch' \in Seq(Item)
    BY <1>8 DEF ClearsDone, TypeOK, Copy
  <2> QED
    BY <1>3, <1>8, <2>1 DEF ClearsDone, TypeOK
<1>9. CASE DrainRaises
  <2>1. budget' \in [Disturbance -> Nat]
    BY <1>9, SpendType DEF DrainRaises, Disturbance
  <2> QED
    BY <1>3, <1>9, <2>1, NothingIsCopy DEF DrainRaises, TypeOK
<1>10. CASE TickAborts
  <2>1. budget' \in [Disturbance -> Nat]
    BY <1>10, SpendType DEF TickAborts, Disturbance
  <2> QED
    BY <1>3, <1>10, <2>1, NothingIsCopy DEF TickAborts, TypeOK
<1>11. CASE RulesRead
  BY <1>3, <1>11 DEF RulesRead, TypeOK
<1>12. CASE Apply \/ PassOver \/ ApplyRaises
  <2>1. Head(batch) \in Item /\ batch' \in Seq(Item)
    <3>1. batch \in Seq(Item) /\ batch # <<>> /\ batch' = Tail(batch)
      BY <1>12 DEF Apply, PassOver, ApplyRaises, TypeOK
    <3> QED
      BY <3>1, HeadLeaves
  <2>2. about[Head(batch)] \in Condition
    BY <2>1, ElementOfSeq DEF TypeOK, Item
  <2>3. budget' \in [Disturbance -> Nat]
    BY <1>12, SpendType DEF Apply, PassOver, ApplyRaises, Disturbance, TypeOK
  <2> QED
    BY <1>3, <1>12, <2>1, <2>2, <2>3 DEF Apply, PassOver, ApplyRaises, TypeOK
<1>13. CASE Crash
  <2>1. budget' \in [Disturbance -> Nat]
    BY <1>13, SpendType DEF Crash, Disturbance
  <2>2. /\ Item' = Item /\ Copy' = Copy /\ Len(occurrences') = 0
        /\ occurrences' \in Seq(Item) /\ clears' \in Seq(Condition)
        /\ batch' \in Seq(Item) /\ resolving' \in Seq(Condition)
        /\ drained' \in Copy /\ inflight' \in Copy
    BY <1>13, NothingIsCopy DEF Crash, Item, Copy
  <2>3. Newest' /\ \A i \in 2..Len(occurrences') : occurrences'[i] = occurrences'[i-1] + 1
    BY <2>2 DEF Newest
  <2>4. Len(occurrences') <= Cap
    BY <2>2, BoundAssumption
  <2>5. /\ raised' = raised /\ about' = about /\ applied' = applied /\ rows' = rows
        /\ failing' = {} /\ owed' = {} /\ skipped' = {} /\ stuck' = rows
        /\ displaced' = 0 /\ stale' = FALSE /\ pc' = "idle"
        /\ enabled' = enabled /\ rules' = {}
    BY <1>13 DEF Crash
  <2> QED
    BY <2>1, <2>2, <2>3, <2>4, <2>5 DEF TypeOK
<1>14. CASE UNCHANGED vars
  BY <1>3, <1>14 DEF vars, TypeOK
<1>15. ASSUME NEW c \in Condition, Operator(c) PROVE TypeOK' /\ Newest'
  <2>1. budget' \in [Disturbance -> Nat]
    BY <1>15, SpendType DEF Operator, SwitchRule, ResolveRow, Disturbance
  <2> QED
    BY <1>3, <1>15, <2>1 DEF Operator, SwitchRule, ResolveRow, TypeOK
<1> QED
  BY <1>1, <1>2, <1>4, <1>5, <1>6, <1>7, <1>8, <1>9, <1>10, <1>11, <1>12, <1>13, <1>14,
     <1>15 DEF Next, Tick, Fault, Worker

-----------------------------------------------------------------------------
(* Where the copies of a tick stand.                                       *)

\* A report moves every copy as far as it moves the queue.
LEMMA ReportAligned ==
    ASSUME TypeOK, Newest, NEW c \in Condition, SystemOccurrence(c), pc # "idle",
           NEW copy, Aligned(copy)
    PROVE  Aligned(copy)'
<1> DEFINE q == Append(occurrences, raised + 1)
<1>1. /\ raised \in Nat /\ displaced \in Nat /\ Len(occurrences) \in 0..Cap
      /\ Cap \in Nat /\ raised' = raised + 1 /\ occurrences' = Trim(q)
  BY BoundAssumption, Reported DEF SystemOccurrence, TypeOK
<1>2. /\ Len(Trim(q)) = IF Len(occurrences) = Cap THEN Cap ELSE Len(occurrences) + 1
      /\ Len(q) > Cap <=> Len(occurrences) = Cap
  BY Trimmed
<1>3. displaced' = IF Len(occurrences) = Cap THEN displaced + 1 ELSE displaced
  BY <1>2 DEF SystemOccurrence
<1> HIDE DEF q
<1>4. raised' - Len(occurrences') - displaced' = raised - Len(occurrences) - displaced
  BY <1>1, <1>2, <1>3
<1> QED
  BY <1>4 DEF Aligned

\* A copy just taken is aligned: it is the queue.
LEMMA QueueAligned ==
    ASSUME TypeOK, Newest, displaced = 0
    PROVE  Aligned(occurrences)
<1>1. raised \in Nat /\ Len(occurrences) \in Nat
  BY LenProperties DEF TypeOK
<1> QED
  BY <1>1 DEF Newest, Aligned

\* Every step keeps the copies aligned and accounted for.
LEMMA HandedStep ==
    ASSUME Inv, [Next]_vars
    PROVE  AtRest' /\ Handed'
<1> USE DEF Inv, workers, queues, tick, ghosts, AtRest
<1>0. stale \in BOOLEAN /\ TypeOK /\ Newest /\ AtRest /\ Handed
  BY DEF TypeOK
<1>1. ASSUME UNCHANGED <<raised, occurrences, displaced>>, NEW copy, Aligned(copy)
      PROVE  Aligned(copy)'
  BY <1>1 DEF Aligned
<1>2. ASSUME NEW c \in Condition, SystemOccurrence(c) PROVE AtRest' /\ Handed'
  <2>1. /\ UNCHANGED <<pc, tick, inflight, applied, stale>>
        /\ pc = "idle" => displaced' = displaced
    BY <1>2 DEF SystemOccurrence
  <2>2. pc = "clears" => Aligned(drained.occ)'
    <3>1. ASSUME pc = "clears" PROVE Aligned(drained.occ)'
      <4>1. Aligned(drained.occ) /\ drained' = drained
        BY <2>1, <3>1 DEF Handed
      <4> QED
        BY <1>2, <3>1, <4>1, <2>1, ReportAligned DEF Aligned
    <3> QED
      BY <3>1
  <2>3. (pc \in {"rules", "apply"} /\ ~stale) => Aligned(inflight.occ)'
    <3>1. ASSUME pc \in {"rules", "apply"}, ~stale PROVE Aligned(inflight.occ)'
      <4>1. Aligned(inflight.occ) /\ inflight' = inflight
        BY <2>1, <3>1 DEF Handed
      <4> QED
        BY <1>2, <3>1, <4>1, <2>1, ReportAligned DEF Aligned
    <3> QED
      BY <3>1
  <2> QED
    BY <1>0, <2>1, <2>2, <2>3 DEF Handed
<1>3. CASE \E c \in Condition : Flip(c) \/ ClearSystemOccurrence(c)
  BY <1>0, <1>1, <1>3 DEF Flip, ClearSystemOccurrence, Handed, Aligned
<1>4. CASE Drain
  <2>1. /\ pc = "idle" /\ pc' = "clears" /\ drained'.occ = occurrences
        /\ UNCHANGED <<raised, occurrences, displaced, stale>>
    BY <1>4 DEF Drain
  <2>2. Aligned(occurrences)
    BY <1>0, <2>1, QueueAligned
  <2> QED
    BY <1>0, <2>1, <2>2 DEF Handed, Aligned
<1>5. CASE ResolveClear
  BY <1>0, <1>5 DEF ResolveClear, Handed, Aligned
<1>6. CASE ClearsDone
  <2>1. /\ pc = "clears" /\ pc' = "rules" /\ inflight' = drained /\ batch' = drained.occ
        /\ UNCHANGED <<raised, occurrences, displaced, stale, applied>>
    BY <1>6 DEF ClearsDone
  <2>2. Aligned(drained.occ)
    BY <1>0, <2>1 DEF Handed
  <2>3. Aligned(inflight.occ)'
    BY <2>1, <2>2 DEF Aligned
  <2>4. Items(inflight'.occ) = Items(batch')
    BY <2>1
  <2> QED
    BY <1>0, <2>1, <2>3, <2>4 DEF Handed
<1>7. CASE DrainRaises
  <2>1. /\ pc' = "rules" /\ inflight' = inflight /\ displaced' = displaced
        /\ stale' = (inflight # Nothing)
    BY <1>7 DEF DrainRaises
  <2>2. ASSUME ~stale' PROVE inflight'.occ = <<>>
    <3>1. inflight' = Nothing
      BY <2>1, <2>2, Zenon
    <3> QED
      BY <3>1 DEF Nothing
  <2>3. ASSUME ~stale' PROVE Aligned(inflight.occ)' /\ Items(inflight'.occ) = {}
    BY <2>2, <2>3, NoItems DEF Aligned
  <2> QED
    BY <2>1, <2>3 DEF Handed
<1>8. CASE TickAborts \/ CommitSystemDrain \/ Crash
  BY <1>8 DEF TickAborts, CommitSystemDrain, Crash, Handed
<1>9. CASE RulesRead
  BY <1>0, <1>9 DEF RulesRead, Handed, Aligned
<1>10. CASE Apply \/ PassOver \/ ApplyRaises
  <2>1. /\ pc = "apply" /\ batch # <<>> /\ batch' = Tail(batch)
        /\ applied' = applied \cup {Head(batch)}
        /\ UNCHANGED <<pc, raised, occurrences, displaced, stale, inflight>>
    BY <1>10 DEF Apply, PassOver, ApplyRaises
  <2>2. Items(batch) \subseteq {Head(batch)} \cup Items(batch')
    BY <2>1, HeadLeaves DEF TypeOK
  <2>3. Items(inflight'.occ) = Items(inflight.occ)
    BY <2>1
  <2>4. Aligned(inflight.occ) => Aligned(inflight.occ)'
    BY <2>1 DEF Aligned
  <2> QED
    BY <1>0, <2>1, <2>2, <2>3, <2>4 DEF Handed
<1>11. CASE UNCHANGED vars
  BY <1>0, <1>11 DEF vars, Handed, Aligned
<1>12. CASE \E c \in Condition : Operator(c)
  BY <1>0, <1>12 DEF Operator, SwitchRule, ResolveRow, Handed, Aligned
<1> QED
  BY <1>2, <1>3, <1>4, <1>5, <1>6, <1>7, <1>8, <1>9, <1>10, <1>11, <1>12
     DEF Next, Tick, Fault, Worker

\* Every step keeps the invariant.
LEMMA InvStep ==
    ASSUME Inv, [Next]_vars
    PROVE  Inv'
  BY TypeStep, HandedStep DEF Inv

-----------------------------------------------------------------------------
(* The theorems.                                                           *)

\* Every variable keeps its type, the occurrences waiting are numbered upwards
\* without a gap and never exceed the cap (system_occurrence,
\* _commit_system_drain).
THEOREM TypeCorrect == Spec => []TypeOK
<1>1. Inv /\ [Next]_vars => Inv'
  BY InvStep
<1>2. Inv => TypeOK
  BY DEF Inv
<1> QED
  BY TypeInit, <1>1, <1>2, PTL DEF Spec

(* The refinement.                                                         *)

\* What is left in the queue or in hand of its own budget is what the abstract
\* queue sees of a step that moves no item.
LEMMA PromiseUntouched ==
    ASSUME UNCHANGED <<occurrences, applied, raised, stale, displaced>>,
           budget'["crash"] = budget["crash"]
    PROVE  UNCHANGED ALO!vars
  BY DEF ALO!vars

\* Only a crash is counted as a restart.
LEMMA OtherSpends ==
    ASSUME TypeOK, NEW k \in Disturbance, Spend(k), k # "crash"
    PROVE  budget'["crash"] = budget["crash"]
  BY DEF TypeOK, Spend, Disturbance

\* A report is accepted, and makes room if it has to.
LEMMA PromiseReport ==
    ASSUME Inv, NEW c \in Condition, SystemOccurrence(c)
    PROVE  ALO!Accept
<1> DEFINE q == Append(occurrences, raised + 1)
<1>1. /\ raised' = raised + 1 /\ occurrences' = Trim(q)
      /\ UNCHANGED <<applied, budget, stale>>
  BY DEF SystemOccurrence
<1>2. /\ Trim(q) = IF Len(occurrences) = Cap THEN Tail(q) ELSE q
      /\ Len(q) > Cap <=> Len(occurrences) = Cap
  BY Trimmed DEF Inv
<1>3. displaced' = displaced \/ (Len(occurrences) = Cap /\ displaced' = displaced + 1)
  BY <1>2 DEF SystemOccurrence
<1> QED
  BY <1>1, <1>2, <1>3 DEF ALO!Accept, ALO!Full

\* The commit forgets from the front what was applied, but for as many items
\* as were displaced, or anything if the copy it counts is stale.
LEMMA PromiseCommit ==
    ASSUME Inv, CommitSystemDrain
    PROVE  [ALO!Next]_(ALO!vars)
<1> DEFINE n == Len(inflight.occ)
           slack == IF stale THEN Cap ELSE displaced
<1>1. /\ inflight.occ \in Seq(Item) /\ n \in Nat
      /\ occurrences \in Seq(Item) /\ Len(occurrences) \in Nat
      /\ Len(occurrences) <= Cap /\ Cap \in Nat /\ displaced \in Nat
      /\ raised \in Nat /\ stale \in BOOLEAN
  BY LenProperties, BoundAssumption DEF Inv, TypeOK, Copy
<1>2. /\ occurrences' = SubSeq(occurrences, n + 1, Len(occurrences))
      /\ UNCHANGED <<applied, raised, budget>> /\ displaced' = 0 /\ stale' = FALSE
  BY DEF CommitSystemDrain, DropFirst, workers
<1> DEFINE m == IF n <= Len(occurrences) THEN n ELSE Len(occurrences)
<1>3. occurrences' = SubSeq(occurrences, m + 1, Len(occurrences))
  <2>1. CASE n <= Len(occurrences)
    BY <1>2, <2>1
  <2>2. CASE ~(n <= Len(occurrences))
    <3>1. m = Len(occurrences) /\ n + 1 > Len(occurrences) /\ n + 1 \in Int
      BY <1>1, <2>2
    <3> HIDE DEF n, m
    <3>2. SubSeq(occurrences, n + 1, Len(occurrences)) = <<>>
      BY <1>1, <3>1, SubSeqEmpty
    <3>3. SubSeq(occurrences, m + 1, Len(occurrences)) = <<>>
      BY <1>1, <3>1, SubSeqEmpty
    <3> QED
      BY <1>2, <3>2, <3>3
  <2> QED
    BY <2>1, <2>2
<1>4. \A k \in 1..(m - slack) : occurrences[k] \in applied
  <2>1. CASE stale
    BY <1>1, <2>1
  <2>2. CASE ~stale
    <3>1. Aligned(inflight.occ) /\ Items(inflight.occ) \subseteq applied
      <4>1. pc = "apply" /\ batch = <<>>
        BY DEF CommitSystemDrain
      <4> QED
        BY <2>2, <4>1, NoItems DEF Inv, Handed
    <3>2. ASSUME NEW k \in 1..(m - displaced) PROVE occurrences[k] \in applied
      <4>1. k + displaced \in 1..n /\ k \in 1..Len(occurrences) /\ k \in Int
        <5>1. m \in Nat /\ m <= n /\ m <= Len(occurrences)
          BY <1>1
        <5> HIDE DEF n, m
        <5> QED
          BY <1>1, <3>2, <5>1
      <4>2. inflight.occ[k + displaced] = raised - Len(occurrences) - displaced + (k + displaced)
        BY <3>1, <4>1 DEF Aligned
      <4>3. occurrences[k] = raised - Len(occurrences) + k
        BY <4>1 DEF Inv, Newest
      <4>4. occurrences[k] = inflight.occ[k + displaced]
        <5> HIDE DEF n, m
        <5> QED
          BY <1>1, <4>1, <4>2, <4>3
      <4> QED
        BY <3>1, <4>1, <4>4 DEF Items
    <3> QED
      BY <2>2, <3>2
  <2> QED
    BY <1>1, <2>1, <2>2
<1>5. CASE m = 0
  <2> HIDE DEF m
  <2>1. occurrences' = SubSeq(occurrences, 1, Len(occurrences))
    BY <1>3, <1>5
  <2>2. occurrences' = occurrences
    BY <1>1, <2>1, SubSeqFull
  <2> QED
    BY <1>2, <2>2 DEF ALO!Next, ALO!Recover
<1>6. CASE m # 0
  <2>1. m \in 1..Len(occurrences)
    BY <1>1, <1>6
  <2>2. ALO!Forget
    <3>1. (IF stale' THEN Cap ELSE displaced') = 0
      BY <1>2
    <3>2. \A k \in 1..(m - (IF stale THEN Cap ELSE displaced)) :
             occurrences[k] \in applied
      BY <1>4
    <3> HIDE DEF m
    <3> QED
      BY <1>2, <1>3, <2>1, <3>1, <3>2 DEF ALO!Forget
  <2> QED
    BY <2>2 DEF ALO!Next
<1> QED
  BY <1>5, <1>6

\* Every step is a step of the abstract queue, or shows it nothing.
LEMMA PromiseStep ==
    ASSUME Inv, [Next]_vars
    PROVE  [ALO!Next]_(ALO!vars)
<1> USE DEF workers, queues, tick, ghosts
<1>0. TypeOK /\ AtRest
  BY DEF Inv
<1>1. CASE \E c \in Condition : SystemOccurrence(c)
  BY <1>1, PromiseReport DEF ALO!Next
<1>2. CASE CommitSystemDrain
  BY <1>2, PromiseCommit
<1>3. ASSUME NEW c \in Condition, Flip(c) \/ ClearSystemOccurrence(c)
      PROVE  UNCHANGED ALO!vars
  <2>1. budget'["crash"] = budget["crash"]
    BY <1>0, <1>3, OtherSpends DEF Flip, ClearSystemOccurrence, Disturbance
  <2> QED
    BY <1>3, <2>1, PromiseUntouched DEF Flip, ClearSystemOccurrence
<1>4. CASE Drain \/ ResolveClear \/ ClearsDone \/ RulesRead
  BY <1>4, PromiseUntouched DEF Drain, ResolveClear, ClearsDone, RulesRead
<1>5. CASE DrainRaises
  <2>1. /\ UNCHANGED <<occurrences, applied, raised, displaced>>
        /\ ~stale /\ stale' \in BOOLEAN
        /\ budget'["crash"] = budget["crash"]
    BY <1>0, <1>5, OtherSpends DEF DrainRaises, AtRest, Disturbance, TypeOK
  <2> QED
    BY <2>1 DEF ALO!Next, ALO!Stumble, ALO!vars
<1>6. CASE TickAborts
  <2>1. /\ UNCHANGED <<occurrences, applied, raised>>
        /\ displaced' = 0 /\ stale' = FALSE
        /\ budget'["crash"] = budget["crash"]
    BY <1>0, <1>6, OtherSpends DEF TickAborts, Disturbance
  <2> QED
    BY <2>1 DEF ALO!Next, ALO!Recover
<1>7. CASE Apply \/ PassOver \/ ApplyRaises
  <2>1. /\ applied' = applied \cup {Head(batch)} /\ batch # <<>>
        /\ UNCHANGED <<occurrences, raised, displaced, stale>>
    BY <1>7 DEF Apply, PassOver, ApplyRaises
  <2>2. Head(batch) \in 1..raised
    BY <1>0, <2>1, HeadLeaves DEF TypeOK, Item
  <2>3. budget'["crash"] = budget["crash"]
    BY <1>0, <1>7, OtherSpends DEF Apply, PassOver, ApplyRaises, Disturbance
  <2> QED
    BY <2>1, <2>2, <2>3 DEF ALO!Next, ALO!Handle
<1>8. CASE Crash
  <2>1. /\ occurrences' = <<>> /\ displaced' = 0 /\ stale' = FALSE
        /\ UNCHANGED <<raised, applied>> /\ Spend("crash")
    BY <1>8 DEF Crash
  <2>2. Budget["crash"] - budget'["crash"] = Budget["crash"] - budget["crash"] + 1
    BY <1>0, <2>1, BoundAssumption DEF TypeOK, Spend, Disturbance
  <2> QED
    BY <2>1, <2>2 DEF ALO!Next, ALO!Restart
<1>9. CASE UNCHANGED vars
  BY <1>9, PromiseUntouched DEF vars
<1>10. ASSUME NEW c \in Condition, Operator(c) PROVE UNCHANGED ALO!vars
  <2>1. budget'["crash"] = budget["crash"]
    BY <1>0, <1>10, OtherSpends DEF Operator, SwitchRule, ResolveRow, Disturbance
  <2> QED
    BY <1>10, <2>1, PromiseUntouched DEF Operator, SwitchRule, ResolveRow
<1> QED
  BY <1>1, <1>2, <1>3, <1>4, <1>5, <1>6, <1>7, <1>8, <1>9, <1>10
     DEF Next, Tick, Fault, Worker

\* The queue keeps the promise of a retried queue, whatever capacity it has and
\* however often ticks fail: an item leaves it unapplied only to make room, as
\* one of the last of a commit that followed such an overflow, after a drain
\* that raised over an earlier copy, or in a restart (_drain_system_occurrences,
\* _commit_system_drain).
THEOREM Refinement == Spec => Promise
<1>1. Init => ALO!Init
  BY BoundAssumption DEF Init, ALO!Init, Disturbance
<1>2. Inv /\ [Next]_vars => Inv'
  BY InvStep
<1>3. Inv /\ [Next]_vars => [ALO!Next]_(ALO!vars)
  BY PromiseStep
<1> QED
  BY TypeInit, <1>1, <1>2, <1>3, PTL DEF Spec, Promise, ALO!Spec

-----------------------------------------------------------------------------
(* The rows follow the conditions: the inductive invariant, in parts.      *)

\* The clears that remain when the first n are removed.
After(n) == {clears[k] : k \in (n + 1)..Len(clears)}

\* Clears are appended behind a copy, never put before it.
Begins(q) == Len(q) <= Len(clears) /\ \A k \in 1..Len(q) : clears[k] = q[k]

\* The last item that was raised when the queue was handed out.
Top == raised - Len(occurrences) - displaced + Len(drained.occ)

\* What the copies are of: the front of the queue of clears, and no item that
\* was raised after they were taken.
Copies ==
    /\ Begins(inflight.clr)
    /\ pc # "idle" => Begins(drained.clr)
    /\ pc = "clears" => Items(resolving) \subseteq After(0)
    /\ pc \in {"idle", "clears"} => batch = <<>>
    /\ pc \in {"rules", "apply"} /\ ~stale => inflight \in {drained, Nothing}
    /\ pc # "idle" => Top <= raised /\ \A i \in applied \cup Items(batch) : i <= Top

\* Conditions that ended, and whose end was reported.
Quiet == Condition \ (failing \cup owed)

\* An occurrence of a condition that ended is followed by its clear, and the
\* two are not parted: if the occurrence stays queued the clear does.
Followed ==
    \A p \in 1..Len(occurrences) : LET c == about[occurrences[p]] IN
        c \in Quiet =>
            /\ c \in After(0)
            /\ p > Len(inflight.occ) => c \in After(Len(inflight.clr))
            /\ pc # "idle" /\ p > Len(drained.occ) - displaced =>
                   c \in After(Len(drained.clr))

\* A row of a condition that ended, or one about to be raised, has its clear
\* in the queue: among those still to resolve, or behind those handed out.
Ended ==
    \A c \in Quiet \ stuck :
        /\ c \in rows \cup Concerns(Items(batch)) => c \in After(0)
        /\ pc = "clears" /\ c \in rows \cup Waiting =>
               c \in Items(resolving) \cup After(Len(drained.clr))
        /\ pc \in {"rules", "apply"} /\ ~stale /\ c \in rows \cup Concerns(Items(batch)) =>
               c \in After(Len(inflight.clr))

\* Conditions that hold, were reported, and whose occurrence was not missed.
Reports == failing \ (owed \cup skipped)

\* A condition that holds has its last occurrence in the queue, or its row and
\* no clear that could take it.
Begun ==
    \A c \in Reports :
        \/ \E i \in Item : Latest(i) /\ about[i] = c
        \/ c \in rows /\ c \notin After(0)

\* An occurrence that is going to be removed is still to be applied or has its
\* row, and no clear behind the ones handed out is about its condition.
Delivered ==
    /\ pc \in {"rules", "apply"} /\ ~stale =>
           \A i \in Items(inflight.occ) : Latest(i) /\ about[i] \in Reports =>
               i \in Items(batch) \/ about[i] \in rows
    /\ pc # "idle" =>
           \A i \in Item : Latest(i) /\ about[i] \in failing \ owed
                           /\ about[i] \in After(Len(drained.clr)) => i > Top

Truth == Copies /\ Followed /\ Ended /\ Begun /\ Delivered
-----------------------------------------------------------------------------
(* The clears behind a cut.                                                *)

\* A later cut leaves fewer clears; none are before the first, none behind the
\* last.
LEMMA AfterCut ==
    ASSUME clears \in Seq(Condition)
    PROVE  /\ \A n \in Nat : After(n) \subseteq After(0)
           /\ After(0) = Items(clears) /\ After(Len(clears)) = {}
<1>1. Len(clears) \in Nat
  BY LenProperties
<1>2. \A n \in Nat : (n + 1)..Len(clears) \subseteq 1..Len(clears)
  BY <1>1
<1>3. (Len(clears) + 1)..Len(clears) = {} /\ (0 + 1)..Len(clears) = 1..Len(clears)
  BY <1>1
<1> QED
  BY <1>2, <1>3 DEF After, Items

\* A clear that is reported is behind every cut.
LEMMA AfterReport ==
    ASSUME clears \in Seq(Condition), NEW c \in Condition, clears' = Append(clears, c)
    PROVE  /\ \A n \in 0..Len(clears) : After(n)' = After(n) \cup {c}
           /\ \A q : Len(q) \in Nat /\ Begins(q) => Begins(q)'
<1>1. /\ Len(clears) \in Nat /\ Len(clears') = Len(clears) + 1
      /\ \A k \in 1..Len(clears) : clears'[k] = clears[k]
      /\ clears'[Len(clears) + 1] = c
  BY LenProperties, AppendProperties
<1>2. ASSUME NEW n \in 0..Len(clears) PROVE After(n)' = After(n) \cup {c}
  <2>1. /\ (n + 1)..Len(clears') = ((n + 1)..Len(clears)) \cup {Len(clears) + 1}
        /\ (n + 1)..Len(clears) \subseteq 1..Len(clears)
    BY <1>1
  <2> QED
    BY <1>1, <2>1 DEF After
<1>3. ASSUME NEW q, Len(q) \in Nat, Begins(q) PROVE Begins(q)'
  BY <1>1, <1>3 DEF Begins
<1> QED
  BY <1>2, <1>3

\* What the commit leaves of the clears is what was behind the copy, and the
\* copy was the rest.
LEMMA AfterDrop ==
    ASSUME clears \in Seq(Condition), NEW q \in Seq(Condition), Begins(q),
           clears' = DropFirst(clears, Len(q))
    PROVE  After(0)' = After(Len(q)) /\ After(0) \subseteq Items(q) \cup After(Len(q))
<1> DEFINE m == Len(q)
<1>1. m \in Nat /\ Len(clears) \in Nat /\ m <= Len(clears)
      /\ \A k \in 1..m : clears[k] = q[k]
  BY LenProperties DEF Begins
<1>2. /\ Len(clears') = Len(clears) - m
      /\ \A k \in 1..Len(clears') : clears'[k] = clears[m + k]
  BY <1>1, Dropped
<1> HIDE DEF m
<1>3. ASSUME NEW x \in After(0)' PROVE x \in After(m)
  <2>1. PICK k \in 1..Len(clears') : x = clears'[k]
    BY DEF After
  <2>2. m + k \in (m + 1)..Len(clears) /\ x = clears[m + k]
    BY <1>1, <1>2, <2>1
  <2> QED
    BY <2>2 DEF After
<1>4. ASSUME NEW x \in After(m) PROVE x \in After(0)'
  <2>1. PICK k \in (m + 1)..Len(clears) : x = clears[k]
    BY DEF After
  <2>2. k - m \in 1..Len(clears') /\ m + (k - m) = k
    BY <1>1, <1>2
  <2>3. x = clears'[k - m]
    BY <1>2, <2>1, <2>2
  <2> QED
    BY <2>2, <2>3 DEF After
<1>5. ASSUME NEW x \in After(0) PROVE x \in Items(q) \cup After(m)
  <2>1. PICK k \in 1..Len(clears) : x = clears[k]
    BY DEF After
  <2>2. k \in 1..m \/ k \in (m + 1)..Len(clears)
    BY <1>1
  <2> QED
    BY <1>1, <2>1, <2>2 DEF After, Items, m
<1> QED
  BY <1>3, <1>4, <1>5 DEF m

-----------------------------------------------------------------------------
(* The steps of the reporting threads.                                     *)

\* The lengths that the invariant compares are numbers.
LEMMA Lengths ==
    ASSUME TypeOK
    PROVE  /\ Len(occurrences) \in Nat /\ Len(clears) \in Nat
           /\ Len(inflight.occ) \in Nat /\ Len(inflight.clr) \in Nat
           /\ Len(drained.occ) \in Nat /\ Len(drained.clr) \in Nat
           /\ raised \in Nat /\ displaced \in Nat
           /\ Items(occurrences) \subseteq Item /\ Items(batch) \subseteq Item
           /\ Items(drained.occ) \subseteq Item /\ Items(inflight.occ) \subseteq Item
<1>1. /\ occurrences \in Seq(Item) /\ clears \in Seq(Condition) /\ batch \in Seq(Item)
      /\ inflight.occ \in Seq(Item) /\ inflight.clr \in Seq(Condition)
      /\ drained.occ \in Seq(Item) /\ drained.clr \in Seq(Condition)
  BY DEF TypeOK, Copy
<1> QED
  BY <1>1, ItemsType, LenProperties DEF TypeOK

\* A condition that changes is neither settled as holding nor as ended before
\* its report.
LEMMA TruthFlip ==
    ASSUME Inv, Truth, NEW c \in Condition, Flip(c)
    PROVE  Truth'
<1> USE DEF workers, queues, tick, ghosts
<1>1. /\ UNCHANGED <<raised, about, occurrences, clears, pc, batch, resolving, drained,
                     inflight, rows, applied, skipped, stuck, displaced, stale>>
      /\ owed' = owed \cup {c} /\ failing' \ {c} = failing \ {c} /\ c \notin owed
  BY DEF Flip
<1>2. /\ Quiet' \subseteq Quiet /\ Reports' \subseteq Reports
      /\ failing' \ owed' \subseteq failing \ owed
  BY <1>1 DEF Quiet, Reports
<1>3. Copies'
  BY <1>1 DEF Truth, Copies, Begins, After, Top
<1>4. Followed'
  BY <1>1, <1>2 DEF Truth, Followed, After
<1>5. Ended'
  BY <1>1, <1>2 DEF Truth, Ended, After, Concerns, Waiting
<1>6. (\A i : Latest(i)' <=> Latest(i)) /\ Item' = Item
  BY <1>1 DEF Latest, Item
<1>7. Begun'
  BY <1>1, <1>2, <1>6 DEF Truth, Begun, After
<1>8. Delivered'
  BY <1>1, <1>2, <1>6 DEF Truth, Delivered, Top, After
<1> QED
  BY <1>3, <1>4, <1>5, <1>7, <1>8 DEF Truth

\* A clear that is reported goes behind every occurrence of its condition and
\* behind every copy.
LEMMA TruthClear ==
    ASSUME Inv, Truth, NEW c \in Condition, ClearSystemOccurrence(c)
    PROVE  Truth'
<1> USE DEF workers, queues, tick, ghosts
<1>1. /\ UNCHANGED <<failing, raised, about, occurrences, pc, batch, resolving, drained,
                     inflight, rows, applied, skipped, stuck, displaced, stale>>
      /\ owed' = owed \ {c} /\ c \notin failing /\ clears' = Append(clears, c)
  BY DEF ClearSystemOccurrence
<1>2. Quiet' = Quiet \cup {c} /\ Reports' = Reports /\ failing' \ owed' = failing \ owed
  BY <1>1 DEF Quiet, Reports
<1>3. /\ \A n \in 0..Len(clears) : After(n)' = After(n) \cup {c}
      /\ \A q : Len(q) \in Nat /\ Begins(q) => Begins(q)'
  BY <1>1, AfterReport DEF Inv, TypeOK
<1>4. /\ Len(inflight.clr) \in 0..Len(clears)
      /\ pc # "idle" => Len(drained.clr) \in 0..Len(clears)
      /\ 0 \in 0..Len(clears)
  BY Lengths DEF Inv, Truth, Copies, Begins
<1>5. /\ After(0)' = After(0) \cup {c}
      /\ After(Len(inflight.clr))' = After(Len(inflight.clr)) \cup {c}
      /\ pc # "idle" => After(Len(drained.clr))' = After(Len(drained.clr)) \cup {c}
  BY <1>1, <1>3, <1>4 DEF After
<1>6. Copies'
  <2>1. Begins(inflight.clr)' /\ (pc # "idle" => Begins(drained.clr)')
    BY <1>1, <1>3, Lengths DEF Truth, Copies, Inv, Begins
  <2> QED
    BY <1>1, <1>5, <2>1 DEF Truth, Copies, Top
<1>7. Followed'
  BY <1>1, <1>2, <1>5 DEF Truth, Followed
<1>8. Ended'
  BY <1>1, <1>2, <1>5 DEF Truth, Ended, Concerns, Waiting
<1>9. (\A i : Latest(i)' <=> Latest(i)) /\ Item' = Item /\ c \notin Reports
      /\ Top' = Top
  BY <1>1 DEF Latest, Item, Reports, Top
<1>10. Begun'
  BY <1>1, <1>2, <1>5, <1>9 DEF Truth, Begun
<1>11. Delivered'
  BY <1>1, <1>2, <1>5, <1>9 DEF Truth, Delivered
<1> QED
  BY <1>6, <1>7, <1>8, <1>10, <1>11 DEF Truth

\* What a report does to the queue, place by place: everything moves up by one
\* if the queue was full, and so do the copies; what made room is missed.
LEMMA ReportPlaces ==
    ASSUME Inv, NEW c \in Condition, SystemOccurrence(c)
    PROVE  \E s \in {0, 1} :
              /\ Len(occurrences') = Len(occurrences) + 1 - s
              /\ occurrences'[Len(occurrences')] = raised + 1
              /\ \A p \in 1..(Len(occurrences') - 1) :
                     p + s \in 1..Len(occurrences) /\ occurrences'[p] = occurrences[p + s]
              /\ \A k \in (1 + s)..Len(occurrences) :
                     k - s \in 1..Len(occurrences') /\ occurrences'[k - s] = occurrences[k]
              /\ s = 1 => skipped' = skipped \cup Concerns({occurrences[1]})
              /\ s = 0 => skipped' = skipped
              /\ pc # "idle" => displaced' = displaced + s
              /\ Len(occurrences') > 0
<1> DEFINE q == Append(occurrences, raised + 1)
           s == IF Len(occurrences) = Cap THEN 1 ELSE 0
<1>1. /\ raised \in Nat /\ Cap \in Nat /\ Cap > 0 /\ displaced \in Nat
      /\ Len(occurrences) \in 0..Cap
      /\ raised' = raised + 1 /\ occurrences' = Trim(q)
  BY BoundAssumption, Reported DEF SystemOccurrence, TypeOK, Inv
<1>2. /\ Len(Trim(q)) = IF Len(occurrences) = Cap THEN Cap ELSE Len(occurrences) + 1
      /\ Len(q) > Cap <=> Len(occurrences) = Cap
      /\ \A p \in 1..Len(Trim(q)) : Trim(q)[p] = raised + 1 - Len(Trim(q)) + p
  BY Trimmed DEF Inv
<1>3. \A p \in 1..Len(occurrences) : occurrences[p] = raised - Len(occurrences) + p
  BY DEF Inv, Newest
<1>4. Len(occurrences) = Cap => Head(q) = occurrences[1]
  <2>1. /\ q \in Seq(1..(raised + 1)) /\ Len(q) = Len(occurrences) + 1
        /\ \A i \in 1..Len(occurrences) : q[i] = occurrences[i]
    BY Reported DEF Inv
  <2>2. Head(q) = q[1]
    BY <1>1, <2>1
  <2> QED
    BY <1>1, <2>1, <2>2
<1>5. /\ s = 1 => skipped' = skipped \cup Concerns({occurrences[1]})
      /\ s = 0 => skipped' = skipped
      /\ pc # "idle" => displaced' = displaced + s
  <2>0. IF Len(q) > Cap
        THEN /\ skipped' = skipped \cup Concerns({Head(q)})
             /\ displaced' = IF pc = "idle" THEN displaced ELSE displaced + 1
        ELSE skipped' = skipped /\ displaced' = displaced
    BY DEF SystemOccurrence
  <2> HIDE DEF q
  <2>1. CASE Len(occurrences) = Cap
    <3>1. skipped' = skipped \cup Concerns({occurrences[1]})
      BY <1>2, <1>4, <2>0, <2>1
    <3> QED
      BY <1>2, <2>0, <2>1, <3>1
  <2>2. CASE Len(occurrences) # Cap
    BY <1>1, <1>2, <2>0, <2>2
  <2> QED
    BY <2>1, <2>2
<1> HIDE DEF q
<1>6. /\ s \in {0, 1} /\ Len(occurrences') = Len(occurrences) + 1 - s
      /\ Len(occurrences') > 0
  BY <1>1, <1>2
<1> HIDE DEF s
<1>7. ASSUME NEW p \in 1..Len(occurrences')
      PROVE  occurrences'[p] = raised + s - Len(occurrences) + p
  <2>1. occurrences'[p] = raised + 1 - Len(occurrences') + p
    BY <1>1, <1>2, Zenon
  <2> QED
    BY <1>1, <1>6, <2>1
<1>8. occurrences'[Len(occurrences')] = raised + 1
  BY <1>1, <1>6, <1>7
<1>9. ASSUME NEW p \in 1..(Len(occurrences') - 1)
      PROVE  p + s \in 1..Len(occurrences) /\ occurrences'[p] = occurrences[p + s]
  BY <1>1, <1>3, <1>6, <1>7
<1>10. ASSUME NEW k \in (1 + s)..Len(occurrences)
       PROVE  k - s \in 1..Len(occurrences') /\ occurrences'[k - s] = occurrences[k]
  <2>1. k - s \in 1..Len(occurrences') /\ k \in 1..Len(occurrences)
    BY <1>1, <1>6
  <2>2. /\ occurrences'[k - s] = raised + s - Len(occurrences) + (k - s)
        /\ occurrences[k] = raised - Len(occurrences) + k
    BY <1>3, <1>7, <2>1
  <2> QED
    BY <1>1, <1>6, <2>1, <2>2
<1> QED
  BY <1>5, <1>6, <1>8, <1>9, <1>10

\* A report is the latest of its condition; of the other conditions the latest
\* occurrence stays, unless it made room.
LEMMA ReportLatest ==
    ASSUME Inv, NEW c \in Condition, SystemOccurrence(c)
    PROVE  /\ \A i \in Item : i # raised + 1 /\ about'[i] = about[i]
           /\ about'[raised + 1] = c /\ \A n : n = raised + 1 => Latest(n)'
           /\ Item' = Item \cup {raised + 1}
           /\ \A i \in Item : Latest(i)' => Latest(i) /\ about[i] # c
           /\ \A i \in Item : Latest(i) /\ about[i] # c => Latest(i)' \/ about[i] \in skipped'
<1>1. PICK s \in {0, 1} :
              /\ Len(occurrences') = Len(occurrences) + 1 - s
              /\ occurrences'[Len(occurrences')] = raised + 1
              /\ \A p \in 1..(Len(occurrences') - 1) :
                     p + s \in 1..Len(occurrences) /\ occurrences'[p] = occurrences[p + s]
              /\ \A k \in (1 + s)..Len(occurrences) :
                     k - s \in 1..Len(occurrences') /\ occurrences'[k - s] = occurrences[k]
              /\ s = 1 => skipped' = skipped \cup Concerns({occurrences[1]})
              /\ Len(occurrences') > 0
  BY ReportPlaces
<1>2. /\ raised \in Nat /\ raised' = raised + 1 /\ about' = Append(about, c)
      /\ about \in Seq(Condition) /\ Len(about) = raised /\ Len(occurrences) \in Nat
  BY Lengths DEF SystemOccurrence, Inv, TypeOK
<1>3. Item = 1..raised /\ Item' = 1..(raised + 1)
  BY <1>2 DEF Item
<1>4. /\ \A i \in Item : i # raised + 1 /\ about'[i] = about[i]
      /\ about'[raised + 1] = c
  BY <1>2, <1>3, AppendProperties
<1>5. Item' = Item \cup {raised + 1}
  BY <1>2, <1>3
<1>6. ASSUME NEW n, n = raised + 1 PROVE Latest(n)'
  <2>1. Len(occurrences') \in 1..Len(occurrences')
    BY <1>1, <1>2
  <2>2. n \in Items(occurrences')
    BY <1>1, <1>6, <2>1 DEF Items
  <2>3. (n + 1)..raised' = {}
    BY <1>2, <1>6
  <2> QED
    BY <2>2, <2>3 DEF Latest
<1>7. ASSUME NEW i \in Item, Latest(i)' PROVE Latest(i) /\ about[i] # c
  <2>1. /\ i \in Items(occurrences')
        /\ \A j \in (i + 1)..(raised + 1) : about'[j] # about'[i]
    BY <1>2, <1>7 DEF Latest
  <2>2. PICK p \in 1..Len(occurrences') : occurrences'[p] = i
    BY <2>1 DEF Items
  <2>3. p \in 1..(Len(occurrences') - 1)
    BY <1>1, <1>2, <1>4, <2>2
  <2>4. i \in Items(occurrences)
    BY <1>1, <2>2, <2>3 DEF Items
  <2>5. about[i] # c
    <3>1. raised + 1 \in (i + 1)..(raised + 1)
      BY <1>2, <1>3
    <3> QED
      BY <1>4, <2>1, <3>1
  <2>6. ASSUME NEW j \in (i + 1)..raised PROVE about[j] # about[i]
    <3>1. j \in Item /\ j \in (i + 1)..(raised + 1)
      BY <1>2, <1>3
    <3> QED
      BY <1>4, <2>1, <3>1
  <2> QED
    BY <2>4, <2>5, <2>6 DEF Latest
<1>8. ASSUME NEW i \in Item, Latest(i), about[i] # c
      PROVE  Latest(i)' \/ about[i] \in skipped'
  <2>1. PICK k \in 1..Len(occurrences) : occurrences[k] = i
    BY <1>8 DEF Latest, Items
  <2>2. CASE k = 1 /\ s = 1
    BY <1>1, <2>1, <2>2 DEF Concerns
  <2>3. CASE k # 1 \/ s # 1
    <3>1. k \in (1 + s)..Len(occurrences)
      BY <1>1, <1>2, <2>3
    <3>2. i \in Items(occurrences')
      BY <1>1, <2>1, <3>1 DEF Items
    <3>3. ASSUME NEW j \in (i + 1)..(raised + 1) PROVE about'[j] # about'[i]
      <4>1. j \in (i + 1)..raised \/ j = raised + 1
        BY <1>2, <1>3
      <4>2. j \in (i + 1)..raised => j \in Item
        BY <1>2, <1>3
      <4> QED
        BY <1>4, <1>8, <4>1, <4>2 DEF Latest
    <3> QED
      BY <1>2, <3>2, <3>3 DEF Latest
  <2> QED
    BY <2>2, <2>3
<1> QED
  BY <1>4, <1>5, <1>6, <1>7, <1>8

\* A report is about a condition that holds; it finds its place behind what
\* was handed out and costs the queue at most its first.
LEMMA TruthReport ==
    ASSUME Inv, Truth, NEW c \in Condition, SystemOccurrence(c)
    PROVE  Truth'
<1> USE DEF workers, queues, tick, ghosts
<1>1. /\ UNCHANGED <<failing, clears, pc, batch, resolving, drained, inflight, rows,
                     applied, stuck, stale>>
      /\ raised' = raised + 1 /\ owed' = owed \ {c} /\ c \in failing
  BY DEF SystemOccurrence
<1>2. PICK s \in {0, 1} :
              /\ Len(occurrences') = Len(occurrences) + 1 - s
              /\ occurrences'[Len(occurrences')] = raised + 1
              /\ \A p \in 1..(Len(occurrences') - 1) :
                     p + s \in 1..Len(occurrences) /\ occurrences'[p] = occurrences[p + s]
              /\ s = 1 => skipped' = skipped \cup Concerns({occurrences[1]})
              /\ s = 0 => skipped' = skipped
              /\ pc # "idle" => displaced' = displaced + s
              /\ Len(occurrences') > 0
  BY ReportPlaces
<1>3. /\ \A i \in Item : i # raised + 1 /\ about'[i] = about[i]
      /\ about'[raised + 1] = c /\ \A n : n = raised + 1 => Latest(n)'
      /\ Item' = Item \cup {raised + 1}
      /\ \A i \in Item : Latest(i)' => Latest(i) /\ about[i] # c
      /\ \A i \in Item : Latest(i) /\ about[i] # c => Latest(i)' \/ about[i] \in skipped'
  BY ReportLatest
<1>4. /\ Len(occurrences) \in Nat /\ Len(clears) \in Nat
      /\ Len(inflight.occ) \in Nat /\ Len(inflight.clr) \in Nat
      /\ Len(drained.occ) \in Nat /\ Len(drained.clr) \in Nat
      /\ raised \in Nat /\ displaced \in Nat
      /\ Items(occurrences) \subseteq Item /\ Items(batch) \subseteq Item
      /\ Items(drained.occ) \subseteq Item /\ Items(inflight.occ) \subseteq Item
  BY Lengths DEF Inv
<1>5. Quiet' = Quiet /\ c \notin Quiet /\ \A n : After(n)' = After(n)
  BY <1>1 DEF Quiet, After
<1>6. \A items \in SUBSET Item : Concerns(items)' = Concerns(items)
  BY <1>3 DEF Concerns
<1>7. ASSUME pc # "idle" PROVE Top' = Top
  <2>1. /\ displaced' = displaced + s /\ drained' = drained
        /\ Len(occurrences') = Len(occurrences) + 1 - s
    BY <1>1, <1>2, <1>7
  <2>2. /\ raised' = raised + 1 /\ s \in Int /\ raised \in Int /\ displaced \in Int
        /\ Len(occurrences) \in Int
    BY <1>1, <1>4
  <2>3. raised' - Len(occurrences') - displaced' = raised - Len(occurrences) - displaced
    BY <2>1, <2>2
  <2>4. Len(drained.occ)' = Len(drained.occ)
    BY <2>1
  <2> QED
    BY <2>3, <2>4 DEF Top
<1>8. /\ Reports' \subseteq Reports \cup {c}
      /\ failing' \ owed' = (failing \ owed) \cup {c}
  BY <1>1, <1>2 DEF Reports
<1>9. Copies'
  <2>1. pc # "idle" => Top' <= raised'
    <3>1. ASSUME pc # "idle" PROVE Top' <= raised'
      <4>1. Top <= raised /\ Top' = Top /\ Top \in Int
        BY <1>4, <1>7, <3>1 DEF Truth, Copies, Top
      <4> QED
        BY <1>1, <1>4, <4>1
    <3> QED
      BY <3>1
  <2>2. pc # "idle" => \A i \in applied' \cup Items(batch') : i <= Top'
    BY <1>1, <1>7 DEF Truth, Copies
  <2> QED
    BY <1>1, <1>5, <2>1, <2>2 DEF Truth, Copies, Begins
<1>10. Followed'
  <2>1. ASSUME NEW p \in 1..Len(occurrences'), about'[occurrences'[p]] \in Quiet'
        PROVE  /\ about'[occurrences'[p]] \in After(0)'
               /\ p > Len(inflight'.occ) => about'[occurrences'[p]] \in After(Len(inflight.clr))'
               /\ pc' # "idle" /\ p > Len(drained'.occ) - displaced' =>
                      about'[occurrences'[p]] \in After(Len(drained.clr))'
    <3>1. p \in 1..(Len(occurrences') - 1)
      BY <1>2, <1>3, <1>4, <1>5, <2>1
    <3>2. p + s \in 1..Len(occurrences) /\ occurrences'[p] = occurrences[p + s]
      BY <1>2, <3>1
    <3>3. occurrences[p + s] \in Item
      BY <1>4, <3>2 DEF Items
    <3>4. about'[occurrences'[p]] = about[occurrences[p + s]]
      BY <1>3, <3>2, <3>3
    <3>5. /\ p > Len(inflight.occ) => p + s > Len(inflight.occ)
          /\ pc # "idle" /\ p > Len(drained.occ) - displaced' =>
                 p + s > Len(drained.occ) - displaced
      <4>1. /\ p \in Int /\ s \in Int /\ s >= 0 /\ displaced \in Int
            /\ Len(inflight.occ) \in Int /\ Len(drained.occ) \in Int
            /\ pc # "idle" => displaced' = displaced + s
        BY <1>2, <1>4
      <4> QED
        BY <4>1
    <3>6. about[occurrences[p + s]] \in Quiet
      BY <1>5, <2>1, <3>4
    <3>7. /\ about[occurrences[p + s]] \in After(0)
          /\ p + s > Len(inflight.occ) =>
                 about[occurrences[p + s]] \in After(Len(inflight.clr))
          /\ pc # "idle" /\ p + s > Len(drained.occ) - displaced =>
                 about[occurrences[p + s]] \in After(Len(drained.clr))
      BY <3>2, <3>6 DEF Truth, Followed
    <3>8. /\ After(0)' = After(0) /\ After(Len(inflight.clr))' = After(Len(inflight.clr))
          /\ After(Len(drained.clr))' = After(Len(drained.clr))
          /\ UNCHANGED <<inflight, drained, pc>>
      BY <1>1 DEF After
    <3> QED
      BY <3>4, <3>5, <3>7, <3>8
  <2> QED
    BY <2>1 DEF Followed
<1>11. Ended'
  <2>1. Concerns(Items(batch))' = Concerns(Items(batch)) /\ Waiting' = Waiting
    BY <1>1, <1>4, <1>6 DEF Waiting
  <2> QED
    BY <1>1, <1>5, <2>1 DEF Truth, Ended
<1>12. Begun'
  <2>1. ASSUME NEW d \in Reports', d # c
        PROVE  (\E i \in Item' : Latest(i)' /\ about'[i] = d) \/ (d \in rows' /\ d \notin After(0)')
    <3>1. d \in Reports /\ d \notin skipped'
      BY <1>8, <2>1 DEF Reports
    <3>2. CASE d \in rows /\ d \notin After(0)
      BY <1>1, <1>5, <3>2
    <3>3. CASE \E i \in Item : Latest(i) /\ about[i] = d
      BY <1>3, <2>1, <3>1, <3>3
    <3> QED
      BY <3>1, <3>2, <3>3 DEF Truth, Begun
  <2>2. \E i \in Item' : Latest(i)' /\ about'[i] = c
    <3>1. raised + 1 \in Item' /\ about'[raised + 1] = c
      BY <1>3
    <3> QED
      BY <1>3, <3>1, Zenon
  <2> QED
    BY <2>1, <2>2 DEF Begun
<1>13. Delivered'
  <2>1. ASSUME pc \in {"rules", "apply"}, ~stale, NEW i \in Items(inflight.occ),
               Latest(i)', about'[i] \in Reports'
        PROVE  i \in Items(batch) \/ about'[i] \in rows
    <3>1. i \in Item /\ Latest(i) /\ about[i] # c /\ about'[i] = about[i]
      BY <1>3, <1>4, <2>1
    <3> QED
      BY <1>8, <2>1, <3>1 DEF Truth, Delivered
  <2>2. ASSUME pc # "idle", NEW i \in Item', Latest(i)', about'[i] \in failing' \ owed',
               about'[i] \in After(Len(drained.clr))
        PROVE  i > Top
    <3>1. CASE i = raised + 1
      <4>1. Top <= raised /\ Top \in Int
        BY <1>4, <2>2 DEF Truth, Copies, Top
      <4> QED
        BY <1>4, <3>1, <4>1
    <3>2. CASE i \in Item
      BY <1>3, <1>8, <2>2, <3>2 DEF Truth, Delivered
    <3> QED
      BY <1>3, <3>1, <3>2
  <2> QED
    BY <1>1, <1>5, <1>7, <2>1, <2>2 DEF Delivered
<1> QED
  BY <1>9, <1>10, <1>11, <1>12, <1>13 DEF Truth

-----------------------------------------------------------------------------
(* The steps of the tick.                                                  *)

\* A step that moves no item and no clear leaves what is read from them.
LEMMA QueuesRest ==
    ASSUME UNCHANGED <<workers, queues>>
    PROVE  /\ Quiet' = Quiet /\ Item' = Item /\ failing' \ owed' = failing \ owed
           /\ \A n : After(n)' = After(n)
           /\ \A i : Latest(i)' <=> Latest(i)
           /\ \A items : Concerns(items)' = Concerns(items)
           /\ \A q : Begins(q)' <=> Begins(q)
  BY DEF workers, queues, Quiet, Item, After, Latest, Concerns, Begins

\* Both queues are handed out as they are.
LEMMA TruthDrain ==
    ASSUME Inv, Truth, Drain
    PROVE  Truth'
<1>1. /\ UNCHANGED <<workers, queues, batch, inflight, rows, ghosts>>
      /\ pc = "idle" /\ pc' = "clears" /\ resolving' = clears
      /\ drained'.occ = occurrences /\ drained'.clr = clears
  BY DEF Drain
<1>2. /\ Quiet' = Quiet /\ Item' = Item /\ \A n : After(n)' = After(n)
      /\ \A i : Latest(i)' <=> Latest(i)
      /\ \A items : Concerns(items)' = Concerns(items)
      /\ \A q : Begins(q)' <=> Begins(q)
  BY <1>1, QueuesRest
<1>3. /\ After(0) = Items(clears) /\ After(Len(clears)) = {}
      /\ raised \in Nat /\ Len(occurrences) \in Nat /\ Len(clears) \in Nat
      /\ displaced = 0
  BY <1>1, AfterCut, Lengths DEF Inv, TypeOK, AtRest
<1>4. Copies'
  <2>1. Begins(clears)
    BY <1>3 DEF Begins
  <2>2. Top' = raised
    BY <1>1, <1>3 DEF Top, workers, queues, ghosts
  <2>3. \A i \in applied' \cup Items(batch') : i <= raised
    <3>1. applied' = applied /\ batch' = batch /\ applied \subseteq Item
          /\ Items(batch) \subseteq Item
      BY <1>1, Lengths DEF Inv, TypeOK, ghosts
    <3> QED
      BY <1>3, <3>1 DEF Item
  <2>4. drained'.clr = clears /\ raised' = raised /\ raised <= raised
    BY <1>1, <1>3 DEF workers
  <2> QED
    BY <1>1, <1>2, <1>3, <2>1, <2>2, <2>3, <2>4 DEF Truth, Copies
<1>5. Followed'
  <2>1. \A p \in 1..Len(occurrences) : ~(p > Len(occurrences) - 0)
    BY <1>3
  <2> QED
    BY <1>1, <1>2, <1>3, <2>1 DEF Truth, Followed, workers, queues, ghosts
<1>6. Ended'
  <2>1. ASSUME NEW c \in Quiet \ stuck, c \in rows \cup Concerns(Items(occurrences))
        PROVE  c \in After(0)
    <3>1. CASE c \in rows
      BY <2>1, <3>1 DEF Truth, Ended
    <3>2. CASE c \in Concerns(Items(occurrences))
      <4>1. PICK p \in 1..Len(occurrences) : c = about[occurrences[p]]
        BY <3>2 DEF Concerns, Items
      <4> QED
        BY <2>1, <4>1 DEF Truth, Followed
    <3> QED
      BY <2>1, <3>1, <3>2
  <2>2. Waiting' = Concerns(Items(occurrences))
    BY <1>1, <1>2 DEF Waiting
  <2>3. /\ stuck' = stuck /\ rows' = rows /\ batch' = batch
        /\ Items(resolving') = After(0)
    BY <1>1, <1>3 DEF ghosts
  <2> QED
    BY <1>1, <1>2, <2>1, <2>2, <2>3 DEF Truth, Ended
<1>7. Begun'
  BY <1>1, <1>2 DEF Truth, Begun, Reports, workers, ghosts
<1>8. Delivered'
  <2>1. After(Len(drained.clr))' = {}
    BY <1>1, <1>2, <1>3
  <2> QED
    BY <1>1, <2>1 DEF Delivered
<1> QED
  BY <1>4, <1>5, <1>6, <1>7, <1>8 DEF Truth

\* Resolving a clear takes the row of its condition; the row of one whose
\* occurrence waits in the same copy comes back and is counted as missed.
LEMMA TruthResolve ==
    ASSUME Inv, Truth, ResolveClear
    PROVE  Truth'
<1> DEFINE h == Head(resolving)
<1>1. /\ UNCHANGED <<workers, queues, pc, batch, drained, inflight, applied, skipped,
                     displaced, stale>>
      /\ pc = "clears" /\ rows' = rows \ {h}
      /\ stuck' = IF h \in Waiting THEN stuck \cup {h} ELSE stuck \ {h}
      /\ resolving' = Tail(resolving) /\ resolving # <<>>
  BY DEF ResolveClear
<1>2. /\ Quiet' = Quiet /\ Item' = Item /\ \A n : After(n)' = After(n)
      /\ \A i : Latest(i)' <=> Latest(i)
      /\ \A items : Concerns(items)' = Concerns(items)
      /\ \A q : Begins(q)' <=> Begins(q)
  BY <1>1, QueuesRest
<1>3. /\ Items(resolving) \subseteq {h} \cup Items(resolving')
      /\ Items(resolving') \subseteq Items(resolving) /\ h \in Items(resolving)
  <2>1. resolving \in Seq(Condition) /\ resolving # <<>>
    BY <1>1 DEF Inv, TypeOK
  <2>2. /\ Len(resolving) \in Nat /\ Len(resolving) > 0 /\ h = resolving[1]
        /\ Len(Tail(resolving)) = Len(resolving) - 1
        /\ \A i \in 1..Len(Tail(resolving)) : Tail(resolving)[i] = resolving[i + 1]
    BY <2>1, LenProperties, HeadTailProperties
  <2>3. h \in Items(resolving)
    BY <2>2 DEF Items
  <2>4. ASSUME NEW i \in 1..Len(Tail(resolving))
        PROVE  Tail(resolving)[i] \in Items(resolving)
    <3>1. i + 1 \in 1..Len(resolving) /\ Tail(resolving)[i] = resolving[i + 1]
      BY <2>2
    <3> QED
      BY <3>1 DEF Items
  <2> QED
    BY <1>1, <2>1, <2>3, <2>4, HeadLeaves DEF Items
<1> HIDE DEF h
<1>4. Items(resolving) \subseteq After(0) /\ batch = <<>> /\ Items(batch) = {}
  BY <1>1, NoItems DEF Truth, Copies
<1>5. Copies'
  BY <1>1, <1>2, <1>3 DEF Truth, Copies, Top, workers, queues
<1>6. Followed'
  BY <1>1, <1>2 DEF Truth, Followed, workers, queues
<1>7. Ended'
  <2>1. Concerns(Items(batch)) = {}
    BY <1>4 DEF Concerns
  <2>2. Waiting' = Waiting
    BY <1>1, <1>2 DEF Waiting
  <2>3. ASSUME NEW c \in Quiet \ stuck', c \in rows' \cup Waiting
        PROVE  c # h /\ c \in Quiet \ stuck /\ c \in rows \cup Waiting
    BY <1>1, <2>3
  <2> QED
    BY <1>1, <1>2, <1>3, <2>1, <2>2, <2>3 DEF Truth, Ended
<1>8. Begun'
  <2>1. h \in After(0)
    BY <1>3, <1>4
  <2> QED
    BY <1>1, <1>2, <2>1 DEF Truth, Begun, Reports, workers
<1>9. Delivered'
  BY <1>1, <1>2 DEF Truth, Delivered, Top, workers, queues
<1> QED
  BY <1>5, <1>6, <1>7, <1>8, <1>9 DEF Truth

\* The copies are in flight once every clear is resolved.
LEMMA TruthClearsDone ==
    ASSUME Inv, Truth, ClearsDone
    PROVE  Truth'
<1>1. /\ UNCHANGED <<workers, queues, resolving, drained, rows, ghosts>>
      /\ pc = "clears" /\ pc' = "rules" /\ resolving = <<>>
      /\ inflight' = drained /\ batch' = drained.occ
  BY DEF ClearsDone
<1>2. /\ Quiet' = Quiet /\ Item' = Item /\ \A n : After(n)' = After(n)
      /\ failing' \ owed' = failing \ owed
      /\ \A i : Latest(i)' <=> Latest(i)
      /\ \A items : Concerns(items)' = Concerns(items)
      /\ \A q : Begins(q)' <=> Begins(q)
  BY <1>1, QueuesRest
<1>3. /\ Len(occurrences) \in Nat /\ Len(drained.occ) \in Nat /\ Len(drained.clr) \in Nat
      /\ raised \in Nat /\ displaced \in Nat
      /\ \A n \in Nat : After(n) \subseteq After(0)
  BY Lengths, AfterCut DEF Inv, TypeOK
<1>4. Top' = Top
  BY <1>1 DEF Top, workers, queues, ghosts
<1>5. Copies'
  <2>1. ASSUME NEW i \in Items(drained.occ) PROVE i <= Top
    <3>1. PICK j \in 1..Len(drained.occ) : i = drained.occ[j]
      BY DEF Items
    <3>2. i = raised - Len(occurrences) - displaced + j
      BY <1>1, <3>1 DEF Inv, Handed, Aligned
    <3> QED
      BY <1>3, <3>1, <3>2 DEF Top
  <2> QED
    BY <1>1, <1>2, <1>4, <2>1 DEF Truth, Copies, workers, ghosts
<1>6. Followed'
  <2>1. \A p \in 1..Len(occurrences) :
            p > Len(drained.occ) => p > Len(drained.occ) - displaced
    BY <1>3
  <2> QED
    BY <1>1, <1>2, <2>1 DEF Truth, Followed, workers, queues, ghosts
<1>7. Ended'
  <2>1. Concerns(Items(batch))' = Waiting /\ Items(resolving) = {}
    BY <1>1, <1>2, NoItems DEF Waiting
  <2>2. \A c \in Quiet \ stuck : c \in rows \cup Waiting =>
            c \in After(Len(drained.clr)) /\ c \in After(0)
    BY <1>1, <1>3, <2>1 DEF Truth, Ended
  <2> QED
    BY <1>1, <1>2, <2>1, <2>2 DEF Ended, ghosts
<1>8. Begun'
  BY <1>1, <1>2 DEF Truth, Begun, Reports, workers, ghosts
<1>9. Delivered'
  BY <1>1, <1>2, <1>4 DEF Truth, Delivered, workers
<1> QED
  BY <1>5, <1>6, <1>7, <1>8, <1>9 DEF Truth

\* A drain that raises hands over nothing; what is in flight is not its own.
LEMMA TruthDrainRaises ==
    ASSUME Inv, Truth, DrainRaises
    PROVE  Truth'
<1>1. /\ UNCHANGED <<workers, queues, drained, inflight, rows, applied, skipped, stuck,
                     displaced>>
      /\ pc = "clears" /\ pc' = "rules" /\ batch' = <<>>
      /\ stale' = (inflight # Nothing)
  BY DEF DrainRaises
<1>2. /\ Quiet' = Quiet /\ Item' = Item /\ \A n : After(n)' = After(n)
      /\ failing' \ owed' = failing \ owed
      /\ \A i : Latest(i)' <=> Latest(i)
      /\ \A items : Concerns(items)' = Concerns(items)
      /\ \A q : Begins(q)' <=> Begins(q)
  BY <1>1, QueuesRest
<1>3. Items(batch') = {} /\ Concerns(Items(batch))' = {}
  BY <1>1, NoItems DEF Concerns
<1>4. ASSUME ~stale'
      PROVE  inflight = Nothing /\ Len(inflight.clr) = 0 /\ Items(inflight.occ) = {}
  <2>1. inflight = Nothing
    BY <1>1, <1>4, Zenon
  <2> QED
    BY <2>1, NoItems DEF Nothing
<1>5. Copies'
  <2>1. Top' = Top
    BY <1>1 DEF Top, workers, queues
  <2> QED
    BY <1>1, <1>2, <1>3, <1>4, <2>1 DEF Truth, Copies, workers
<1>6. Followed'
  BY <1>1, <1>2 DEF Truth, Followed, workers, queues
<1>7. Ended'
  BY <1>1, <1>2, <1>3, <1>4 DEF Truth, Ended
<1>8. Begun'
  BY <1>1, <1>2 DEF Truth, Begun, Reports, workers
<1>9. Delivered'
  <2>1. Top' = Top
    BY <1>1 DEF Top, workers, queues
  <2> QED
    BY <1>1, <1>2, <1>4, <2>1 DEF Truth, Delivered, workers
<1> QED
  BY <1>5, <1>6, <1>7, <1>8, <1>9 DEF Truth

\* A tick that ends without the commit has changed nothing of the queues.
LEMMA TruthAborts ==
    ASSUME Inv, Truth, TickAborts
    PROVE  Truth'
<1>1. /\ UNCHANGED <<workers, queues, inflight, rows, applied, skipped, stuck>>
      /\ pc' = "idle" /\ batch' = <<>>
  BY DEF TickAborts
<1>2. /\ Quiet' = Quiet /\ Item' = Item /\ \A n : After(n)' = After(n)
      /\ \A i : Latest(i)' <=> Latest(i)
      /\ \A q : Begins(q)' <=> Begins(q)
  BY <1>1, QueuesRest
<1>3. Items(batch') = {} /\ Concerns(Items(batch))' = {}
  BY <1>1, NoItems DEF Concerns
<1>4. Copies' /\ Delivered'
  BY <1>1, <1>2 DEF Truth, Copies, Delivered
<1>5. Followed'
  BY <1>1, <1>2 DEF Truth, Followed, workers, queues
<1>6. Ended'
  BY <1>1, <1>2, <1>3 DEF Truth, Ended
<1>7. Begun'
  BY <1>1, <1>2 DEF Truth, Begun, Reports, workers
<1> QED
  BY <1>4, <1>5, <1>6, <1>7 DEF Truth

\* The operator's steps leave the queues alone: a row that is taken away owes
\* nothing any more, and its condition is missed.
LEMMA TruthOperator ==
    ASSUME Inv, Truth, NEW c \in Condition, Operator(c)
    PROVE  Truth'
<1>1. /\ UNCHANGED <<workers, queues, pc, tick, inflight, applied, stuck, displaced, stale>>
      /\ \/ rows' = rows /\ skipped' = skipped
         \/ rows' = rows \ {c} /\ skipped' = skipped \cup {c}
  BY DEF Operator, SwitchRule, ResolveRow, ghosts
<1>2. /\ Quiet' = Quiet /\ Item' = Item /\ failing' \ owed' = failing \ owed
      /\ \A n : After(n)' = After(n)
      /\ \A i : Latest(i)' <=> Latest(i)
      /\ \A items : Concerns(items)' = Concerns(items)
      /\ \A q : Begins(q)' <=> Begins(q)
  BY <1>1, QueuesRest
<1>3. Top' = Top /\ Waiting' = Waiting
  BY <1>1, <1>2 DEF Top, Waiting, workers, queues, tick
<1>4. /\ rows' \subseteq rows /\ Reports' \subseteq Reports
      /\ \A d \in Reports' : d \in rows => d \in rows'
  BY <1>1 DEF Reports, workers
<1>5. Copies' /\ Followed'
  BY <1>1, <1>2, <1>3 DEF Truth, Copies, Followed, workers, queues, tick
<1>6. Ended'
  BY <1>1, <1>2, <1>3, <1>4 DEF Truth, Ended, tick
<1>7. Begun'
  BY <1>1, <1>2, <1>4 DEF Truth, Begun, workers
<1>8. Delivered'
  BY <1>1, <1>2, <1>3, <1>4 DEF Truth, Delivered, workers, tick
<1> QED
  BY <1>5, <1>6, <1>7, <1>8 DEF Truth

\* The apply loop takes up its next item: it writes the row, or the item is
\* missed.
LEMMA TruthApply ==
    ASSUME Inv, Truth, Apply \/ PassOver \/ ApplyRaises
    PROVE  Truth'
<1> DEFINE h == Head(batch)  a == about[h]
<1>1. /\ UNCHANGED <<workers, queues, pc, drained, inflight, stuck, displaced, stale>>
      /\ pc = "apply" /\ batch # <<>> /\ batch' = Tail(batch)
      /\ applied' = applied \cup {h} /\ rows \subseteq rows' /\ rows' \subseteq rows \cup {a}
      /\ \/ a \in rows' /\ (Latest(h) => skipped' = skipped \ {a})
                        /\ (~Latest(h) => skipped' = skipped)
         \/ skipped' = skipped \cup {a}
  BY DEF Apply, PassOver, ApplyRaises
<1>2. /\ Quiet' = Quiet /\ Item' = Item /\ \A n : After(n)' = After(n)
      /\ failing' \ owed' = failing \ owed
      /\ \A i : Latest(i)' <=> Latest(i)
      /\ \A items : Concerns(items)' = Concerns(items)
      /\ \A q : Begins(q)' <=> Begins(q)
      /\ UNCHANGED <<failing, owed, raised, about, occurrences>>
  BY <1>1, QueuesRest DEF workers, queues
<1>3. /\ Items(batch) \subseteq {h} \cup Items(batch')
      /\ Items(batch') \subseteq Items(batch) /\ h \in Items(batch) /\ h \in Item
  <2>1. batch \in Seq(Item) /\ batch # <<>>
    BY <1>1 DEF Inv, TypeOK
  <2>2. /\ Len(batch) \in Nat /\ Len(batch) > 0 /\ h = batch[1]
        /\ Len(Tail(batch)) = Len(batch) - 1
        /\ \A i \in 1..Len(Tail(batch)) : Tail(batch)[i] = batch[i + 1]
    BY <2>1, LenProperties, HeadTailProperties
  <2>3. h \in Items(batch)
    BY <2>2 DEF Items
  <2>4. ASSUME NEW i \in 1..Len(Tail(batch)) PROVE Tail(batch)[i] \in Items(batch)
    <3>1. i + 1 \in 1..Len(batch) /\ Tail(batch)[i] = batch[i + 1]
      BY <2>2
    <3> QED
      BY <3>1 DEF Items
  <2> QED
    BY <1>1, <2>1, <2>3, <2>4, HeadLeaves DEF Items
<1> HIDE DEF h
<1>4. Top' = Top
  BY <1>1, <1>2 DEF Top
<1>5. Copies'
  BY <1>1, <1>2, <1>3, <1>4 DEF Truth, Copies
<1>6. Followed'
  BY <1>1, <1>2 DEF Truth, Followed
<1>7. Ended'
  <2>1. a \in Concerns(Items(batch)) /\ Concerns(Items(batch')) \subseteq Concerns(Items(batch))
    BY <1>3 DEF Concerns
  <2>2. rows' \cup Concerns(Items(batch))' \subseteq rows \cup Concerns(Items(batch))
    BY <1>1, <1>2, <2>1
  <2> QED
    BY <1>1, <1>2, <2>2 DEF Truth, Ended
<1>8. Begun'
  <2>1. ASSUME NEW c \in Reports', c # a
        PROVE  (\E i \in Item' : Latest(i)' /\ about'[i] = c) \/ (c \in rows' /\ c \notin After(0)')
    <3>1. c \in Reports
      BY <1>1, <1>2, <2>1 DEF Reports
    <3> QED
      BY <1>1, <1>2, <3>1 DEF Truth, Begun
  <2>2. CASE Latest(h)
    <3>1. \E i \in Item' : Latest(i)' /\ about'[i] = a
      BY <1>2, <1>3, <2>2
    <3> QED
      BY <2>1, <3>1 DEF Begun
  <2>3. CASE ~Latest(h)
    <3>1. a \in Reports' => a \in Reports
      BY <1>1, <1>2, <2>3 DEF Reports
    <3>2. a \in Reports' =>
              (\E i \in Item' : Latest(i)' /\ about'[i] = a) \/ (a \in rows' /\ a \notin After(0)')
      BY <1>1, <1>2, <3>1 DEF Truth, Begun
    <3> QED
      BY <2>1, <3>2 DEF Begun
  <2> QED
    BY <2>2, <2>3
<1>9. Delivered'
  <2>1. ASSUME ~stale, NEW i \in Items(inflight.occ), Latest(i), about[i] \in Reports'
        PROVE  i \in Items(batch') \/ about[i] \in rows'
    <3>1. CASE about[i] = a
      <4>1. a \in rows'
        BY <1>1, <2>1, <3>1 DEF Reports
      <4> QED
        BY <3>1, <4>1
    <3>2. CASE about[i] # a
      <4>1. about[i] \in Reports
        BY <1>1, <1>2, <2>1, <3>2 DEF Reports
      <4>2. i \in Items(batch) \/ about[i] \in rows
        BY <1>1, <2>1, <4>1 DEF Truth, Delivered
      <4>3. i # h
        BY <3>2
      <4> QED
        BY <1>1, <1>3, <4>2, <4>3
    <3> QED
      BY <3>1, <3>2
  <2> QED
    BY <1>1, <1>2, <1>4, <2>1 DEF Truth, Delivered
<1> QED
  BY <1>5, <1>6, <1>7, <1>8, <1>9 DEF Truth

\* The commit removes what was in flight: the occurrences that were applied,
\* and the clears that were resolved; what it removes beyond that is missed.
LEMMA TruthCommit ==
    ASSUME Inv, Truth, CommitSystemDrain
    PROVE  Truth'
<1> DEFINE n == Len(inflight.occ)  m == Len(inflight.clr)
           gone == Items(occurrences) \ Items(occurrences')
<1>1. /\ UNCHANGED <<failing, owed, raised, about, rows, applied>>
      /\ pc = "apply" /\ batch = <<>> /\ batch' = <<>> /\ pc' = "idle"
      /\ occurrences' = DropFirst(occurrences, n)
      /\ clears' = DropFirst(clears, m)
      /\ skipped' = skipped \cup Concerns(IF stale THEN gone \cup Items(inflight.occ)
                                          ELSE IF displaced > 0 THEN gone \ applied
                                          ELSE {})
      /\ stuck' = stuck \cup (IF stale THEN Items(inflight.clr) ELSE {})
      /\ inflight' = Nothing
  BY DEF CommitSystemDrain, workers
<1>2. /\ raised \in Nat /\ displaced \in Nat /\ n \in Nat /\ m \in Nat
      /\ Len(occurrences) \in Nat /\ Len(drained.occ) \in Nat
      /\ occurrences \in Seq(Item) /\ clears \in Seq(Condition)
      /\ inflight.clr \in Seq(Condition) /\ stale \in BOOLEAN
  BY Lengths DEF Inv, TypeOK, Copy
<1>3. Begins(inflight.clr)
  BY DEF Truth, Copies
<1>4. /\ After(0)' = After(m) /\ After(0) \subseteq Items(inflight.clr) \cup After(m)
      /\ After(m) \subseteq After(0)
  BY <1>1, <1>2, <1>3, AfterDrop, AfterCut
<1>5. /\ Len(occurrences') = IF n <= Len(occurrences) THEN Len(occurrences) - n ELSE 0
      /\ \A p \in 1..Len(occurrences') : occurrences'[p] = occurrences[n + p]
  BY <1>1, <1>2, Dropped
<1>6. /\ Len(inflight'.occ) = 0 /\ Len(inflight'.clr) = 0
      /\ Items(batch') = {} /\ Concerns(Items(batch))' = {}
  BY <1>1, NoItems DEF Nothing, Concerns
<1>7. Quiet' = Quiet /\ Item' = Item
  BY <1>1 DEF Quiet, Item
<1> HIDE DEF n, m
<1>8. Copies'
  BY <1>1, <1>6 DEF Copies, Begins
<1>9. Followed'
  <2>1. ASSUME NEW p \in 1..Len(occurrences'), about'[occurrences'[p]] \in Quiet'
        PROVE  about'[occurrences'[p]] \in After(0)'
    <3>1. n + p \in 1..Len(occurrences) /\ n + p > n /\ occurrences'[p] = occurrences[n + p]
      BY <1>2, <1>5
    <3>2. about[occurrences[n + p]] \in Quiet
      BY <1>1, <1>7, <2>1, <3>1
    <3>3. about[occurrences[n + p]] \in After(m)
      BY <3>1, <3>2 DEF Truth, Followed, n, m
    <3> QED
      BY <1>1, <1>4, <3>1, <3>3
  <2>2. pc' = "idle" /\ After(Len(inflight.clr))' = After(0)'
    BY <1>1, <1>6
  <2> QED
    BY <2>1, <2>2 DEF Followed
<1>10. Ended'
  <2>1. ASSUME NEW c \in Quiet \ stuck', c \in rows PROVE c \in After(m)
    <3>1. c \in Quiet \ stuck /\ c \in After(0)
      BY <1>1, <2>1 DEF Truth, Ended
    <3>2. CASE stale
      <4>1. c \notin Items(inflight.clr)
        BY <1>1, <2>1, <3>2
      <4> QED
        BY <1>4, <3>1, <4>1
    <3>3. CASE ~stale
      BY <1>1, <2>1, <3>1, <3>3 DEF Truth, Ended, m
    <3> QED
      BY <3>2, <3>3
  <2> QED
    BY <1>1, <1>4, <1>6, <1>7, <2>1 DEF Ended
<1>11. Begun'
  <2>1. ASSUME NEW c \in Reports'
        PROVE  (\E i \in Item' : Latest(i)' /\ about'[i] = c) \/ (c \in rows' /\ c \notin After(0)')
    <3>1. c \in Reports /\ c \notin skipped' /\ c \in failing \ owed
      BY <1>1, <2>1 DEF Reports
    <3>2. CASE c \in rows /\ c \notin After(0)
      BY <1>1, <1>4, <3>2
    <3>3. ASSUME NEW i \in Item, Latest(i), about[i] = c, i \in Items(occurrences')
          PROVE  Latest(i)' /\ i \in Item' /\ about'[i] = c
      BY <1>1, <1>7, <3>3 DEF Latest
    <3>4. ASSUME NEW i \in Item, Latest(i), about[i] = c, i \notin Items(occurrences')
          PROVE  c \in rows' /\ c \notin After(0)'
      <4>1. i \in gone
        BY <3>4 DEF Latest
      <4>2. ~stale
        BY <1>1, <3>1, <3>4, <4>1 DEF Concerns
      <4>3. displaced > 0 => i \in applied
        BY <1>1, <3>1, <3>4, <4>1, <4>2 DEF Concerns
      <4>4. PICK p \in 1..Len(occurrences) : occurrences[p] = i
        BY <3>4 DEF Latest, Items
      <4>5. p <= n
        <5>1. ASSUME ~(p <= n) PROVE FALSE
          <6>1. p - n \in 1..Len(occurrences') /\ n + (p - n) = p
            BY <1>2, <1>5, <5>1
          <6>2. occurrences'[p - n] = i
            BY <1>5, <4>4, <6>1
          <6> QED
            BY <3>4, <6>1, <6>2 DEF Items
        <5> QED
          BY <5>1
      <4>6. inflight = drained
        <5>1. inflight \in {drained, Nothing}
          BY <1>1, <4>2 DEF Truth, Copies
        <5>2. inflight # Nothing
          <6>1. n # 0
            BY <1>2, <4>5
          <6> QED
            BY <6>1, NoItems DEF Nothing, n
        <5> QED
          BY <5>1, <5>2
      <4>7. i = raised - Len(occurrences) + p
        BY <4>4 DEF Inv, Newest
      <4>8. i <= Top /\ p + displaced <= n
        <5>1. Top = raised - Len(occurrences) - displaced + n
          BY <4>6 DEF Top, n
        <5>2. CASE displaced = 0
          BY <1>2, <4>5, <4>7, <5>1, <5>2
        <5>3. CASE displaced > 0
          <6>1. i <= Top
            BY <1>1, <4>3, <5>3 DEF Truth, Copies
          <6> QED
            BY <1>2, <4>7, <5>1, <6>1
        <5> QED
          BY <1>2, <5>2, <5>3
      <4>9. i \in Items(inflight.occ)
        <5>1. p + displaced \in 1..n
          BY <1>2, <4>8
        <5>2. inflight.occ[p + displaced]
                  = raised - Len(occurrences) - displaced + (p + displaced)
          BY <1>1, <4>2, <5>1 DEF Inv, Handed, Aligned, n
        <5>3. inflight.occ[p + displaced] = i
          BY <1>2, <4>7, <5>2
        <5> QED
          BY <5>1, <5>3 DEF Items, n
      <4>10. c \in rows
        <5>1. i \in Items(batch) \/ about[i] \in rows
          BY <1>1, <3>1, <3>4, <4>2, <4>9 DEF Truth, Delivered
        <5> QED
          BY <1>1, <3>4, <5>1, NoItems
      <4>11. c \notin After(Len(drained.clr))
        <5>1. Top \in Int /\ i \in Int
          BY <1>2, <4>7 DEF Top
        <5>2. ~(i > Top)
          BY <4>8, <5>1
        <5> QED
          BY <1>1, <3>1, <3>4, <5>2 DEF Truth, Delivered
      <4> QED
        BY <1>1, <1>4, <4>6, <4>10, <4>11 DEF m
    <3> QED
      BY <3>1, <3>2, <3>3, <3>4 DEF Truth, Begun
  <2> QED
    BY <2>1 DEF Begun
<1>12. Delivered'
  BY <1>1 DEF Delivered
<1> QED
  BY <1>8, <1>9, <1>10, <1>11, <1>12 DEF Truth

\* A restart begins with nothing reported; every row it finds is left behind.
LEMMA TruthCrash ==
    ASSUME Inv, Truth, Crash
    PROVE  Truth'
<1>1. /\ failing' = {} /\ occurrences' = <<>> /\ clears' = <<>> /\ pc' = "idle"
      /\ batch' = <<>> /\ inflight' = Nothing /\ rows' = rows /\ stuck' = rows
  BY DEF Crash
<1>2. /\ Len(inflight'.clr) = 0 /\ Len(clears') = 0 /\ Len(occurrences') = 0
      /\ Items(batch') = {} /\ Concerns(Items(batch))' = {}
  BY <1>1, NoItems DEF Nothing, Concerns
<1> QED
  BY <1>1, <1>2 DEF Truth, Copies, Begins, Followed, Ended, Begun, Delivered, Reports

\* Every step keeps what the rows owe to the conditions.
LEMMA TruthStep ==
    ASSUME Inv, Truth, [Next]_vars
    PROVE  Truth'
<1>1. CASE RulesRead
  <2>1. /\ UNCHANGED <<workers, queues, batch, resolving, drained, inflight, rows, ghosts>>
        /\ pc = "rules" /\ pc' = "apply"
    BY <1>1 DEF RulesRead
  <2>2. /\ Quiet' = Quiet /\ Item' = Item /\ failing' \ owed' = failing \ owed
        /\ \A n : After(n)' = After(n)
        /\ \A i : Latest(i)' <=> Latest(i)
        /\ \A items : Concerns(items)' = Concerns(items)
        /\ \A q : Begins(q)' <=> Begins(q)
    BY <2>1, QueuesRest
  <2>3. Top' = Top /\ Reports' = Reports
    BY <2>1 DEF Top, Reports, workers, queues, ghosts
  <2>4. Copies' /\ Followed'
    BY <2>1, <2>2, <2>3 DEF Truth, Copies, Followed, workers, queues, ghosts
  <2>5. Ended'
    BY <2>1, <2>2, <2>3 DEF Truth, Ended, ghosts
  <2>6. Begun' /\ Delivered'
    BY <2>1, <2>2, <2>3 DEF Truth, Begun, Delivered, workers, ghosts
  <2> QED
    BY <2>4, <2>5, <2>6 DEF Truth
<1>2. CASE UNCHANGED vars
  <2>1. UNCHANGED <<workers, queues, pc, tick, inflight, rows, ghosts>>
    BY <1>2 DEF vars
  <2>2. /\ Quiet' = Quiet /\ Item' = Item /\ failing' \ owed' = failing \ owed
        /\ \A n : After(n)' = After(n)
        /\ \A i : Latest(i)' <=> Latest(i)
        /\ \A items : Concerns(items)' = Concerns(items)
        /\ \A q : Begins(q)' <=> Begins(q)
    BY <2>1, QueuesRest
  <2>3. Top' = Top /\ Reports' = Reports /\ Waiting' = Waiting
    BY <2>1, <2>2 DEF Top, Reports, Waiting, workers, queues, tick, ghosts
  <2>4. Copies' /\ Followed'
    BY <2>1, <2>2, <2>3 DEF Truth, Copies, Followed, workers, queues, tick, ghosts
  <2>5. Ended'
    BY <2>1, <2>2, <2>3 DEF Truth, Ended, tick, ghosts
  <2>6. Begun' /\ Delivered'
    BY <2>1, <2>2, <2>3 DEF Truth, Begun, Delivered, workers, tick, ghosts
  <2> QED
    BY <2>4, <2>5, <2>6 DEF Truth
<1> QED
  BY <1>1, <1>2, TruthFlip, TruthReport, TruthClear, TruthDrain, TruthResolve,
     TruthClearsDone, TruthDrainRaises, TruthAborts, TruthApply, TruthCommit, TruthCrash,
     TruthOperator
     DEF Next, Tick, Fault, Worker

\* At first there is nothing to follow.
LEMMA TruthInit == Init => Truth
<1> SUFFICES ASSUME Init PROVE Truth
  OBVIOUS
<1>1. /\ failing = {} /\ occurrences = <<>> /\ clears = <<>> /\ pc = "idle"
      /\ batch = <<>> /\ inflight = Nothing /\ rows = {}
  BY DEF Init
<1>2. /\ Len(inflight.clr) = 0 /\ Len(clears) = 0 /\ Len(occurrences) = 0
      /\ Items(batch) = {} /\ Concerns(Items(batch)) = {}
  BY <1>1, NoItems DEF Nothing, Concerns
<1> QED
  BY <1>1, <1>2 DEF Truth, Copies, Begins, Followed, Ended, Begun, Delivered, Reports

\* The alert list tells the truth about the application, for any number of
\* conditions and any capacity: with nothing left to work off, a condition that
\* holds has its row unless its occurrence was missed, and a row of one that
\* ended is left only where no clear is going to take it (system_occurrence,
\* clear_system_occurrence, _drain_system_occurrences, _commit_system_drain).
THEOREM RowsFollow == Spec => []RowsFollowConditions
<1>1. Inv /\ [Next]_vars => Inv'
  BY InvStep
<1>2. Inv /\ Truth /\ [Next]_vars => Truth'
  BY TruthStep
<1>3. Inv /\ Truth => RowsFollowConditions
  <2> SUFFICES ASSUME Inv, Truth, Settled
               PROVE  failing \subseteq rows \cup skipped /\ rows \subseteq failing \cup stuck
    BY DEF RowsFollowConditions
  <2>1. owed = {} /\ After(0) = {} /\ Items(occurrences) = {}
    BY AfterCut, NoItems DEF Settled, Inv, TypeOK
  <2>2. \A i : ~Latest(i)
    BY <2>1 DEF Latest
  <2>3. failing \subseteq rows \cup skipped
    BY <2>1, <2>2 DEF Truth, Begun, Reports
  <2>4. rows \subseteq failing \cup stuck
    BY <2>1 DEF Truth, Ended, Quiet, Inv, TypeOK
  <2> QED
    BY <2>3, <2>4
<1> QED
  BY TypeInit, TruthInit, <1>1, <1>2, <1>3, PTL DEF Spec

-----------------------------------------------------------------------------
(* The exceptions are paid for.                                            *)

\* A disturbance of this kind has happened.
Happened(k) == budget[k] # Budget[k]

\* Something may have been lost: a step failed, the application restarted, more
\* was reported than the queue has places for, a rule was switched off or a row
\* taken away.
Disturbed ==
    \/ Happened("fault") \/ Happened("crash") \/ raised > Cap
    \/ Happened("rule") \/ Happened("resolve")

\* Until then every rule is enabled, nothing makes room, no copy is stale, no
\* condition is skipped, and what was reported is queued unless it was applied.
Paid ==
    /\ \A k \in Disturbance : budget[k] <= Budget[k]
    /\ ~Disturbed => /\ skipped = {} /\ displaced = 0 /\ ~stale
                     /\ Item \subseteq applied \cup Items(occurrences)
                     /\ enabled = Condition /\ (pc = "apply" => rules = Condition)

\* What has happened has happened.
LEMMA SpendPays ==
    ASSUME TypeOK, \A k \in Disturbance : budget[k] <= Budget[k],
           (\E j \in Disturbance : Spend(j)) \/ UNCHANGED budget
    PROVE  /\ \A k \in Disturbance : budget'[k] <= Budget[k]
           /\ \A k \in Disturbance : Happened(k) => Happened(k)'
           /\ \A k \in Disturbance : Spend(k) => Happened(k)'
<1>1. ASSUME NEW j \in Disturbance, Spend(j)
      PROVE  /\ budget'[j] = budget[j] - 1 /\ budget[j] \in Nat /\ Budget[j] \in Nat
             /\ \A k \in Disturbance : k # j => budget'[k] = budget[k]
  BY <1>1, BoundAssumption DEF Spend, TypeOK
<1>2. ASSUME NEW j \in Disturbance, Spend(j)
      PROVE  budget'[j] <= Budget[j] /\ budget'[j] # Budget[j]
  BY <1>1, <1>2
<1>3. \A k \in Disturbance : budget'[k] <= Budget[k]
  BY <1>1, <1>2
<1>4. \A k \in Disturbance : Spend(k) => Happened(k)'
  BY <1>2 DEF Happened
<1>5. \A k \in Disturbance : Happened(k) => Happened(k)'
  BY <1>1, <1>2 DEF Happened
<1> QED
  BY <1>3, <1>4, <1>5

\* A report that finds a place joins the queue and drops nothing.
LEMMA ReportPays ==
    ASSUME Inv, Paid, ~Disturbed, NEW c \in Condition, SystemOccurrence(c), raised' <= Cap
    PROVE  /\ skipped' = {} /\ displaced' = 0
           /\ Item' \subseteq applied' \cup Items(occurrences')
<1> DEFINE q == Append(occurrences, raised + 1)
<1>1. raised' = raised + 1 /\ occurrences' = Trim(q) /\ applied' = applied
  BY DEF SystemOccurrence
<1>2. /\ raised \in Nat /\ Cap \in Nat /\ Len(occurrences) \in 0..Cap
      /\ Len(q) = Len(occurrences) + 1
      /\ \A i \in 1..Len(occurrences) : q[i] = occurrences[i]
      /\ q[Len(occurrences) + 1] = raised + 1
      /\ Len(q) > Cap <=> Len(occurrences) = Cap
  BY Reported, Trimmed, BoundAssumption DEF Inv, TypeOK
<1>3. Len(occurrences) # Cap
  <2> SUFFICES ASSUME Len(occurrences) = Cap PROVE FALSE
    OBVIOUS
  <2>1. Cap > 0 /\ 1 \in 1..Len(occurrences)
    BY <1>2, BoundAssumption
  <2>2. occurrences[1] = raised - Cap + 1
    BY <2>1 DEF Inv, Newest
  <2>3. occurrences[1] \in 1..raised
    BY <2>1, ElementOfSeq DEF Inv, TypeOK, Item
  <2> HIDE DEF q
  <2> QED
    BY <1>1, <1>2, <2>2, <2>3
<1>4. occurrences' = q /\ skipped' = skipped /\ displaced' = displaced
  BY <1>1, <1>2, <1>3 DEF SystemOccurrence, Trim
<1>5. Items(occurrences) \cup {raised + 1} \subseteq Items(q)
  <2>1. /\ 1..Len(occurrences) \subseteq 1..Len(q)
        /\ Len(occurrences) + 1 \in 1..Len(q)
    <3> HIDE DEF q
    <3> QED
      BY <1>2
  <2> HIDE DEF q
  <2> QED
    BY <1>2, <2>1 DEF Items
<1>6. Item' \subseteq Item \cup {raised + 1}
  <2> HIDE DEF q
  <2> QED
    BY <1>1, <1>2 DEF Item
<1> QED
  BY <1>1, <1>4, <1>5, <1>6 DEF Paid

\* A commit nothing has disturbed removes only what the apply loop took up.
LEMMA CommitPays ==
    ASSUME Inv, Paid, ~Disturbed, CommitSystemDrain
    PROVE  Item' \subseteq applied' \cup Items(occurrences')
<1> DEFINE n == Len(inflight.occ)
<1>1. /\ inflight.occ \in Seq(Item) /\ n \in Nat
      /\ occurrences \in Seq(Item) /\ Len(occurrences) \in Nat /\ raised \in Nat
  BY LenProperties DEF Inv, TypeOK, Copy
<1>2. occurrences' = DropFirst(occurrences, n) /\ UNCHANGED <<applied, raised>>
  BY DEF CommitSystemDrain, workers
<1>3. ~stale /\ displaced = 0 /\ pc = "apply" /\ Items(batch) = {}
  BY NoItems DEF Paid, CommitSystemDrain
<1>4. Aligned(inflight.occ) /\ Items(inflight.occ) \subseteq applied
  BY <1>3 DEF Inv, Handed
<1>5. ASSUME NEW k \in 1..Len(occurrences), k <= n PROVE occurrences[k] \in applied
  <2>1. k \in 1..n
    BY <1>1, <1>5
  <2>2. inflight.occ[k] = raised - Len(occurrences) - 0 + k
    BY <1>3, <1>4, <2>1 DEF Aligned
  <2>3. occurrences[k] = raised - Len(occurrences) + k
    BY DEF Inv, Newest
  <2>4. occurrences[k] = inflight.occ[k]
    BY <1>1, <2>2, <2>3
  <2> QED
    BY <1>4, <2>1, <2>4 DEF Items
<1>6. ASSUME NEW k \in 1..Len(occurrences), ~(k <= n)
      PROVE  occurrences[k] \in Items(occurrences')
  <2>1. /\ Len(occurrences') = IF n <= Len(occurrences) THEN Len(occurrences) - n ELSE 0
        /\ \A i \in 1..Len(occurrences') : occurrences'[i] = occurrences[n + i]
    BY <1>1, <1>2, Dropped
  <2> HIDE DEF n
  <2>2. k - n \in 1..Len(occurrences') /\ n + (k - n) = k
    BY <1>1, <1>6, <2>1
  <2> QED
    BY <2>1, <2>2 DEF Items
<1>7. Items(occurrences) \subseteq applied \cup Items(occurrences')
  BY <1>5, <1>6 DEF Items
<1> QED
  BY <1>2, <1>7 DEF Paid, Item

\* Every step pays for its exceptions.
LEMMA PaidStep ==
    ASSUME Inv, Paid, [Next]_vars
    PROVE  Paid'
<1> USE DEF workers, queues, tick, ghosts
<1>1. (\E j \in Disturbance : Spend(j)) \/ UNCHANGED budget
  BY DEF Next, Tick, Fault, Worker, Operator, Flip, SystemOccurrence,
     ClearSystemOccurrence, SwitchRule, ResolveRow, Drain, ResolveClear, ClearsDone,
     RulesRead, Apply, PassOver, CommitSystemDrain, DrainRaises, TickAborts, ApplyRaises,
     Crash, vars, Disturbance
<1>2. /\ \A k \in Disturbance : budget'[k] <= Budget[k]
      /\ \A k \in Disturbance : Happened(k) => Happened(k)'
      /\ \A k \in Disturbance : Spend(k) => Happened(k)'
  BY <1>1, SpendPays DEF Inv, Paid
<1>3. raised' \in {raised, raised + 1}
  BY DEF Next, Tick, Fault, Worker, Operator, Flip, SystemOccurrence,
     ClearSystemOccurrence, SwitchRule, ResolveRow, Drain, ResolveClear, ClearsDone,
     RulesRead, Apply, PassOver, CommitSystemDrain, DrainRaises, TickAborts, ApplyRaises,
     Crash, vars
<1>4. raised > Cap => raised' > Cap
  BY <1>3, BoundAssumption DEF Inv, TypeOK
<1>5. Disturbed => Disturbed'
  BY <1>2, <1>4 DEF Disturbed, Disturbance
<1>6. CASE Fault \/ \E c \in Condition : Operator(c)
  <2>1. Spend("fault") \/ Spend("crash") \/ Spend("rule") \/ Spend("resolve")
    BY <1>6 DEF Fault, DrainRaises, TickAborts, ApplyRaises, Crash, Operator, SwitchRule,
       ResolveRow
  <2> QED
    BY <1>2, <2>1 DEF Paid, Disturbed, Disturbance
<1>7. ASSUME NEW c \in Condition, SystemOccurrence(c) PROVE Paid'
  <2>1. ~Disturbed' => raised' <= Cap
    BY <1>3, BoundAssumption DEF Disturbed, Inv, TypeOK
  <2>2. stale' = stale /\ UNCHANGED <<enabled, rules, pc>>
    BY <1>7 DEF SystemOccurrence
  <2> QED
    BY <1>2, <1>5, <1>7, <2>1, <2>2, ReportPays DEF Paid
<1>8. CASE CommitSystemDrain
  <2>1. ~Disturbed => skipped' = {} /\ displaced' = 0 /\ ~stale' /\ enabled' = enabled
                      /\ pc' = "idle"
    BY <1>8 DEF CommitSystemDrain, Paid, Concerns
  <2> QED
    BY <1>2, <1>5, <1>8, <2>1, CommitPays DEF Paid
<1>9. CASE Apply
  <2>1. /\ UNCHANGED <<raised, occurrences, displaced, stale, enabled, rules, pc>>
        /\ skipped' \subseteq skipped /\ applied \subseteq applied'
    BY <1>9 DEF Apply
  <2> QED
    BY <1>2, <1>5, <2>1 DEF Paid, Item
<1>10. ASSUME \/ \E c \in Condition : Flip(c) \/ ClearSystemOccurrence(c)
              \/ Drain \/ ResolveClear \/ ClearsDone \/ RulesRead \/ UNCHANGED vars
       PROVE  Paid'
  <2>1. /\ UNCHANGED <<raised, occurrences, applied, skipped, displaced, stale, enabled>>
        /\ pc' = "apply" => rules' = enabled \/ (pc = "apply" /\ rules' = rules)
    BY <1>10 DEF Flip, ClearSystemOccurrence, Drain, ResolveClear, ClearsDone, RulesRead, vars
  <2> QED
    BY <1>2, <1>5, <2>1 DEF Paid, Item
<1>11. CASE PassOver
  <2>1. Head(batch) \in Item
    BY <1>11, HeadLeaves DEF PassOver, Inv, TypeOK
  <2>2. about[Head(batch)] \in Condition
    BY <2>1, ElementOfSeq DEF Inv, TypeOK, Item
  <2>3. Disturbed
    BY <1>11, <2>2 DEF PassOver, Paid
  <2> QED
    BY <1>2, <1>5, <2>3 DEF Paid
<1> QED
  BY <1>6, <1>7, <1>8, <1>9, <1>10, <1>11 DEF Next, Tick, Worker

\* With every rule left on and nothing lost on the way, every occurrence is applied or still queued, and
\* once the queue is empty every condition that holds has its row. A row of one
\* that ended may remain: a clear handed out together with its raise needs no
\* disturbance to come to nothing.
ShowsEveryCondition ==
    ~Disturbed => /\ Item \subseteq applied \cup Items(occurrences)
                  /\ Settled => failing \subseteq rows

\* A queue that neither a failure nor a restart nor its cap has disturbed, whose
\* rules are on and whose rows nobody takes, loses no occurrence and hides no
\* condition (_drain_system_occurrences, _commit_system_drain).
THEOREM UndisturbedShowsEveryCondition == Spec => []ShowsEveryCondition
<1>1. Init => Paid
  BY BoundAssumption DEF Init, Paid, Item
<1>2. Inv /\ [Next]_vars => Inv'
  BY InvStep
<1>3. Inv /\ Paid /\ [Next]_vars => Paid'
  BY PaidStep
<1>4. Paid /\ RowsFollowConditions => ShowsEveryCondition
  BY DEF Paid, RowsFollowConditions, ShowsEveryCondition
<1> QED
  BY TypeInit, <1>1, <1>2, <1>3, <1>4, RowsFollow, PTL DEF Spec
=============================================================================
