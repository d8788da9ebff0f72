---------------------------- MODULE AtLeastOnce ----------------------------
(***************************************************************************)
(* What a queue between a producer and a retried consumer promises: items  *)
(* wait in the order they came, may be handled any number of times, and    *)
(* leave from the front only once they were handled, when the queue is     *)
(* full and the oldest has to make room, or all together in a restart.     *)
(* An item that makes room while the consumer is busy may cost another one *)
(* its turn, and a consumer that stumbles may lose count altogether.       *)
(***************************************************************************)
EXTENDS Naturals, Sequences

CONSTANT Capacity

VARIABLES
    queued,   \* the items waiting, oldest first; item n is the n-th accepted
    handled,  \* the items handled at least once
    accepted, \* how many items came so far
    slack,    \* how many items the consumer may drop unhandled
    restarts

vars == <<queued, handled, accepted, slack, restarts>>

Init ==
    /\ queued = <<>> /\ handled = {} /\ accepted = 0
    /\ slack = 0 /\ restarts = 0

Full == Len(queued) = Capacity

\* A full queue drops its oldest item for the new one.
Accept ==
    /\ accepted' = accepted + 1
    /\ LET q == Append(queued, accepted + 1) IN
          queued' = IF Full THEN Tail(q) ELSE q
    /\ slack' = slack \/ (Full /\ slack' = slack + 1)
    /\ UNCHANGED <<handled, restarts>>

Handle(i) ==
    /\ handled' = handled \cup {i}
    /\ UNCHANGED <<queued, accepted, slack, restarts>>

\* The front of the queue goes, if it was handled but for the last few.
Forget ==
    /\ \E n \in 1..Len(queued) :
          /\ \A k \in 1..(n - slack) : queued[k] \in handled
          /\ queued' = SubSeq(queued, n + 1, Len(queued))
    /\ slack' = 0
    /\ UNCHANGED <<handled, accepted, restarts>>

\* The consumer no longer knows what it was handed.
Stumble ==
    /\ slack' = Capacity
    /\ UNCHANGED <<queued, handled, accepted, restarts>>

\* The consumer starts afresh.
Recover ==
    /\ slack' = 0
    /\ UNCHANGED <<queued, handled, accepted, restarts>>

\* The queue is memory.
Restart ==
    /\ queued' = <<>> /\ slack' = 0
    /\ restarts' = restarts + 1
    /\ UNCHANGED <<handled, accepted>>

Next ==
    \/ Accept \/ Forget \/ Stumble \/ Recover \/ Restart
    \/ \E i \in 1..accepted : Handle(i)

Spec == Init /\ [][Next]_vars
=============================================================================
