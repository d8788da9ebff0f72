------------------------------ MODULE Courier ------------------------------
(***************************************************************************)
(* What a delivery queue promises its callers: a job is accepted or        *)
(* refused at once, an accepted job is begun in the order of acceptance,   *)
(* by one carrier only, and it gets at most one verdict, after which       *)
(* nothing more happens to it.  Whether and when a carrier comes is not    *)
(* part of the promise.                                                    *)
(***************************************************************************)
EXTENDS Naturals, Sequences

CONSTANTS Job, Capacity

VARIABLES
    waiting,   \* the accepted jobs no carrier has begun, oldest first
    underway,  \* the jobs a carrier is busy with
    verdict    \* per job: "none", "refused", "sent", "failed"

vars == <<waiting, underway, verdict>>

Init == waiting = <<>> /\ underway = {} /\ verdict = [j \in Job |-> "none"]

Known == {waiting[i] : i \in 1..Len(waiting)} \cup underway
New(j) == j \notin Known /\ verdict[j] = "none"

Accept(j) ==
    /\ New(j)
    /\ Len(waiting) < Capacity
    /\ waiting' = Append(waiting, j)
    /\ UNCHANGED <<underway, verdict>>

Refuse(j) ==
    /\ New(j)
    /\ Len(waiting) = Capacity
    /\ verdict' = [verdict EXCEPT ![j] = "refused"]
    /\ UNCHANGED <<waiting, underway>>

Begin ==
    /\ waiting # <<>>
    /\ underway' = underway \cup {Head(waiting)}
    /\ waiting' = Tail(waiting)
    /\ UNCHANGED verdict

End(j) ==
    /\ j \in underway
    /\ \E v \in {"sent", "failed"} : verdict' = [verdict EXCEPT ![j] = v]
    /\ underway' = underway \ {j}
    /\ UNCHANGED waiting

Next == Begin \/ \E j \in Job : Accept(j) \/ Refuse(j) \/ End(j)

Spec == Init /\ [][Next]_vars
=============================================================================
