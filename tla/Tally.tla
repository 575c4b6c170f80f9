-------------------------------- MODULE Tally --------------------------------
(***************************************************************************)
(* What the throttling service can rely on, without channel, buffers and   *)
(* goroutines: a request is offered once, counted at most once and only if *)
(* the offer was accepted, and told to the service at most once and only   *)
(* while it is counted.  Throttling implements it.                         *)
(***************************************************************************)
EXTENDS Naturals

CONSTANT Requests

VARIABLES
    fresh,    \* requests that have not been offered
    waiting,  \* offered, accepted and not counted yet
    counted,  \* in a count that is kept
    reports   \* in how many calls the service was told of each request

vars == <<fresh, waiting, counted, reports>>

Init ==
    /\ fresh = Requests
    /\ waiting = {}
    /\ counted = {}
    /\ reports = [r \in Requests |-> 0]

(* A request comes; its offer is accepted or refused for good.             *)
Offer(r) ==
    /\ r \in fresh
    /\ fresh' = fresh \ {r}
    /\ waiting' \in {waiting, waiting \cup {r}}
    /\ UNCHANGED <<counted, reports>>

(* Counting one request takes nothing from the count of any other.         *)
Count(r) ==
    /\ r \in waiting
    /\ waiting' = waiting \ {r}
    /\ counted' = counted \cup {r}
    /\ UNCHANGED <<fresh, reports>>

(* The service is told of requests it has not heard of.                    *)
Tell(S) ==
    /\ \A r \in S : reports[r] = 0
    /\ reports' = [r \in Requests |-> IF r \in S THEN 1 ELSE reports[r]]
    /\ UNCHANGED <<fresh, waiting, counted>>

(* Counts that were reported, or never will be, are thrown away.           *)
Forget(S) ==
    /\ counted' = counted \ S
    /\ UNCHANGED <<fresh, waiting, reports>>

Next ==
    \/ \E r \in Requests : Offer(r) \/ Count(r)
    \/ \E S \in SUBSET counted : Tell(S) \/ Forget(S)

Spec == Init /\ [][Next]_vars

==============================================================================
