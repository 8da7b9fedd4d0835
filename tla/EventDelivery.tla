--------------------------- MODULE EventDelivery ---------------------------
(***************************************************************************)
(* What the webhooks promise an endpoint (docs/webhooks.md, dispatcher.py): *)
(* an event that is owed is received before it counts as delivered, stays  *)
(* owed until it is delivered or given up, and is not sent while an event  *)
(* that was owed to the same endpoint before it is still owed.  There are  *)
(* no claims, leases, dispatchers or parking here.                         *)
(***************************************************************************)
EXTENDS FiniteSets

CONSTANTS Subscriptions, Events

VARIABLES
    status,     \* what became of each event at each endpoint
    before,     \* the events that were queued for the endpoint before it
    got         \* the events the endpoint has received at least once

vars == <<status, before, got>>

Statuses == {"none", "owed", "again", "delivered", "failed", "gone"}
Owed == {"owed", "again"}

Init ==
    /\ status = [s \in Subscriptions |-> [e \in Events |-> "none"]]
    /\ before = [s \in Subscriptions |-> [e \in Events |-> {}]]
    /\ got = [s \in Subscriptions |-> {}]

\* One event is owed to some endpoints, behind everything they were ever owed,
\* and owed again to others, in the place it had.
Owe(fresh, stale, e) ==
    /\ fresh \cap stale = {}
    /\ \A s \in fresh : status[s][e] = "none"
    /\ \A s \in stale : status[s][e] \in {"delivered", "failed"}
    /\ status' = [s \in Subscriptions |->
            [status[s] EXCEPT ![e] = IF s \in fresh THEN "owed"
                                     ELSE IF s \in stale THEN "again" ELSE @]]
    /\ before' = [s \in Subscriptions |->
            IF s \in fresh
            THEN [before[s] EXCEPT ![e] = {f \in Events : status[s][f] # "none"}]
            ELSE before[s]]
    /\ UNCHANGED got

\* An event on its way when its endpoint was deleted may still arrive.
Receive(s, e) ==
    /\ \/ /\ status[s][e] \in Owed
          /\ \A f \in before[s][e] : status[s][f] # "owed"
       \/ status[s][e] = "gone"
    /\ got' = [got EXCEPT ![s] = @ \cup {e}]
    /\ UNCHANGED <<status, before>>

Settle(s, e, how) ==
    /\ status[s][e] \in Owed
    /\ how = "delivered" => e \in got[s]
    /\ status' = [status EXCEPT ![s][e] = how]
    /\ UNCHANGED <<before, got>>

Drop(s) ==
    /\ status' = [status EXCEPT ![s] = [e \in Events |-> "gone"]]
    /\ before' = [before EXCEPT ![s] = [e \in Events |-> {}]]
    /\ UNCHANGED got

Next ==
    \/ \E fresh, stale \in SUBSET Subscriptions, e \in Events : Owe(fresh, stale, e)
    \/ \E s \in Subscriptions :
        \/ \E e \in Events : \/ Receive(s, e)
                             \/ Settle(s, e, "delivered") \/ Settle(s, e, "failed")
        \/ Drop(s)

Spec == Init /\ [][Next]_vars

=============================================================================
