-------------------------- MODULE PaymentLifecycle --------------------------
(***************************************************************************)
(* What the service promises about one payment order, whoever asks and     *)
(* whichever worker serves it: the states an order goes through (OrderState *)
(* and REPLAYABLE in orders.py, RECONCILES_FROM and REVOCABLE in           *)
(* reconcile.py, RETURNS_FROM in returns.py), and which of its messages    *)
(* the bank has.  There are no workers, leases, attempts or claims here:   *)
(* OrderQueue implements these steps with them.                            *)
(***************************************************************************)
CONSTANTS Orders, Schemes

VARIABLES
    state,      \* what GET /payments/{order_id} reports
    sent,       \* the messages of the order that the bank has
    replayed    \* an operator has asked for the order again

vars == <<state, sent, replayed>>

Init ==
    /\ state = [o \in Orders |-> "accepted"]
    /\ sent = [o \in Orders |-> {}]
    /\ replayed = [o \in Orders |-> FALSE]

Moves(o, from, to) ==
    /\ state[o] \in from
    /\ state' = [state EXCEPT ![o] = to]
    /\ UNCHANGED <<sent, replayed>>

Claim(o)    == Moves(o, {"accepted"}, "submitting")
PutBack(o)  == Moves(o, {"submitting"}, "accepted")
GiveUp(o)   == Moves(o, {"submitting"}, "failed")
Refuse(o)   == Moves(o, {"submitting"}, "rejected")
Submit(o)   == sent[o] # {} /\ Moves(o, {"submitting"}, "submitted")

\* A second message is only ever sent for an order somebody replayed.
Deliver(o, m) ==
    /\ state[o] = "submitting"
    /\ sent[o] \subseteq {m} \/ replayed[o]
    /\ sent' = [sent EXCEPT ![o] = @ \cup {m}]
    /\ UNCHANGED <<state, replayed>>

\* Only what the bank has can be reported on or returned.
Report(o) ==
    /\ sent[o] # {}
    /\ \/ Moves(o, {"accepted", "submitted"}, "acknowledged")
       \/ Moves(o, {"accepted", "submitted", "acknowledged"}, "rejected")

Return(o) == sent[o] # {} /\ Moves(o, {"submitted", "acknowledged"}, "returned")

Replay(o) ==
    /\ state[o] \in {"failed", "rejected"}
    /\ state' = [state EXCEPT ![o] = "accepted"]
    /\ replayed' = [replayed EXCEPT ![o] = TRUE]
    /\ UNCHANGED sent

Next == \E o \in Orders :
    \/ Claim(o) \/ PutBack(o) \/ GiveUp(o) \/ Refuse(o) \/ Submit(o)
    \/ \E m \in Schemes : Deliver(o, m)
    \/ Report(o) \/ Return(o) \/ Replay(o)

Spec == Init /\ [][Next]_vars

=============================================================================
