---------------------------- MODULE BankVerdict ----------------------------
(***************************************************************************)
(* What a reader of one payment order is promised about the bank's later   *)
(* word on it (reconcile.py, returns.py): which state a report or a        *)
(* booking may move it out of, and that a refusal overturns nothing but an *)
(* acknowledgement of the file, and only one written before it.  There are *)
(* no documents, readers or re-readings here: StatusReports has them.      *)
(***************************************************************************)
EXTENDS Integers

CONSTANTS Orders, Dates     \* the orders, and when the bank may have written

VARIABLES
    state,      \* payment_order.state
    verdict,    \* bank_status: what the order was acknowledged or refused with
    dated,      \* status_reported_at, 0 when the bank gave no date
    again       \* somebody replayed the order

vars == <<state, verdict, dated, again>>

Init ==
    /\ state = [o \in Orders |-> "accepted"]
    /\ verdict = [o \in Orders |-> "none"]
    /\ dated = [o \in Orders |-> 0]
    /\ again = [o \in Orders |-> FALSE]

\* The queue's own steps leave the bank's word alone.
Moves(o, from, to) ==
    /\ state[o] \in from
    /\ state' = [state EXCEPT ![o] = to]
    /\ UNCHANGED <<verdict, dated, again>>

Upload(o) ==
    \/ Moves(o, {"accepted"}, "submitting")
    \/ Moves(o, {"submitting"}, "accepted")
    \/ Moves(o, {"submitting"}, "submitted")
    \/ Moves(o, {"submitting"}, "rejected")

Heard(o, to, word, date) ==
    /\ state' = [state EXCEPT ![o] = to]
    /\ verdict' = [verdict EXCEPT ![o] = word]
    /\ dated' = [dated EXCEPT ![o] = date]
    /\ UNCHANGED again

Answer(o, date) ==
    /\ state[o] \in {"accepted", "submitted"}
    /\ \/ \E word \in {"checked", "settled", "part"} : Heard(o, "acknowledged", word, date)
       \/ Heard(o, "rejected", "refused", date)

\* The bank changes its mind about a file it had only checked.  After a replay
\* the acknowledgement that is overturned need not be the one that was read, so
\* its date says nothing.
Overturn(o, date) ==
    /\ state[o] = "acknowledged" /\ verdict[o] = "checked"
    /\ \/ 0 < dated[o] /\ dated[o] < date
       \/ again[o]
    /\ Heard(o, "rejected", "refused", date)

Return(o) == Moves(o, {"submitted", "acknowledged"}, "returned")

Replay(o) ==
    /\ state[o] = "rejected"
    /\ state' = [state EXCEPT ![o] = "accepted"]
    /\ again' = [again EXCEPT ![o] = TRUE]
    /\ UNCHANGED <<verdict, dated>>

Next == \E o \in Orders :
    \/ Upload(o) \/ Return(o) \/ Replay(o)
    \/ \E date \in Dates : Answer(o, date) \/ Overturn(o, date)

Spec == Init /\ [][Next]_vars

=============================================================================
