--------------------------- MODULE SubmissionBook ---------------------------
(***************************************************************************)
(* What submitting payments under idempotency keys promises its callers:   *)
(* a key stands for one payment.  Whoever is told that a payment was       *)
(* accepted is told of the payment it asked for, and whoever is told that  *)
(* the key is taken asked for another one than the key stands for.         *)
(***************************************************************************)
CONSTANTS Slots,      \* the pairs of a connection and a key
          Payments,   \* what can be asked for
          Requests,
          Free        \* what stands under a key nobody has used

VARIABLES book,       \* slot -> the payment it stands for, or Free
          asked,      \* request -> [slot, payment], or Free
          told        \* request -> its answer

vars == <<book, asked, told>>

Init ==
    /\ book \in [Slots -> {Free}]
    /\ asked \in [Requests -> {Free}]
    /\ told \in [Requests -> {"nothing"}]

\* A request arrives; it may be refused as it does.
Ask(r) ==
    /\ asked[r] = Free
    /\ asked'[r] \in [slot : Slots, payment : Payments]
    /\ asked' = [asked EXCEPT ![r] = asked'[r]]
    /\ told' \in {told, [told EXCEPT ![r] = "refused"]}
    /\ UNCHANGED book

\* A payment is entered, once for a key, for a request that is still open.
Enter(r) ==
    /\ asked[r] # Free
    /\ told[r] = "nothing"
    /\ book[asked[r].slot] = Free
    /\ book' = [book EXCEPT ![asked[r].slot] = asked[r].payment]
    /\ UNCHANGED <<asked, told>>

\* A request is answered.
Tell(r) ==
    /\ asked[r] # Free
    /\ told[r] = "nothing"
    /\ LET stands == book[asked[r].slot] IN
           told' \in {[told EXCEPT ![r] = "refused"],
                      [told EXCEPT ![r] = "lost"]}
                     \cup (IF stands = asked[r].payment
                           THEN {[told EXCEPT ![r] = "accepted"]} ELSE {})
                     \cup (IF stands \notin {Free, asked[r].payment}
                           THEN {[told EXCEPT ![r] = "conflict"]} ELSE {})
    /\ UNCHANGED <<book, asked>>

Next ==
    \E r \in Requests :
        \/ Ask(r)
        \/ Enter(r)
        \/ Tell(r)

Spec == Init /\ [][Next]_vars
=============================================================================
