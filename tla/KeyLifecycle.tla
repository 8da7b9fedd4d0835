---------------------------- MODULE KeyLifecycle ----------------------------
(***************************************************************************)
(* What a bank connection is promised about its keys: how far the          *)
(* registration has got only ever advances, and the bank's keys that are   *)
(* used are a pair somebody compared with the bank's letter.  No jobs, no  *)
(* workers, no rows; KeyManagement implements it.                          *)
(***************************************************************************)
CONSTANTS Pairs,    \* an authentication and an encryption key of the bank
          NoPair

VARIABLES
    state,      \* how far the connection has got (KeyState)
    trusted,    \* the bank's keys in use, or NoPair
    compared    \* the pairs read off letters

vars == <<state, trusted, compared>>

Init == state \in {"created", "keys_sent"} /\ trusted = NoPair /\ compared = {}

\* Both registrations, then the answer of the bank with its keys.
Advance ==
    /\ \/ state = "created" /\ state' = "ini_sent"
       \/ state = "ini_sent" /\ state' = "keys_sent"
       \/ state = "keys_sent" /\ state' = "bank_keys_received"
    /\ UNCHANGED <<trusted, compared>>

Compare(pair) ==
    /\ compared' = compared \cup {pair}
    /\ UNCHANGED <<state, trusted>>

Trust(pair) ==
    /\ state \in {"bank_keys_received", "ready"} /\ pair \in compared
    /\ trusted' = pair
    /\ UNCHANGED <<state, compared>>

\* The pair in use is set aside for the next one.
SetAside ==
    /\ trusted' = NoPair
    /\ UNCHANGED <<state, compared>>

Ready ==
    /\ trusted # NoPair /\ state' = "ready"
    /\ UNCHANGED <<trusted, compared>>

Next == Advance \/ SetAside \/ Ready \/ \E pair \in Pairs : Compare(pair) \/ Trust(pair)

Spec == Init /\ [][Next]_vars

=============================================================================
