----------------------------- MODULE SigningKeys -----------------------------
(***************************************************************************)
(* The provider's published signing keys, as each process remembers them   *)
(* (painfree.tokens.JwksCache), and the provider that publishes and        *)
(* withdraws them.                                                         *)
(*                                                                         *)
(* get holds the cache's lock from its first line to its last, the fetch   *)
(* included, so it is one step.                                            *)
(***************************************************************************)
EXTENDS Naturals

CONSTANTS
    Kids,        \* key ids
    KeysLast,    \* a set of keys is asked for again after this time
    KeysRest     \* an unknown key is asked for at most once in this time

ASSUME KeysAssumption == Kids # {} /\ KeysLast \in Nat /\ KeysRest \in 1..KeysLast

VARIABLES
    published,   \* the keys the provider publishes
    keys,        \* process -> [kids, at], at = 0 before the first fetch
    lastSeen,    \* ghost: key -> the last time it was published
    missed       \* ghost: processes whose last fetch failed

keysVars == <<published, keys, lastSeen, missed>>

NoKeys == [kids |-> {}, at |-> 0]

(* The set is too old; or it does not hold the key, and the provider was   *)
(* not asked a moment ago.                                                 *)
AsksProvider(known, kid, now) ==
    \/ known.at = 0
    \/ now >= known.at + KeysLast
    \/ kid \notin known.kids /\ now >= known.at + KeysRest

Merged(known, now, up) ==
    [kids |-> IF up THEN published \cup known.kids ELSE known.kids, at |-> now]

(* _refresh: replaced, never merged; an unreachable provider leaves the    *)
(* set as it is and counts as a fetch.                                     *)
Refreshed(known, now, up) ==
    [kids |-> IF up THEN published ELSE known.kids, at |-> now]

(* What process p remembers once it was asked for a key.                   *)
Known(p, kid, now, up) ==
    IF AsksProvider(keys[p], kid, now) THEN Refreshed(keys[p], now, up) ELSE keys[p]

GetKey(p, kid, now, up) ==
    /\ up \/ AsksProvider(keys[p], kid, now)
    /\ keys' = [keys EXCEPT ![p] = Known(p, kid, now, up)]
    /\ missed' = IF ~AsksProvider(keys[p], kid, now) THEN missed
                 ELSE IF up THEN missed \ {p} ELSE missed \cup {p}
    /\ UNCHANGED <<published, lastSeen>>

(* The provider rotates: a key is published, or withdrawn.                 *)
Publish(kid, now) ==
    /\ kid \notin published
    /\ published' = published \cup {kid}
    /\ lastSeen' = [lastSeen EXCEPT ![kid] = now]
    /\ UNCHANGED <<keys, missed>>

Withdraw(kid, now) ==
    /\ kid \in published
    /\ published' = published \ {kid}
    /\ lastSeen' = [lastSeen EXCEPT ![kid] = now]
    /\ UNCHANGED <<keys, missed>>
=============================================================================
