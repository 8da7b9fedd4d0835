--------------------------- MODULE SecretCustody ----------------------------
(***************************************************************************)
(* What is stored sealed, and how the secret it is sealed under is         *)
(* replaced (rekey.py, wrapping.py, sealing.py), while workers go on       *)
(* creating keys (keyring.py) and handlers go on registering webhooks and  *)
(* rotating their signing secrets (webhooks.py).                           *)
(*                                                                         *)
(* A custody secret is its number, which is also the id of its key; a seal *)
(* names the one it was made under.  A private key is never changed, so it *)
(* is the seal around it; a signing secret is a number that was issued,    *)
(* and a seal around it has the number in it.  Either envelope opens with  *)
(* the custody secret and names it in the same place, so there is one.     *)
(* Each action is a transaction or the memory of one process; the operator *)
(* who replaces the secret and the owner of an endpoint are external.      *)
(***************************************************************************)
EXTENDS Naturals, Sequences, FiniteSets

CONSTANTS
    KeyRows,        \* rows of key_material, by seq
    Subscriptions,  \* rows of webhook_subscription, by seq, from 1
    Workers,
    Handlers,       \* of the console and the API
    Careful,        \* TRUE: see DropPrevious
    MaxSecrets,     \* bound: custody secrets
    MaxIssued,      \* bound: signing secrets
    MaxRuns,        \* bound: runs of the rekey command
    MaxLost         \* bound: runs and answers that are lost

ASSUME CustodyAssumption ==
    /\ KeyRows \subseteq Nat
    /\ IsFiniteSet(Subscriptions) /\ Subscriptions = 1..Cardinality(Subscriptions)
    /\ IsFiniteSet(Handlers) /\ "rekey" \notin Handlers
    /\ Careful \in BOOLEAN
    /\ {MaxSecrets, MaxIssued, MaxRuns, MaxLost} \subseteq Nat /\ MaxSecrets > 0

VARIABLES
    deployed,   \* the settings a process that starts now is given
    running,    \* the custody secret each worker was started with
    published,  \* webhook_wrapping_key, by seq: whose public half it is
    key,        \* key_material: what the private half is sealed under
    sub,        \* webhook_subscription
    handler,    \* what each handler read and is about to write
    run,        \* the rekey command
    bounds,     \* history: signing secrets issued, runs, losses
    endpoint,   \* external: the secret each endpoint verifies with
    retired,    \* external: signing secrets somebody ended the overlap of
    contended,  \* history: subscriptions two writers were under way on at once
    calm        \* history: the run has been alone, or was when it ended

vars == <<deployed, running, published, key, sub, handler, run, bounds,
          endpoint, retired, contended, calm>>

Nothing == 0

Seal(under, holds) == [under |-> under, holds |-> holds]

Empty == Seal(Nothing, Nothing)

Secrets == 1..MaxSecrets

Row == [secret : [under : Secrets \cup {Nothing}, holds : Nat],
        previous : [under : Secrets \cup {Nothing}, holds : Nat],
        custody_key_id : Secrets \cup {Nothing}]

Columns == {"secret", "previous"}

NoRow == [secret |-> Empty, previous |-> Empty, custody_key_id |-> Nothing]

Exists(s) == sub[s] # NoRow

Rotating(s) == sub[s].previous # Empty

Idle == [pc |-> "idle", sub |-> Nothing, recipient |-> Nothing]

NoRun == [pc |-> "idle", from |-> Nothing, to |-> Nothing, keys |-> <<>>,
          subs |-> <<>>, stranded |-> FALSE, exit |-> "none"]

TypeOK ==
    /\ deployed \in [current : Secrets, previous : Secrets \cup {Nothing}]
    /\ running \in [Workers -> Secrets]
    /\ published \in Seq(Secrets)
    /\ key \in [KeyRows -> Secrets \cup {Nothing}]
    /\ sub \in [Subscriptions -> Row]
    /\ handler \in [Handlers ->
           [pc : {"idle", "registering", "rotating", "sealed", "retiring"},
            sub : Subscriptions \cup {Nothing},
            recipient : Secrets \cup {Nothing}]]
    /\ run.pc \in {"idle", "keys", "subscriptions", "reporting"}
    /\ run.exit \in {"none", "complete", "incomplete"}
    /\ endpoint \in [Subscriptions -> Nat]
    /\ contended \subseteq Subscriptions
    /\ calm \in {"no", "alone", "finished"}

Init ==
    /\ deployed = [current |-> 1, previous |-> Nothing]
    /\ running = [w \in Workers |-> 1]
    /\ published = <<1>>
    /\ key \in [KeyRows -> {Nothing, 1}]
    /\ \E there \in SUBSET Subscriptions :
        /\ sub = [s \in Subscriptions |->
               IF s \in there THEN [secret |-> Seal(1, s), previous |-> Empty,
                                     custody_key_id |-> 1]
               ELSE NoRow]
        /\ endpoint = [s \in Subscriptions |->
               IF s \in there THEN s ELSE Nothing]
    /\ handler = [h \in Handlers |-> Idle]
    /\ run = NoRun
    /\ bounds = [issued |-> Cardinality(Subscriptions), runs |-> 0, lost |-> 0]
    /\ retired = {}
    /\ contended = {}
    /\ calm = "no"

Spends(what) == bounds' = [bounds EXCEPT ![what] = bounds[what] + 1]

-----------------------------------------------------------------------------
(* The published public half: rows are keyed by the id of the secret, and  *)
(* the newest one is what a new signing secret is sealed to.               *)

Publish(secret) ==
    published' = IF \E n \in DOMAIN published : published[n] = secret
                 THEN published ELSE Append(published, secret)

Recipient == published[Len(published)]

-----------------------------------------------------------------------------
(* Workers: a start derives the key and publishes; a new key is sealed     *)
(* under the secret the process was started with.                          *)

Restart(w) ==
    /\ running[w] # deployed.current
    /\ running' = [running EXCEPT ![w] = deployed.current]
    /\ Publish(deployed.current)
    /\ UNCHANGED <<deployed, key, sub, handler, run, bounds, endpoint, retired>>

StoreKey(w, k) ==
    /\ key[k] = Nothing
    /\ key' = [key EXCEPT ![k] = running[w]]
    /\ UNCHANGED <<deployed, running, published, sub, handler, run, bounds,
                   endpoint, retired>>

-----------------------------------------------------------------------------
(* Handlers: register, rotate_secret and retire_previous_secret, each read *)
(* a step of its own.  The answer that carries a new secret may be lost.   *)

Begins(h, s, pc, recipient) ==
    /\ handler[h].pc = "idle"
    /\ handler' = [handler EXCEPT ![h] =
           [pc |-> pc, sub |-> s, recipient |-> recipient]]
    /\ UNCHANGED <<deployed, running, published, key, sub, run, bounds,
                   endpoint, retired>>

RegisterReads(h, s) ==
    /\ ~Exists(s) /\ \A g \in Handlers : handler[g].sub # s
    /\ bounds.issued < MaxIssued
    /\ Begins(h, s, "registering", Recipient)

\* Mutant of MayRotate: a second rotation while the first is open.
MayRotateAgain(s) == Exists(s)

MayRotate(s) == Exists(s) /\ ~Rotating(s)

RotateReads(h, s) ==
    /\ MayRotate(s)
    /\ bounds.issued < MaxIssued
    /\ Begins(h, s, "rotating", Nothing)

TakesRecipient(h) ==
    /\ handler[h].pc = "rotating"
    /\ handler' = [handler EXCEPT ![h].pc = "sealed",
                                  ![h].recipient = Recipient]
    /\ UNCHANGED <<deployed, running, published, key, sub, run, bounds,
                   endpoint, retired>>

\* The overlap ends when its endpoint has the new secret.
RetireReads(h, s) ==
    /\ Rotating(s)
    /\ endpoint[s] = sub[s].secret.holds
    /\ Begins(h, s, "retiring", Nothing)

\* The new secret goes out with the answer, if it arrives.
Issues(h, row) ==
    LET s == handler[h].sub IN
    /\ bounds.issued < MaxIssued
    /\ sub' = [sub EXCEPT ![s] = row]
    /\ handler' = [handler EXCEPT ![h] = Idle]
    /\ Spends("issued")
    /\ UNCHANGED <<deployed, running, published, key, run, endpoint, retired>>

Fresh == bounds.issued + 1

RegisterInserts(h) ==
    /\ handler[h].pc = "registering"
    /\ Issues(h, [secret |-> Seal(handler[h].recipient, Fresh),
                  previous |-> Empty,
                  custody_key_id |-> handler[h].recipient])

RotateWrites(h) ==
    /\ handler[h].pc = "sealed"
    /\ Issues(h, [secret |-> Seal(handler[h].recipient, Fresh),
                  previous |-> sub[handler[h].sub].secret,
                  custody_key_id |-> handler[h].recipient])

RetireWrites(h) ==
    LET s == handler[h].sub IN
    /\ handler[h].pc = "retiring"
    /\ sub' = [sub EXCEPT ![s].previous = Empty]
    /\ retired' = retired \cup ({sub[s].previous.holds} \ {Nothing})
    /\ handler' = [handler EXCEPT ![h] = Idle]
    /\ UNCHANGED <<deployed, running, published, key, run, bounds, endpoint>>

\* External: the owner configures the secret it was given last, sooner, later
\* or, when the answer was lost, never.
Configure(s) ==
    /\ Exists(s) /\ endpoint[s] # sub[s].secret.holds
    /\ endpoint' = [endpoint EXCEPT ![s] = sub[s].secret.holds]
    /\ UNCHANGED <<deployed, running, published, key, sub, handler, run,
                   bounds, retired>>

\* The process dies between two steps.
HandlerLost(h) ==
    /\ handler[h].pc # "idle" /\ bounds.lost < MaxLost
    /\ handler' = [handler EXCEPT ![h] = Idle]
    /\ Spends("lost")
    /\ UNCHANGED <<deployed, running, published, key, sub, run, endpoint,
                   retired>>

-----------------------------------------------------------------------------
(* The rekey command: rows are read, then moved one by one. *)

RekeyStarts ==
    /\ run.pc = "idle" /\ deployed.previous # Nothing
    /\ bounds.runs < MaxRuns
    /\ run' = [NoRun EXCEPT
           !.pc = "keys", !.from = deployed.previous, !.to = deployed.current,
           !.keys = [k \in {j \in KeyRows : key[j] # Nothing} |-> key[k]]]
    /\ Spends("runs")
    /\ UNCHANGED <<deployed, running, published, key, sub, handler, endpoint,
                   retired>>

First(r, rows) == r \in rows /\ \A q \in rows : r <= q

Without(rows, r) == [q \in DOMAIN rows \ {r} |-> rows[q]]

\* A seal under neither secret is reported and left.
Stranded(under) == under \notin {run.from, run.to}

RekeyKey ==
    /\ run.pc = "keys"
    /\ \E k \in KeyRows : LET under == run.keys[k] IN
        /\ First(k, DOMAIN run.keys)
        /\ key' = IF under = run.from THEN [key EXCEPT ![k] = run.to] ELSE key
        /\ run' = [run EXCEPT !.keys = Without(run.keys, k),
                              !.stranded = run.stranded \/ Stranded(under)]
    /\ UNCHANGED <<deployed, running, published, sub, handler, bounds,
                   endpoint, retired>>

RekeyReadsSubscriptions ==
    /\ run.pc = "keys" /\ DOMAIN run.keys = {}
    /\ run' = [run EXCEPT !.pc = "subscriptions",
                          !.subs = [s \in {r \in Subscriptions : Exists(r)} |->
                                        sub[s]]]
    /\ UNCHANGED <<deployed, running, published, key, sub, handler, bounds,
                   endpoint, retired>>

\* Mutant of Moves: a row that names the new secret is done.
MovesRows(row, from) ==
    IF row.custody_key_id # from THEN {}
    ELSE {c \in Columns : row[c].under = from}

\* The columns of a row as it was read that are to be sealed again.
Moves(row, from) == {c \in Columns : row[c].under = from}

\* What was read is written back, whatever is there by now.
Resealed(now, row, to, columns) ==
    IF columns = {} THEN now
    ELSE [secret |-> IF "secret" \in columns
                     THEN Seal(to, row.secret.holds) ELSE now.secret,
          previous |-> IF "previous" \in columns
                       THEN Seal(to, row.previous.holds) ELSE now.previous,
          custody_key_id |-> to]

RekeySubscription ==
    /\ run.pc = "subscriptions"
    /\ \E s \in Subscriptions : LET row == run.subs[s] IN
        /\ First(s, DOMAIN run.subs)
        /\ sub' = [sub EXCEPT ![s] =
                      Resealed(sub[s], row, run.to, Moves(row, run.from))]
        /\ run' = [run EXCEPT
               !.subs = Without(run.subs, s),
               !.stranded = run.stranded \/
                   \E c \in Columns : row[c] # Empty /\ Stranded(row[c].under)]
    /\ UNCHANGED <<deployed, running, published, key, handler, bounds,
                   endpoint, retired>>

RekeyPublishes ==
    /\ run.pc = "subscriptions" /\ DOMAIN run.subs = {}
    /\ Publish(run.to)
    /\ run' = [run EXCEPT !.pc = "reporting"]
    /\ UNCHANGED <<deployed, running, key, sub, handler, bounds, endpoint,
                   retired>>

RekeyReports ==
    /\ run.pc = "reporting"
    /\ run' = [NoRun EXCEPT
                  !.exit = IF run.stranded THEN "incomplete" ELSE "complete"]
    /\ UNCHANGED <<deployed, running, published, key, sub, handler, bounds,
                   endpoint, retired>>

RekeyLost ==
    /\ run.pc # "idle" /\ bounds.lost < MaxLost
    /\ run' = NoRun
    /\ Spends("lost")
    /\ UNCHANGED <<deployed, running, published, key, sub, handler, endpoint,
                   retired>>

-----------------------------------------------------------------------------
(* The operator: both secrets are deployed for as long as rekey takes. *)

\* survey, which custody-status shows: the secrets the stored seals name.
Sealed ==
    {key[k] : k \in KeyRows}
        \cup {sub[s][c].under : s \in Subscriptions, c \in Columns}

Survey == Sealed \ {Nothing}

Deploy ==
    /\ deployed.previous = Nothing /\ deployed.current < MaxSecrets
    /\ deployed' = [current |-> deployed.current + 1,
                    previous |-> deployed.current]
    /\ run' = NoRun
    /\ UNCHANGED <<running, published, key, sub, handler, bounds, endpoint,
                   retired>>

\* The previous secret goes once a run reported that it was complete and
\* custody-status shows no other secret; a careful operator has restarted the
\* workers before, and no handler is half way with the old recipient.
DropPrevious ==
    /\ deployed.previous # Nothing
    /\ run.pc = "idle" /\ run.exit = "complete"
    /\ Survey \subseteq {deployed.current}
    /\ Careful =>
           /\ \A w \in Workers : running[w] = deployed.current
           /\ \A h \in Handlers :
                  handler[h].recipient \in {Nothing, deployed.current}
    /\ deployed' = [deployed EXCEPT !.previous = Nothing]
    /\ UNCHANGED <<running, published, key, sub, handler, run, bounds,
                   endpoint, retired>>

-----------------------------------------------------------------------------

Writers(s) ==
    {h \in Handlers : handler[h].sub = s} \cup
        (IF run.pc = "subscriptions" /\ s \in DOMAIN run.subs
            /\ Moves(run.subs[s], run.from) # {} THEN {"rekey"} ELSE {})

\* All that is new is sealed under the new secret.
Alone ==
    /\ \A w \in Workers : running[w] = deployed.current
    /\ Recipient = deployed.current
    /\ \A h \in Handlers : handler[h].pc = "idle"

Observe ==
    /\ contended' = contended \cup
           {s \in Subscriptions : Cardinality(Writers(s)') > 1}
    /\ calm' = IF run.pc = "idle"
               THEN IF run'.pc # "idle" /\ Alone THEN "alone" ELSE "no"
               ELSE IF calm = "no" \/ ~Alone' THEN "no"
               ELSE IF run'.pc # "idle" THEN "alone"
               ELSE IF run'.exit = "none" THEN "no" ELSE "finished"

Handles(h) ==
    \/ TakesRecipient(h) \/ RegisterInserts(h) \/ RotateWrites(h)
    \/ RetireWrites(h) \/ HandlerLost(h)
    \/ \E s \in Subscriptions :
           RegisterReads(h, s) \/ RotateReads(h, s) \/ RetireReads(h, s)

Rekeys ==
    \/ RekeyStarts \/ RekeyKey \/ RekeyReadsSubscriptions
    \/ RekeySubscription \/ RekeyPublishes \/ RekeyReports \/ RekeyLost

Next ==
    /\ \/ \E w \in Workers : Restart(w) \/ \E k \in KeyRows : StoreKey(w, k)
       \/ \E h \in Handlers : Handles(h)
       \/ \E s \in Subscriptions : Configure(s)
       \/ Rekeys
       \/ Deploy \/ DropPrevious
    /\ Observe

Spec == Init /\ [][Next]_vars

-----------------------------------------------------------------------------
(* Properties. *)

Signs(s) == {sub[s][c].holds : c \in Columns}

\* A delivery is always signed with a secret its endpoint verifies with, and
\* never again with one whose overlap was ended, while signing secrets are
\* replaced, custody secrets are replaced, and runs of rekey stop half way and
\* are repeated - for subscriptions that one of these writes at a time
\* (rotate_secret, "no such moment exists"; rekey).
EndpointVerifies ==
    \A s \in Subscriptions \ contended :
        /\ endpoint[s] # Nothing => endpoint[s] \in Signs(s)
        /\ Signs(s) \cap retired = {}

\* No seal is stranded: every one is under a secret that is deployed, so that
\* the next run of rekey finishes what the last one left; and a run that was
\* alone has left nothing under the old secret, whatever mixture it found (rekey,
\* "the process exits non-zero if any row is left behind").
NothingStranded ==
    /\ Sealed \subseteq {deployed.current, deployed.previous, Nothing}
    /\ calm = "finished" =>
           Survey \subseteq {deployed.current} /\ run.exit = "complete"
=============================================================================
