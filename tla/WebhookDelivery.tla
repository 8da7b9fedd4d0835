-------------------------- MODULE WebhookDelivery --------------------------
(***************************************************************************)
(* Webhook subscriptions and the rows of webhook_delivery: the audit log   *)
(* that owes an event to every live subscription (audit.py, fan_out in     *)
(* webhooks.py), the dispatchers that claim, post and settle (dispatcher.py), *)
(* and the operators who pause, resume, ping, delete and send again        *)
(* (webhooks.py, redelivery.py).  Each action is one transaction or one    *)
(* HTTP exchange, in the order the handler makes them.                     *)
(*                                                                         *)
(* All subscriptions want all events, and all events are about one order.  *)
(* URLs, secrets and envelopes are left out.  The endpoint is external: it *)
(* may answer anything, with or without having received the event.         *)
(***************************************************************************)
EXTENDS Integers, FiniteSets

CONSTANTS
    Subscriptions,      \* named by webhook_subscription.seq
    Dispatchers,        \* delivery threads, in one process or in several
    Operators,          \* people or API calls managing subscriptions
    MaxEvents,          \* bound: audit events and pings
    MaxAttempts,        \* dispatcher.MAX_ATTEMPTS
    ParkAfter,          \* dispatcher.PARK_AFTER
    LeaseOutlivesPost,  \* TRUE: no live exchange takes longer than CLAIM_LEASE
    MaxOperations,      \* bound: what the operators do altogether
    MaxCrashes          \* bound: dispatchers lost in one behaviour

ASSUME SubscriptionsAssumption ==
    Subscriptions \subseteq Nat \ {0} /\ IsFiniteSet(Subscriptions)
ASSUME LimitsAssumption ==
    /\ MaxAttempts \in Nat \ {0} /\ ParkAfter \in Nat \ {0}
    /\ LeaseOutlivesPost \in BOOLEAN
ASSUME BoundsAssumption ==
    MaxEvents \in Nat /\ MaxOperations \in Nat /\ MaxCrashes \in Nat

Events == 1..MaxEvents      \* in the order of audit_log.seq

VARIABLES
    sub,        \* webhook_subscription
    delivery,   \* webhook_delivery: unique by subscription and event
    written,    \* the last seq of webhook_delivery
    audit,      \* audit_log: what became of each event
    wants,      \* the live subscriptions a fan-out read
    dispatcher, \* what each dispatcher is doing
    operator,   \* what each operator is doing
    got,        \* external: the events each endpoint has received
    again,      \* history: the events each endpoint was sent again
    operations, \* history: how many things operators did
    crashes     \* history: how many dispatchers were lost

vars == <<sub, delivery, written, audit, wants, dispatcher, operator, got,
          again, operations, crashes>>

rows == <<sub, delivery, written, audit, wants, again>>

-----------------------------------------------------------------------------
(* Types. *)

SubscriptionRow == [
    is: {"new", "live", "gone"},    \* not yet registered, a row, deleted
    enabled: BOOLEAN,
    parked: BOOLEAN,                \* parked_at is set
    failures: Nat]                  \* consecutive_failures

Unregistered == [is |-> "new", enabled |-> FALSE, parked |-> FALSE, failures |-> 0]

RowStates == {"absent", "pending", "delivering", "delivered", "failed", "parked"}
Redeliverable == {"delivered", "failed"}
Owing == {"pending", "delivering"}

DeliveryRow == [
    state: RowStates,
    seq: Nat,
    attempts: Nat,
    claim: {"none", "held", "expired"},     \* claimed_at against CLAIM_LEASE
    waits: BOOLEAN]                         \* next_attempt_at is in the future

Absent == [state |-> "absent", seq |-> 0, attempts |-> 0, claim |-> "none",
           waits |-> FALSE]
Queued(seq) == [Absent EXCEPT !.state = "pending", !.seq = seq]

\* The steps of WebhookDispatcher._deliver: up to "refused" the dispatcher
\* believes it owns the row; then the subscription is told how it went.
Holding == {"claimed", "signed", "accepted", "refused"}
Telling == {"succeeded", "exhausted"}

DispatcherState == [
    pc: {"idle"} \cup Holding \cup Telling,
    sub: Subscriptions \cup {0}, event: Events \cup {0}, attempts: Nat]

Idle == [pc |-> "idle", sub |-> 0, event |-> 0, attempts |-> 0]

OperatorState == [
    pc: {"idle", "redelivering", "resending", "pinging"},
    sub: Subscriptions \cup {0}, event: Events \cup {0},
    missing: SUBSET Subscriptions, over: SUBSET Subscriptions]

AtRest == [pc |-> "idle", sub |-> 0, event |-> 0, missing |-> {}, over |-> {}]

TypeOK ==
    /\ sub \in [Subscriptions -> SubscriptionRow]
    /\ delivery \in [Subscriptions -> [Events -> DeliveryRow]]
    /\ written \in Nat
    /\ audit \in [Events -> {"none", "writing", "recorded", "failed", "ping"}]
    /\ wants \in [Events -> SUBSET Subscriptions]
    /\ dispatcher \in [Dispatchers -> DispatcherState]
    /\ operator \in [Operators -> OperatorState]
    /\ got \in [Subscriptions -> SUBSET Events]
    /\ again \in [Subscriptions -> SUBSET Events]
    /\ operations \in Nat
    /\ crashes \in Nat

-----------------------------------------------------------------------------
(* Reading the rows. *)

Served(s) == sub[s].is = "live" /\ sub[s].enabled /\ ~sub[s].parked

Live == {s \in Subscriptions : Served(s)}

Holds(d, s, e) ==
    dispatcher[d].pc \in Holding /\ dispatcher[d].sub = s /\ dispatcher[d].event = e

Step(d, pc) == dispatcher' = [dispatcher EXCEPT ![d].pc = pc]
Rests(d) == dispatcher' = [dispatcher EXCEPT ![d] = Idle]

\* The next event to be recorded, if there is one.
IsNext(e) == audit[e] = "none" /\ \A f \in Events : f < e => audit[f] # "none"

-----------------------------------------------------------------------------
(* An event is recorded: the audit row, the read of the live subscriptions  *)
(* and the rows they are owed are one transaction, in which other           *)
(* transactions may commit.                                                 *)

RecordBegins(e) ==
    /\ IsNext(e)
    /\ audit' = [audit EXCEPT ![e] = "writing"]
    /\ wants' = [wants EXCEPT ![e] = Live]
    /\ UNCHANGED <<sub, delivery, written, dispatcher, operator, got, again,
                   operations, crashes>>

\* Rows in the order of the subscriptions, behind every row there is.
Inserted(rowsOf, missing, e) == [s \in Subscriptions |->
    IF s \in missing
    THEN [rowsOf[s] EXCEPT ![e] =
            Queued(written + Cardinality({t \in missing : t <= s}))]
    ELSE rowsOf[s]]

\* A row for a subscription that was deleted violates the foreign key; the
\* audit row is rolled back with it.
RecordCommits(e) ==
    /\ audit[e] = "writing"
    /\ \A s \in wants[e] : sub[s].is = "live"
    /\ audit' = [audit EXCEPT ![e] = "recorded"]
    /\ delivery' = Inserted(delivery, wants[e], e)
    /\ written' = written + Cardinality(wants[e])
    /\ UNCHANGED <<sub, wants, dispatcher, operator, got, again, operations, crashes>>

RecordFails(e) ==
    /\ audit[e] = "writing"
    /\ \E s \in wants[e] : sub[s].is # "live"
    /\ audit' = [audit EXCEPT ![e] = "failed"]
    /\ UNCHANGED <<sub, delivery, written, wants, dispatcher, operator, got,
                   again, operations, crashes>>

-----------------------------------------------------------------------------
(* The claim, and the lease. *)

\* Mutant of Overtaking: only a row in flight is in the way.
OvertakingInFlight(s, e) == \E f \in Events :
    delivery[s][f].seq < delivery[s][e].seq /\ delivery[s][f].state = "delivering"

Overtaking(s, e) == \E f \in Events :
    delivery[s][f].seq < delivery[s][e].seq /\ delivery[s][f].state \in Owing

\* Mutant of Due: an expired lease is nobody's.
DueOnce(row) == row.state = "pending" /\ ~row.waits

Due(row) ==
    \/ row.state = "pending" /\ ~row.waits
    \/ row.state = "delivering" /\ row.claim = "expired"

Claimable(s, e) == Due(delivery[s][e]) /\ Served(s) /\ ~Overtaking(s, e)

Taken(row) == [row EXCEPT !.state = "delivering", !.claim = "held",
                          !.attempts = row.attempts + 1]

Claim(d) ==
    /\ dispatcher[d] = Idle
    /\ \E s \in Subscriptions, e \in Events :
        /\ Claimable(s, e)
        /\ \A t \in Subscriptions, f \in Events :
            Claimable(t, f) => delivery[s][e].seq <= delivery[t][f].seq
        /\ delivery' = [delivery EXCEPT ![s][e] = Taken(@)]
        /\ dispatcher' = [dispatcher EXCEPT ![d] =
                [pc |-> "claimed", sub |-> s, event |-> e,
                 attempts |-> delivery[s][e].attempts + 1]]
    /\ UNCHANGED <<sub, written, audit, wants, operator, got, again, operations, crashes>>

LeaseExpires(s, e) ==
    /\ delivery[s][e].state = "delivering" /\ delivery[s][e].claim = "held"
    /\ LeaseOutlivesPost => \A d \in Dispatchers : ~Holds(d, s, e)
    /\ delivery' = [delivery EXCEPT ![s][e].claim = "expired"]
    /\ UNCHANGED <<sub, written, audit, wants, dispatcher, operator, got, again,
                   operations, crashes>>

BackoffEnds(s, e) ==
    /\ delivery[s][e].waits
    /\ delivery' = [delivery EXCEPT ![s][e].waits = FALSE]
    /\ UNCHANGED <<sub, written, audit, wants, dispatcher, operator, got, again,
                   operations, crashes>>

-----------------------------------------------------------------------------
(* One delivery. *)

\* The subscription and its secrets are read after the claim.  A deleted one
\* raises, and run_forever goes on.
Sign(d) ==
    /\ dispatcher[d].pc = "claimed"
    /\ IF sub[dispatcher[d].sub].is = "live" THEN Step(d, "signed") ELSE Rests(d)
    /\ UNCHANGED <<rows, operator, got, operations, crashes>>

\* Mutant of Post: a redirect is followed, and the 200 at the end of it is taken
\* for an answer to the event.
PostRedirected(d) ==
    LET has == [got EXCEPT ![dispatcher[d].sub] = @ \cup {dispatcher[d].event}] IN
    /\ dispatcher[d].pc = "signed"
    /\ got' \in {got, has} /\ (Step(d, "accepted") \/ Step(d, "refused"))
    /\ UNCHANGED <<rows, operator, operations, crashes>>

\* The endpoint has the event and says so; or it says something else, or
\* nothing, with or without having the event.
Post(d) ==
    LET has == [got EXCEPT ![dispatcher[d].sub] = @ \cup {dispatcher[d].event}] IN
    /\ dispatcher[d].pc = "signed"
    /\ \/ got' = has /\ Step(d, "accepted")
       \/ got' \in {got, has} /\ Step(d, "refused")
    /\ UNCHANGED <<rows, operator, operations, crashes>>

\* _settle names the row by delivery_id alone; a deleted row is not there.
Settled(d, row) ==
    LET s == dispatcher[d].sub
        e == dispatcher[d].event IN
    /\ delivery' = [delivery EXCEPT ![s][e] = IF @ = Absent THEN Absent ELSE row]
    /\ UNCHANGED <<sub, written, audit, wants, operator, got, again, operations, crashes>>

Its(d) == delivery[dispatcher[d].sub][dispatcher[d].event]

Over(row, state) == [row EXCEPT !.state = state, !.claim = "none"]

Delivered(d) ==
    /\ dispatcher[d].pc = "accepted"
    /\ Settled(d, Over(Its(d), "delivered"))
    /\ Step(d, "succeeded")

Exhausted(d) == dispatcher[d].attempts >= MaxAttempts

Backed(row) == [row EXCEPT !.state = "pending", !.claim = "none", !.waits = TRUE]

RetryLater(d) ==
    /\ dispatcher[d].pc = "refused" /\ ~Exhausted(d)
    /\ Settled(d, Backed(Its(d)))
    /\ Rests(d)

GiveUp(d) ==
    /\ dispatcher[d].pc = "refused" /\ Exhausted(d)
    /\ Settled(d, Over(Its(d), "failed"))
    /\ Step(d, "exhausted")

\* The subscription is told in a transaction of its own.
SubscriptionSucceeded(d) ==
    LET s == dispatcher[d].sub IN
    /\ dispatcher[d].pc = "succeeded"
    /\ sub' = IF sub[s].is = "live" THEN [sub EXCEPT ![s].failures = 0] ELSE sub
    /\ Rests(d)
    /\ UNCHANGED <<delivery, written, audit, wants, operator, got, again,
                   operations, crashes>>

\* Mutant of Parks: the counter is compared before the increment.
ParksLate(s) == sub[s].failures >= ParkAfter

Parks(s) == sub[s].failures + 1 >= ParkAfter

Parked(rowsOf) == [e \in Events |->
    IF rowsOf[e].state = "pending" THEN Over(rowsOf[e], "parked") ELSE rowsOf[e]]

SubscriptionFailed(d) ==
    LET s == dispatcher[d].sub IN
    /\ dispatcher[d].pc = "exhausted"
    /\ Rests(d)
    /\ IF sub[s].is # "live"
       THEN UNCHANGED <<sub, delivery>>
       ELSE /\ sub' = [sub EXCEPT ![s].failures = @ + 1,
                                  ![s].parked = @ \/ Parks(s)]
            /\ delivery' = IF Parks(s) THEN [delivery EXCEPT ![s] = Parked(@)]
                           ELSE delivery
    /\ UNCHANGED <<written, audit, wants, operator, got, again, operations, crashes>>

\* The process dies, or something raises and run_forever goes on: the row stays
\* as it is until its lease runs out.
DispatcherLost(d) ==
    /\ dispatcher[d].pc # "idle" /\ crashes < MaxCrashes
    /\ Rests(d)
    /\ crashes' = crashes + 1
    /\ UNCHANGED <<rows, operator, got, operations>>

-----------------------------------------------------------------------------
(* Operators: the transactions that are an operation of their own ...      *)

Operates == operations < MaxOperations /\ operations' = operations + 1

Register(s) ==
    /\ sub[s].is = "new"
    /\ sub' = [sub EXCEPT ![s].is = "live", ![s].enabled = TRUE]
    /\ UNCHANGED <<delivery, written, audit, wants, dispatcher, operator, got,
                   again, operations, crashes>>

SetEnabled(s, enabled) ==
    /\ Operates
    /\ sub[s].is = "live" /\ sub[s].enabled # enabled
    /\ sub' = [sub EXCEPT ![s].enabled = enabled]
    /\ UNCHANGED <<delivery, written, audit, wants, dispatcher, operator, got,
                   again, crashes>>

DueNow(row) == [row EXCEPT !.state = "pending", !.waits = FALSE]
Revived(rowsOf) == [e \in Events |->
    IF rowsOf[e].state = "parked" THEN DueNow(rowsOf[e]) ELSE rowsOf[e]]

Resume(s) ==
    /\ Operates
    /\ sub[s].is = "live"
    /\ sub' = [sub EXCEPT ![s].parked = FALSE, ![s].failures = 0, ![s].enabled = TRUE]
    /\ delivery' = [delivery EXCEPT ![s] = Revived(@)]
    /\ UNCHANGED <<written, audit, wants, dispatcher, operator, got, again, crashes>>

Delete(s) ==
    /\ Operates
    /\ sub[s].is = "live"
    /\ sub' = [sub EXCEPT ![s] = [Unregistered EXCEPT !.is = "gone"]]
    /\ delivery' = [delivery EXCEPT ![s] = [e \in Events |-> Absent]]
    /\ UNCHANGED <<written, audit, wants, dispatcher, operator, got, again, crashes>>

-----------------------------------------------------------------------------
(* ... and those that read before they write. *)

Begins(p, what) ==
    /\ operator[p] = AtRest
    /\ Operates
    /\ operator' = [operator EXCEPT ![p] = what]
    /\ UNCHANGED <<rows, dispatcher, got, crashes>>

Redeliver(p, s, e) ==
    /\ delivery[s][e].state \in Redeliverable /\ Served(s)
    /\ Begins(p, [AtRest EXCEPT !.pc = "redelivering", !.sub = s, !.event = e])

Ping(p, s) ==
    /\ Served(s) /\ \E e \in Events : IsNext(e)
    /\ Begins(p, [AtRest EXCEPT !.pc = "pinging", !.sub = s])

\* The newest event of the order, which live subscriptions have no row for it,
\* and whose row is over.
Newest(e) == audit[e] = "recorded" /\ \A f \in Events : audit[f] = "recorded" => f <= e

ResendOrder(p) == \E e \in Events :
    /\ Newest(e)
    /\ Begins(p, [AtRest EXCEPT !.pc = "resending", !.event = e,
            !.missing = {s \in Live : delivery[s][e] = Absent},
            !.over = {s \in Live : delivery[s][e].state \in Redeliverable}])

\* _requeue is conditional on the row being over still.
Requeued(row) == [row EXCEPT !.state = "pending", !.claim = "none", !.attempts = 0,
                             !.waits = FALSE]

Requeue(rowsOf, those, e) == [s \in Subscriptions |->
    IF s \in those /\ rowsOf[s][e].state \in Redeliverable
    THEN [rowsOf[s] EXCEPT ![e] = Requeued(@)] ELSE rowsOf[s]]

SentAgain(those, e) == again' = [s \in Subscriptions |->
    IF s \in those /\ delivery[s][e].state \in Redeliverable
    THEN again[s] \cup {e} ELSE again[s]]

Ends(p) == operator' = [operator EXCEPT ![p] = AtRest]

RedeliverWrites(p) ==
    LET e == operator[p].event IN
    /\ operator[p].pc = "redelivering"
    /\ Ends(p)
    /\ delivery' = Requeue(delivery, {operator[p].sub}, e)
    /\ SentAgain({operator[p].sub}, e)
    /\ UNCHANGED <<sub, written, audit, wants, dispatcher, got, operations, crashes>>

\* A row that would be a second one, or one of a deleted subscription, fails
\* the transaction as a whole.
ResendWrites(p) ==
    LET e == operator[p].event
        missing == operator[p].missing
        commits == \A s \in missing : sub[s].is = "live" /\ delivery[s][e] = Absent IN
    /\ operator[p].pc = "resending"
    /\ Ends(p)
    /\ IF commits
       THEN /\ delivery' = Inserted(Requeue(delivery, operator[p].over, e), missing, e)
            /\ written' = written + Cardinality(missing)
            /\ SentAgain(operator[p].over, e)
       ELSE UNCHANGED <<delivery, written, again>>
    /\ UNCHANGED <<sub, audit, wants, dispatcher, got, operations, crashes>>

PingWrites(p) ==
    LET s == operator[p].sub IN
    /\ operator[p].pc = "pinging"
    /\ Ends(p)
    /\ IF sub[s].is = "live"
       THEN \E e \in Events :
            /\ IsNext(e)
            /\ audit' = [audit EXCEPT ![e] = "ping"]
            /\ delivery' = Inserted(delivery, {s}, e)
            /\ written' = written + 1
       ELSE UNCHANGED <<audit, delivery, written>>
    /\ UNCHANGED <<sub, wants, dispatcher, got, again, operations, crashes>>

-----------------------------------------------------------------------------

Init ==
    /\ sub = [s \in Subscriptions |-> Unregistered]
    /\ delivery = [s \in Subscriptions |-> [e \in Events |-> Absent]]
    /\ written = 0
    /\ audit = [e \in Events |-> "none"]
    /\ wants = [e \in Events |-> {}]
    /\ dispatcher = [d \in Dispatchers |-> Idle]
    /\ operator = [p \in Operators |-> AtRest]
    /\ got = [s \in Subscriptions |-> {}]
    /\ again = [s \in Subscriptions |-> {}]
    /\ operations = 0
    /\ crashes = 0

\* What a dispatcher does about a row it claimed, short of being lost.
Delivers(d) ==
    \/ Sign(d) \/ Post(d) \/ Delivered(d) \/ RetryLater(d) \/ GiveUp(d)
    \/ SubscriptionSucceeded(d) \/ SubscriptionFailed(d)

Finishes(p) == RedeliverWrites(p) \/ ResendWrites(p) \/ PingWrites(p)

Next ==
    \/ \E e \in Events : RecordBegins(e) \/ RecordCommits(e) \/ RecordFails(e)
    \/ \E d \in Dispatchers : Claim(d) \/ Delivers(d) \/ DispatcherLost(d)
    \/ \E s \in Subscriptions :
        \/ \E e \in Events : LeaseExpires(s, e) \/ BackoffEnds(s, e)
        \/ Register(s) \/ Resume(s) \/ Delete(s)
        \/ \E enabled \in BOOLEAN : SetEnabled(s, enabled)
        \/ \E p \in Operators :
            \/ \E e \in Events : Redeliver(p, s, e)
            \/ Ping(p, s)
    \/ \E p \in Operators : ResendOrder(p) \/ Finishes(p)

Spec == Init /\ [][Next]_vars

\* run_forever polls for as long as the process lives, a delivery that started
\* goes on, and time passes.  Endpoints, operators and crashes owe nothing.
Fairness ==
    /\ \A d \in Dispatchers : WF_vars(Claim(d)) /\ WF_vars(Delivers(d))
    /\ \A s \in Subscriptions, e \in Events :
        WF_vars(LeaseExpires(s, e)) /\ WF_vars(BackoffEnds(s, e))

FairSpec == Spec /\ Fairness

-----------------------------------------------------------------------------
(* Safety. *)

\* One subscription is served in order: while an event is in flight, nothing
\* queued for its endpoint before it is still owed, be it in flight itself or
\* backing off; save what somebody put back on the queue meanwhile.
InOrder == \A s \in Subscriptions, e, f \in Events :
    /\ delivery[s][e].state = "delivering"
    /\ delivery[s][f].state \in Owing
    /\ delivery[s][f].seq < delivery[s][e].seq
    => f \in again[s]

\* Parked rows belong to a parked subscription: what a parking sets aside is
\* set aside with the subscription and comes back with it, whatever was being
\* recorded, posted or settled while it was parked.
ParkedTogether == \A s \in Subscriptions, e \in Events :
    delivery[s][e].state = "parked" => sub[s].parked

\* Every exhausted delivery counts once, although it is counted in a transaction
\* after the one that gives the row up and other dispatchers serve the endpoint
\* in between; and the endpoint is parked at the count and not before.  (While
\* no success, operator or crash resets or loses a count.)
Counting(s) == {d \in Dispatchers :
    dispatcher[d].sub = s /\ dispatcher[d].pc = "exhausted"}
RowsIn(s, state) == {e \in Events : delivery[s][e].state = state}

CountedOnce == crashes = 0 /\ operations = 0 => \A s \in Subscriptions :
    RowsIn(s, "delivered") = {} =>
        /\ sub[s].failures = Cardinality(RowsIn(s, "failed")) - Cardinality(Counting(s))
        /\ sub[s].parked <=> sub[s].failures >= ParkAfter

\* The service implements what it promises an endpoint: a row is owed while it
\* is queued, in flight or parked.
StatusOf(s, e) ==
    IF sub[s].is = "gone" THEN "gone"
    ELSE CASE delivery[s][e].state = "absent" -> "none"
           [] delivery[s][e].state \in Redeliverable -> delivery[s][e].state
           [] OTHER -> IF e \in again[s] THEN "again" ELSE "owed"

Before(s, e) == {f \in Events :
    0 < delivery[s][f].seq /\ delivery[s][f].seq < delivery[s][e].seq}

Promise == INSTANCE EventDelivery WITH
    status <- [s \in Subscriptions |-> [e \in Events |-> StatusOf(s, e)]],
    before <- [s \in Subscriptions |-> [e \in Events |-> Before(s, e)]]

ImplementsPromise == Promise!Spec

\* The parts of the inductive invariant behind InOrder and ParkedTogether.  What
\* is under way is about a subscription and an event ...
InHand ==
    /\ \A d \in Dispatchers : dispatcher[d].pc # "idle" =>
        dispatcher[d].sub \in Subscriptions /\ dispatcher[d].event \in Events
    /\ \A p \in Operators :
        /\ operator[p].pc \in {"redelivering", "pinging"} =>
            operator[p].sub \in Subscriptions
        /\ operator[p].pc \in {"redelivering", "resending"} =>
            operator[p].event \in Events

\* ... a row is written behind every row there is, and goes with its
\* subscription ...
SeqsGrow == \A s \in Subscriptions, e \in Events :
    delivery[s][e].seq <= written /\ (sub[s].is = "gone" => delivery[s][e] = Absent)

\* ... an event has no rows before it is recorded, and is sent again only after ...
Unwritten ==
    /\ \A s \in Subscriptions, e \in Events :
        audit[e] \in {"none", "writing"} => delivery[s][e] = Absent
    /\ \A p \in Operators : operator[p].pc = "resending" =>
        audit[operator[p].event] = "recorded"

\* ... a dispatcher that believes it owns a row does, alone, unless the row was
\* deleted with its subscription ...
ClaimStands == \A d \in Dispatchers, s \in Subscriptions, e \in Events :
    Holds(d, s, e) =>
        /\ \/ sub[s].is = "gone"
           \/ delivery[s][e].state = "delivering" /\ delivery[s][e].claim = "held"
        /\ \A c \in Dispatchers : Holds(c, s, e) => c = d

\* ... and what is parked keeps its place, to be owed again after Resume.
Ordered == \A s \in Subscriptions, e, f \in Events :
    /\ delivery[s][e].state = "delivering"
    /\ delivery[s][f].state \in Owing \cup {"parked"}
    /\ delivery[s][f].seq < delivery[s][e].seq
    => f \in again[s]

DeliveryInv ==
    /\ TypeOK /\ InHand
    /\ SeqsGrow /\ Unwritten /\ ClaimStands /\ ParkedTogether /\ Ordered

-----------------------------------------------------------------------------
(* Liveness. *)

\* An event that was recorded for a subscription is delivered to it or given up
\* after its tries, through refusals, backoffs, lost dispatchers and whatever
\* else is queued, unless the subscription is paused, parked or deleted.
RecordedIsServed == \A s \in Subscriptions, e \in Events :
    audit[e] = "recorded" /\ s \in wants[e] ~>
        delivery[s][e].state \in Redeliverable \/ ~Served(s)

=============================================================================
