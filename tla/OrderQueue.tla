----------------------------- MODULE OrderQueue -----------------------------
(***************************************************************************)
(* The row of payment_order a payment lives in, the payment_attempt rows   *)
(* beside it, and everyone who writes them: the upload workers that claim, *)
(* upload and settle (queue.py, worker.py), the operators who replay       *)
(* (orders.py), and the download loop that applies status reports and      *)
(* returning bookings (reconcile.py, returns.py).  Each action is one      *)
(* database transaction or one exchange with the bank, in the order the    *)
(* handler makes them; what a process remembers between two of them is in  *)
(* `worker', `operator' or `reader'.                                       *)
(*                                                                         *)
(* Documents, keys and wording are left out: a message is the scheme of    *)
(* the attempt it was built for, and an EBICS return code is a member of   *)
(* RefusalCodes.  The bank is external and may answer anything.            *)
(***************************************************************************)
EXTENDS Integers, FiniteSets

CONSTANTS
    Orders,               \* the rows, named by payment_order.seq
    Workers,              \* upload workers, in one process or in several
    Operators,            \* people or API calls replaying orders
    RefusalCodes,         \* return codes that are raised as a refusal
    RetryableCodes,       \* ... of which repeating may change the answer
    Whitelist,            \* instant_refusal_codes of the connection
    OkCode, NoCode,       \* EBICS_OK, and NULL
    NoWorker,             \* NULL in payment_order.worker_id
    MaxAttempts,          \* queue.MAX_ATTEMPTS
    LeaseOutlivesUpload,  \* TRUE: no live upload takes longer than CLAIM_LEASE
    MaxReplays,           \* bound: replays of one order
    MaxCrashes            \* bound: processes lost in one behaviour

ASSUME OrdersAssumption == Orders \subseteq Nat \ {0} /\ IsFiniteSet(Orders)
ASSUME CodesAssumption ==
    /\ RetryableCodes \subseteq RefusalCodes
    /\ OkCode \notin RefusalCodes /\ NoCode \notin RefusalCodes
    /\ OkCode # NoCode
ASSUME BoundsAssumption ==
    /\ MaxAttempts \in Nat \ {0}
    /\ MaxReplays \in Nat
    /\ MaxCrashes \in Nat
ASSUME WorkersAssumption ==
    /\ NoWorker \notin Workers
    /\ LeaseOutlivesUpload \in BOOLEAN

VARIABLES
    order,      \* payment_order: one row per order
    attempt,    \* payment_attempt: one row per order and scheme
    worker,     \* what each worker is doing and what it read
    operator,   \* what each operator is doing
    reader,     \* what the download loop is doing
    bank,       \* external: what became of each message at the bank
    said,       \* history: the codes the bank answered about each message
    events,     \* the audit rows that are webhook events, per order
    replays,    \* history: how often each order was replayed
    crashes     \* history: how many processes were lost

vars == <<order, attempt, worker, operator, reader, bank, said, events,
          replays, crashes>>

-----------------------------------------------------------------------------
(* Types. *)

Schemes == {"instant", "normal"}
NoScheme == "none"
Messages == Schemes \cup {NoScheme}

OrderStates == {"accepted", "submitting", "submitted", "acknowledged",
                "rejected", "failed", "returned"}
Settled == OrderStates \ {"accepted", "submitting"}
Replayable == {"failed", "rejected"}

\* Mutant of ReconcilesFrom: an order that is being uploaded is moved as well.
ReconcilesFromUploading == {"accepted", "submitting", "submitted"}

ReconcilesFrom == {"accepted", "submitted"}
ReturnsFrom == {"submitted", "acknowledged"}

Codes == RefusalCodes \cup {OkCode, NoCode}

\* What a status report says: an acknowledgement that only checked the file
\* (ACTC, ACCP, ACFC), one with money under way, or a refusal.
Verdicts == {"checked", "settled", "refused"}

OrderRow == [
    state: OrderStates,
    worker: Workers \cup {NoWorker},
    claim: {"none", "held", "expired"},   \* claimed_at against CLAIM_LEASE
    attempts: Nat,
    scheme: Schemes,
    transaction: BOOLEAN,                 \* transaction_id is set
    named: BOOLEAN,                       \* bank_order_id is set
    waits: BOOLEAN,                       \* next_attempt_at is in the future
    verdict: Verdicts \cup {"none"}]      \* bank_status

AttemptRow == [state: {"absent", "planned", "live", "superseded"},
               code: Codes]

OrderEvents == {"payment.submitted", "payment.rejected", "payment.failed",
                "payment.scheme_downgraded", "payment.acknowledged",
                "payment.returned", "payment.replay_requested"}

EventOf == [s \in Settled |-> CASE s = "submitted"    -> "payment.submitted"
                                [] s = "acknowledged" -> "payment.acknowledged"
                                [] s = "rejected"     -> "payment.rejected"
                                [] s = "failed"       -> "payment.failed"
                                [] s = "returned"     -> "payment.returned"]

\* The steps of OrderWorker._deliver.  In `Uploading' the worker believes it
\* owns the order; "answered" and "settled" are the two transactions a
\* settlement makes after the one that moved the order.
Uploading == {"claimed", "announcing", "opened", "sending", "done",
              "refused", "unknown"}
Settling == {"answered", "settled"}

WorkerState == [
    pc: {"idle"} \cup Uploading \cup Settling,
    order: Orders \cup {0},
    tries: Nat,                     \* ClaimedOrder.attempts
    scheme: Messages,               \* ClaimedOrder.order.scheme
    sends: Messages,                \* the live attempt it read
    named: BOOLEAN,                 \* the bank gave an OrderID
    answer: Codes,
    event: OrderEvents \cup {"none"}]

Idle == [pc |-> "idle", order |-> 0, tries |-> 0, scheme |-> NoScheme,
         sends |-> NoScheme, named |-> FALSE, answer |-> NoCode,
         event |-> "none"]

OperatorState == [pc: {"idle", "checked", "requeued"}, order: Orders \cup {0}]
ReaderState == [order: Orders \cup {0}, event: OrderEvents \cup {"none"}]

AtRest == [pc |-> "idle", order |-> 0]
NothingRead == [order |-> 0, event |-> "none"]

Fates == {"unseen", "taken", "checked", "settled", "refused", "returned"}

TypeOK ==
    /\ order \in [Orders -> OrderRow]
    /\ attempt \in [Orders -> [Schemes -> AttemptRow]]
    /\ worker \in [Workers -> WorkerState]
    /\ operator \in [Operators -> OperatorState]
    /\ reader \in ReaderState
    /\ bank \in [Orders -> [Schemes -> Fates]]
    /\ said \in [Orders -> [Schemes -> SUBSET Codes]]
    /\ events \in [Orders -> SUBSET OrderEvents]
    /\ replays \in [Orders -> Nat]
    /\ crashes \in Nat

-----------------------------------------------------------------------------
(* Reading the rows. *)

\* AttemptStore._one: the first attempt of the order in that state, or none.
Those(o, state) == {s \in Schemes : attempt[o][s].state = state}
One(o, state) ==
    IF Those(o, state) = {} THEN NoScheme
    ELSE CHOOSE s \in Those(o, state) : "instant" \in Those(o, state) => s = "instant"

Holds(w, o) == worker[w].order = o /\ worker[w].pc \in Uploading

\* A settlement clears the claim columns in the statement that moves the row.
Closed(row, state) == [row EXCEPT !.state = state, !.worker = NoWorker,
                                  !.claim = "none", !.waits = FALSE]

Step(w, pc) == worker' = [worker EXCEPT ![w].pc = pc]

-----------------------------------------------------------------------------
(* The claim, and the lease. *)

\* Mutants of Claimable: the lease is not compared; an expired lease is nobody's.
ClaimableUnleased(o) ==
    \/ order[o].state = "accepted" /\ ~order[o].waits
    \/ order[o].state = "submitting"

ClaimableOnce(o) == order[o].state = "accepted" /\ ~order[o].waits

Claimable(o) ==
    \/ order[o].state = "accepted" /\ ~order[o].waits
    \/ order[o].state = "submitting" /\ order[o].claim = "expired"

\* One conditional UPDATE takes the oldest claimable row, and only that row.
Claim(w) ==
    /\ worker[w] = Idle
    /\ \E o \in Orders :
        /\ Claimable(o)
        /\ \A p \in Orders : Claimable(p) => o <= p
        /\ order' = [order EXCEPT ![o].state = "submitting", ![o].worker = w,
                                  ![o].claim = "held", ![o].attempts = @ + 1]
        /\ worker' = [worker EXCEPT ![w] =
                [Idle EXCEPT !.pc = "claimed", !.order = o,
                             !.tries = order[o].attempts + 1,
                             !.scheme = order[o].scheme]]
    /\ UNCHANGED <<attempt, operator, reader, bank, said, events, replays, crashes>>

\* Time passes CLAIM_LEASE.  Where LeaseOutlivesUpload, only over an order that
\* no live worker is uploading.
LeaseExpires(o) ==
    /\ order[o].state = "submitting" /\ order[o].claim = "held"
    /\ LeaseOutlivesUpload => \A w \in Workers : ~Holds(w, o)
    /\ order' = [order EXCEPT ![o].claim = "expired"]
    /\ UNCHANGED <<attempt, worker, operator, reader, bank, said, events, replays, crashes>>

BackoffEnds(o) ==
    /\ order[o].waits
    /\ order' = [order EXCEPT ![o].waits = FALSE]
    /\ UNCHANGED <<attempt, worker, operator, reader, bank, said, events, replays, crashes>>

-----------------------------------------------------------------------------
(* The upload. *)

\* The live attempt is read in a transaction of its own, after the claim.  An
\* order with no attempt row is announced from the order as it was claimed.
ReadAttempt(w) ==
    /\ worker[w].pc = "claimed"
    /\ LET live == One(worker[w].order, "live")
       IN  worker' = [worker EXCEPT ![w].pc = "announcing",
                        ![w].sends = IF live = NoScheme THEN worker[w].scheme ELSE live]
    /\ UNCHANGED <<order, attempt, operator, reader, bank, said, events, replays, crashes>>

\* Everything that ends an upload without a parsed refusal: no keys, no
\* initialised connection, a transport error, an answer that will not parse.
Fails(w) ==
    /\ worker[w].pc \in {"claimed", "announcing", "opened", "sending"}
    /\ Step(w, "unknown")
    /\ UNCHANGED <<order, attempt, operator, reader, bank, said, events, replays, crashes>>

\* The initialisation exchange.  The bank assigns a TransactionID, and on some
\* banks the OrderID with it.
Announce(w) ==
    /\ worker[w].pc = "announcing"
    /\ \E named \in BOOLEAN :
        worker' = [worker EXCEPT ![w].pc = "opened", ![w].named = named]
    /\ UNCHANGED <<order, attempt, operator, reader, bank, said, events, replays, crashes>>

\* OrderQueue.opened: the TransactionID is persisted before a segment goes out.
Opened(w) ==
    LET o == worker[w].order IN
    /\ worker[w].pc = "opened"
    /\ order' = [order EXCEPT ![o].transaction = TRUE,
                              ![o].named = @ \/ worker[w].named]
    /\ Step(w, "sending")
    /\ UNCHANGED <<attempt, operator, reader, bank, said, events, replays, crashes>>

\* The last segment reaches the bank, which keeps one file per MsgId, and its
\* answer comes back or is lost.
BankTakes(o, m) ==
    bank' = [bank EXCEPT ![o][m] = IF @ = "unseen" THEN "taken" ELSE @]

SendAll(w) ==
    LET o == worker[w].order
        m == worker[w].sends IN
    /\ worker[w].pc = "sending"
    /\ BankTakes(o, m)
    /\ \/ /\ \E named \in BOOLEAN :
                worker' = [worker EXCEPT ![w].pc = "done", ![w].answer = OkCode,
                                         ![w].named = @ \/ named]
          /\ said' = [said EXCEPT ![o][m] = @ \cup {OkCode}]
       \/ Step(w, "unknown") /\ UNCHANGED said
    /\ UNCHANGED <<order, attempt, operator, reader, events, replays, crashes>>

\* A parsed, definitive answer that is not OK, to either exchange.
BankRefuses(w) ==
    LET o == worker[w].order IN
    /\ worker[w].pc \in {"announcing", "sending"}
    /\ \E c \in RefusalCodes :
        /\ worker' = [worker EXCEPT ![w].pc = "refused", ![w].answer = c]
        /\ said' = [said EXCEPT ![o][worker[w].sends] = @ \cup {c}]
    /\ UNCHANGED <<order, attempt, operator, reader, bank, events, replays, crashes>>

-----------------------------------------------------------------------------
(* How it went.  _settle and _update name the row by order_id alone. *)

MustRetry(w) ==
    \/ worker[w].pc = "unknown"
    \/ worker[w].pc = "refused" /\ worker[w].answer \in RetryableCodes

Exhausted(w) == worker[w].tries >= MaxAttempts

IsFinal(w) == worker[w].pc = "refused" /\ worker[w].answer \notin RetryableCodes

\* Mutant of Settle: an outcome with no return code is not recorded.
SettleUnheard(w, row, event) ==
    /\ order' = [order EXCEPT ![worker[w].order] = row]
    /\ worker' = [worker EXCEPT ![w] =
            IF worker[w].answer = NoCode THEN Idle
            ELSE [@ EXCEPT !.pc = "answered", !.event = event]]
    /\ UNCHANGED <<attempt, operator, reader, bank, said, events, replays, crashes>>

Settle(w, row, event) ==
    /\ order' = [order EXCEPT ![worker[w].order] = row]
    /\ worker' = [worker EXCEPT ![w].pc = "answered", ![w].event = event]
    /\ UNCHANGED <<attempt, operator, reader, bank, said, events, replays, crashes>>

Submitted(w) ==
    LET row == order[worker[w].order] IN
    /\ worker[w].pc = "done"
    /\ Settle(w, [Closed(row, "submitted") EXCEPT !.named = worker[w].named],
              "payment.submitted")

\* retry_later below the ceiling: back to accepted, with a wait in front of it.
\* The TransactionID stays on the row.
RetryLater(w) ==
    LET o == worker[w].order IN
    /\ MustRetry(w) /\ ~Exhausted(w)
    /\ order' = [order EXCEPT ![o] = [Closed(@, "accepted") EXCEPT !.waits = TRUE]]
    /\ worker' = [worker EXCEPT ![w] = Idle]
    /\ UNCHANGED <<attempt, operator, reader, bank, said, events, replays, crashes>>

GiveUp(w) ==
    /\ MustRetry(w) /\ Exhausted(w)
    /\ Settle(w, Closed(order[worker[w].order], "failed"), "payment.failed")

\* Mutant of MayPromote: it does not look at the TransactionID and the OrderID.
MayPromoteUnread(w) ==
    /\ worker[w].answer \in Whitelist
    /\ worker[w].scheme = "instant"
    /\ One(worker[w].order, "planned") # NoScheme
    /\ order[worker[w].order].state = "submitting"
    /\ order[worker[w].order].worker = w
    /\ order[worker[w].order].scheme = "instant"

\* The five conditions of fall_back.  The planned attempt is read before the
\* conditional UPDATE; nothing but a promotion unplans it, and a promotion
\* ends scheme = instant, so the pair decides as one.
MayPromote(w) ==
    LET row == order[worker[w].order] IN
    /\ worker[w].answer \in Whitelist
    /\ worker[w].scheme = "instant"
    /\ One(worker[w].order, "planned") # NoScheme
    /\ row.state = "submitting" /\ row.worker = w
    /\ row.scheme = "instant"
    /\ ~row.transaction /\ ~row.named

\* Mutant of Promoted: what was live is left as it was.
PromotedBeside(rows, reserve, code) ==
    [rows EXCEPT ![reserve].state = "live"]

\* The reserve becomes live and what was live is superseded, in one transaction.
Promoted(rows, reserve, code) == [s \in Schemes |->
    IF s = reserve THEN [rows[s] EXCEPT !.state = "live"]
    ELSE IF rows[s].state = "live" THEN [state |-> "superseded", code |-> code]
    ELSE rows[s]]

FallBack(w) ==
    LET o == worker[w].order
        reserve == One(o, "planned") IN
    /\ IsFinal(w) /\ MayPromote(w)
    /\ order' = [order EXCEPT ![o] =
            [Closed(@, "accepted") EXCEPT !.attempts = 0, !.scheme = reserve,
                                          !.transaction = FALSE]]
    /\ attempt' = [attempt EXCEPT ![o] = Promoted(@, reserve, worker[w].answer)]
    /\ worker' = [worker EXCEPT ![w].pc = "settled",
                                ![w].event = "payment.scheme_downgraded"]
    /\ UNCHANGED <<operator, reader, bank, said, events, replays, crashes>>

Refused(w) ==
    /\ IsFinal(w) /\ ~MayPromote(w)
    /\ Settle(w, Closed(order[worker[w].order], "rejected"), "payment.rejected")

\* Mutant of Answered: every attempt that was sent gets the answer.
AnsweredAll(rows, code) == [s \in Schemes |->
    IF rows[s].state \in {"live", "superseded"}
    THEN [rows[s] EXCEPT !.code = code] ELSE rows[s]]

Answered(rows, code) == [s \in Schemes |->
    IF rows[s].state = "live" THEN [rows[s] EXCEPT !.code = code] ELSE rows[s]]

\* The bank's answer goes on whichever attempt is live by now ...
RecordAnswer(w) ==
    LET o == worker[w].order IN
    /\ worker[w].pc = "answered"
    /\ attempt' = [attempt EXCEPT ![o] = Answered(@, worker[w].answer)]
    /\ Step(w, "settled")
    /\ UNCHANGED <<order, operator, reader, bank, said, events, replays, crashes>>

\* ... and then the audit row and the events it owes are written.
RecordEvent(w) ==
    /\ worker[w].pc = "settled"
    /\ events' = [events EXCEPT ![worker[w].order] = @ \cup {worker[w].event}]
    /\ worker' = [worker EXCEPT ![w] = Idle]
    /\ UNCHANGED <<order, attempt, operator, reader, bank, said, replays, crashes>>

\* The process dies, or a write of the outcome raises and run_forever goes on
\* to the next order: what the worker knew is gone and the row stays as it is.
WorkerLost(w) ==
    /\ worker[w].pc # "idle" /\ crashes < MaxCrashes
    /\ worker' = [worker EXCEPT ![w] = Idle]
    /\ crashes' = crashes + 1
    /\ UNCHANGED <<order, attempt, operator, reader, bank, said, events, replays>>

-----------------------------------------------------------------------------
(* OrderStore.replay: a read, an unconditional UPDATE, an audit row. *)

CheckReplay(p, o) ==
    /\ operator[p] = AtRest
    /\ order[o].state \in Replayable
    /\ replays[o] < MaxReplays
    /\ operator' = [operator EXCEPT ![p] = [pc |-> "checked", order |-> o]]
    /\ UNCHANGED <<order, attempt, worker, reader, bank, said, events, replays, crashes>>

Replayed(row) == [Closed(row, "accepted") EXCEPT !.attempts = 0, !.transaction = FALSE]

Replay(p) ==
    LET o == operator[p].order IN
    /\ operator[p].pc = "checked"
    /\ order' = [order EXCEPT ![o] = Replayed(@)]
    /\ replays' = [replays EXCEPT ![o] = @ + 1]
    /\ operator' = [operator EXCEPT ![p].pc = "requeued"]
    /\ UNCHANGED <<attempt, worker, reader, bank, said, events, crashes>>

RecordReplay(p) ==
    /\ operator[p].pc = "requeued"
    /\ events' = [events EXCEPT ![operator[p].order] = @ \cup {"payment.replay_requested"}]
    /\ operator' = [operator EXCEPT ![p] = AtRest]
    /\ UNCHANGED <<order, attempt, worker, reader, bank, said, replays, crashes>>

-----------------------------------------------------------------------------
(* The download loop: what the bank says later about a message it took. *)

\* StatusReconciler._move: from accepted or submitted; or a later refusal of an
\* acknowledgement that only checked the file.
Movable(o, v) ==
    IF /\ v = "refused" /\ order[o].state = "acknowledged"
       /\ order[o].verdict = "checked"
    THEN TRUE
    ELSE order[o].state \in ReconcilesFrom

ReportedState(v) == IF v = "refused" THEN "rejected" ELSE "acknowledged"

\* The bank decides about a message it has, and the report of it is applied.
StatusReport(o, m, v) ==
    /\ reader = NothingRead
    /\ bank[o][m] \in {"taken", "checked"} /\ v # bank[o][m]
    /\ bank' = [bank EXCEPT ![o][m] = v]
    /\ IF Movable(o, v)
       THEN /\ order' = [order EXCEPT ![o] =
                    [Closed(@, ReportedState(v)) EXCEPT !.verdict = v]]
            /\ reader' = [order |-> o, event |-> EventOf[ReportedState(v)]]
       ELSE UNCHANGED <<order, reader>>     \* payment.status_ignored
    /\ UNCHANGED <<attempt, worker, operator, said, events, replays, crashes>>

\* ReturnMatcher._return: a booking undoes the debit of a message the bank took.
ReturnBooked(o, m) ==
    /\ reader = NothingRead
    /\ bank[o][m] \in {"taken", "checked", "settled"}
    /\ bank' = [bank EXCEPT ![o][m] = "returned"]
    /\ IF order[o].state \in ReturnsFrom
       THEN /\ order' = [order EXCEPT ![o] = Closed(@, "returned")]
            /\ reader' = [order |-> o, event |-> "payment.returned"]
       ELSE UNCHANGED <<order, reader>>
    /\ UNCHANGED <<attempt, worker, operator, said, events, replays, crashes>>

RecordMove ==
    /\ reader # NothingRead
    /\ events' = [events EXCEPT ![reader.order] = @ \cup {reader.event}]
    /\ reader' = NothingRead
    /\ UNCHANGED <<order, attempt, worker, operator, bank, said, replays, crashes>>

ReaderLost ==
    /\ reader # NothingRead /\ crashes < MaxCrashes
    /\ reader' = NothingRead
    /\ crashes' = crashes + 1
    /\ UNCHANGED <<order, attempt, worker, operator, bank, said, events, replays>>

-----------------------------------------------------------------------------

\* OrderStore.submit inserts the order and its attempts in one transaction.
Requests == {"normal", "instant", "instant_or_normal"}

FirstScheme(request) == IF request = "normal" THEN "normal" ELSE "instant"

FirstAttempts(request) == [s \in Schemes |->
    [state |-> IF s = FirstScheme(request) THEN "live"
               ELSE IF request = "instant_or_normal" THEN "planned"
               ELSE "absent",
     code |-> NoCode]]

Init ==
    /\ \E request \in [Orders -> Requests] :
        /\ order = [o \in Orders |->
                [state |-> "accepted", worker |-> NoWorker, claim |-> "none",
                 attempts |-> 0, scheme |-> FirstScheme(request[o]),
                 transaction |-> FALSE, named |-> FALSE, waits |-> FALSE,
                 verdict |-> "none"]]
        /\ attempt = [o \in Orders |-> FirstAttempts(request[o])]
    /\ worker = [w \in Workers |-> Idle]
    /\ operator = [p \in Operators |-> AtRest]
    /\ reader = NothingRead
    /\ bank = [o \in Orders |-> [s \in Schemes |-> "unseen"]]
    /\ said = [o \in Orders |-> [s \in Schemes |-> {}]]
    /\ events = [o \in Orders |-> {}]
    /\ replays = [o \in Orders |-> 0]
    /\ crashes = 0

\* What a worker does about an order it holds, short of being lost.
Works(w) ==
    \/ ReadAttempt(w) \/ Fails(w) \/ Announce(w) \/ Opened(w)
    \/ SendAll(w) \/ BankRefuses(w)
    \/ Submitted(w) \/ RetryLater(w) \/ GiveUp(w) \/ FallBack(w) \/ Refused(w)
    \/ RecordAnswer(w) \/ RecordEvent(w)

Next ==
    \/ \E w \in Workers : Claim(w) \/ Works(w) \/ WorkerLost(w)
    \/ \E o \in Orders : LeaseExpires(o) \/ BackoffEnds(o)
    \/ \E p \in Operators :
        \/ \E o \in Orders : CheckReplay(p, o)
        \/ Replay(p)
        \/ RecordReplay(p)
    \/ \E o \in Orders, m \in Schemes :
        \/ \E v \in Verdicts : StatusReport(o, m, v)
        \/ ReturnBooked(o, m)
    \/ RecordMove
    \/ ReaderLost

Spec == Init /\ [][Next]_vars

\* run_forever polls for as long as the process lives, time passes, and a
\* handler that started goes on.  Banks, operators and crashes owe nothing.
Fairness ==
    /\ \A w \in Workers : WF_vars(Claim(w)) /\ WF_vars(Works(w))
    /\ \A o \in Orders : WF_vars(LeaseExpires(o)) /\ WF_vars(BackoffEnds(o))
    /\ \A p \in Operators : WF_vars(Replay(p)) /\ WF_vars(RecordReplay(p))
    /\ WF_vars(RecordMove)

FairSpec == Spec /\ Fairness

-----------------------------------------------------------------------------
(* Safety.  The claim promises exclusion only while no upload outlives its  *)
(* lease and one operator replays at a time; runs that give either up show  *)
(* what is lost.                                                            *)

\* One worker at a time is between claiming an order and recording how it went:
\* the claim is the atomic UPDATE of OrderQueue.claim, and an expired lease is
\* handed on only once its worker is gone.
OneUploader == \A o \in Orders, v, w \in Workers :
    Holds(v, o) /\ Holds(w, o) => v = w

\* The bank has at most one message of an order, across retries, lost answers,
\* crashes and the fallback from instant to normal, until somebody replays it.
OneMessageUnlessReplayed == \A o \in Orders :
    (\A m \in Schemes : bank[o][m] # "unseen") => replays[o] > 0

\* The live attempt is exactly one and is the message the order carries: an
\* instant that is gone beside a reserve that is not yet live is a state no
\* reader may observe.
LiveAttemptIsTheOrders == \A o \in Orders : Those(o, "live") = {order[o].scheme}

\* A return code stands on the attempt whose message provoked it, although it
\* is written to whichever attempt is live in a transaction after the
\* settlement.
AnswerOnItsAttempt == \A o \in Orders, s \in Schemes :
    \/ replays[o] > 0
    \/ attempt[o][s].code \in {NoCode} \cup said[o][s]

\* While no process is lost, an order in a settled state has the event for that
\* state in the audit log, or somebody is still about to write it: no settled
\* order is silent.
EventUnlessLost == crashes = 0 => \A o \in Orders :
    order[o].state \in Settled =>
        LET owed == EventOf[order[o].state] IN
        \/ owed \in events[o]
        \/ \E w \in Workers : /\ worker[w].order = o /\ worker[w].event = owed
                              /\ worker[w].pc \in Settling
        \/ reader = [order |-> o, event |-> owed]

\* The parts of the inductive invariant behind the properties above.  What a
\* process remembers is about an order, a message and an event it may write.
InHand ==
    /\ \A w \in Workers :
        /\ worker[w].pc # "idle" => /\ worker[w].order \in Orders
                                    /\ worker[w].scheme \in Schemes
        /\ worker[w].pc \in {"announcing", "opened", "sending", "done"} =>
            worker[w].sends \in Schemes
        /\ worker[w].pc \in Settling => worker[w].event # "none"
    /\ \A p \in Operators : operator[p].pc # "idle" => operator[p].order \in Orders
    /\ reader # NothingRead => reader.order \in Orders /\ reader.event # "none"

\* A worker that believes it owns an order does, and an operator who saw an
\* order he may replay still sees one.
ClaimIsOurs == \A w \in Workers, o \in Orders : Holds(w, o) =>
    order[o].state = "submitting" /\ order[o].worker = w /\ order[o].claim = "held"

CheckStands == \A p \in Operators : operator[p].pc = "checked" =>
    order[operator[p].order].state \in Replayable

\* What is on the wire: the worker sends the order's message, after the
\* TransactionID of it was persisted, and the bank has no other.
SendsTheOrders == \A w \in Workers : LET o == worker[w].order IN
    /\ worker[w].pc \in {"announcing", "opened", "sending"} =>
        worker[w].sends = order[o].scheme
    /\ worker[w].pc = "sending" => order[o].transaction
    /\ worker[w].pc = "done" => bank[o][worker[w].sends] # "unseen"

BankHasTheOrders == \A o \in Orders, m \in Schemes :
    bank[o][m] # "unseen" /\ replays[o] = 0 =>
        m = order[o].scheme /\ order[o].transaction

\* An answer in hand is one the bank gave about the order's message, and an
\* outcome in hand is of an order nobody claims until it is replayed.
AnswerInHand == \A w \in Workers : LET o == worker[w].order IN
    /\ worker[w].pc \in Uploading \ {"done", "refused"} => worker[w].answer = NoCode
    /\ worker[w].pc \in {"done", "refused"} =>
        /\ worker[w].sends = order[o].scheme
        /\ worker[w].answer \in said[o][order[o].scheme]
    /\ worker[w].pc = "answered" =>
        \/ replays[o] > 0
        \/ /\ order[o].state \in Settled
           /\ worker[w].answer \in {NoCode} \cup said[o][order[o].scheme]

\* Every claim is paid for by a try below the ceiling or by a lost worker.
ClaimsPaid == \A o \in Orders :
    /\ order[o].attempts <= MaxAttempts + crashes
    /\ order[o].state = "accepted" => order[o].attempts < MaxAttempts
    /\ order[o].state = "submitting" =>
        \/ order[o].attempts < MaxAttempts + crashes
        \/ \E w \in Workers : Holds(w, o)
    /\ \A w \in Workers : Holds(w, o) => worker[w].tries = order[o].attempts

QueueInv ==
    /\ TypeOK /\ InHand /\ LiveAttemptIsTheOrders
    /\ ClaimIsOurs /\ CheckStands /\ SendsTheOrders /\ BankHasTheOrders
    /\ ClaimsPaid /\ AnswerInHand

\* The service implements the lifecycle it promises: claims, leases, attempts
\* and stale workers never show as a step PaymentLifecycle does not have.
Lifecycle == INSTANCE PaymentLifecycle WITH
    state <- [o \in Orders |-> order[o].state],
    sent <- [o \in Orders |-> {m \in Schemes : bank[o][m] # "unseen"}],
    replayed <- [o \in Orders |-> replays[o] > 0]

ImplementsLifecycle == Lifecycle!Spec

\* Every accepted order ends: submitted, judged, refused or given up on, through
\* lost answers, retries, a fallback, expired leases and lost workers.
SettlesEventually == \A o \in Orders :
    order[o].state \in {"accepted", "submitting"} ~> order[o].state \in Settled

=============================================================================
