--------------------------- MODULE StatusReports ---------------------------
(***************************************************************************)
(* What happens to a downloaded document once it is stored: statements.py  *)
(* inserts it, reconcile.py reads a pain.002 and moves the order it        *)
(* answers, returns.py reads a camt and ties a booking to the order whose  *)
(* money it books back, or asks a person whether it does.  Each step of a  *)
(* reader is one transaction; several downloads and one re-reading of      *)
(* everything stored run at once.                                          *)
(*                                                                         *)
(* A document is what its payload says, a message is <<order, n>> with n   *)
(* the attempt it was built for, and a bank date is a number, 0 for none.  *)
(* Uploads are in OrderQueue; here an upload is its outcome.               *)
(***************************************************************************)
EXTENDS Integers, FiniteSets, Sequences

CONSTANTS
    Orders, NoOrder,
    Downloads,        \* readers that store what the bank serves
    Rereadings,       \* readers that go through everything stored again
    People,           \* who confirm, dismiss and replay
    Statements,       \* every document the bank may serve
    Says,             \* ... and what it says
    Reference,        \* what the transfer of an order is recognised by
    NoBooking,
    ConfirmsOpen,     \* TRUE: a suspicion is open when its confirmation is read
    Sessions,         \* bound: sets of documents served in one behaviour
    MaxReplays,       \* bound: replays of one order
    MaxFaults         \* bound: applications that fail or die half way

VARIABLES
    order,      \* payment_order
    fate,       \* external: what became of each message at the bank
    kept,       \* the statement table
    reader,     \* what each reader is doing and what it read
    person,     \* what each person read before acting on it
    told,       \* the audit rows written about each document
    replays,    \* history: how often each order was replayed
    faults,     \* history: how many applications were lost
    calm        \* history: an undisturbed re-reading is running, or just ended

statusVars == <<order, fate, kept, reader, person, told, replays, faults, calm>>

Readers == Downloads \cup Rereadings

-----------------------------------------------------------------------------
(* What a document says. *)

\* A code by what it does: ACTC ACCP ACFC | ACSP and after | PART PATC |
\* RJCT CANC | RCVD PDNG BLCK | a code nobody taught this service.
StatusCodes == {"checked", "settled", "part", "refused", "undecided"}
Accepts == {"checked", "settled", "part"}
Given == StatusCodes \cup {"new", "none"}
Revocable == {"checked"}
Words == Accepts \cup {"refused", "none"}

Messages == Orders \X {1, 2}

\* pain.002: GrpHdr, OrgnlGrpInfAndSts and the statuses of the levels below.
Report == [
    kind: {"report"},
    names: Messages \cup {<<NoOrder, 0>>},   \* OrgnlMsgId
    group: Given,                            \* GrpSts
    transactions: Seq(Given), blocks: Seq(Given),
    written: Nat]                            \* CreDtTm

\* camt: one booked credit, with or without RtrInf, a reversal or RRTN.
Booking == [
    kind: {"marked", "unmarked"},
    names: Messages \cup {<<NoOrder, 0>>},   \* MsgId, or PmtInfId
    reference: Nat,                          \* EndToEndId, or creditor and amount
    booking: Nat,                            \* AcctSvcrRef
    whole: BOOLEAN,                          \* the whole sum of the order
    written: Nat]

Document == Report \cup Booking

ASSUME StatementsAssumption == Statements # {} /\ \A d \in Statements : Says[d] \in Document
ASSUME StatusBoundsAssumption == {MaxReplays, MaxFaults} \subseteq Nat /\ ConfirmsOpen \in BOOLEAN

Disposition(code) == CASE code \in Accepts  -> "accepts"
                       [] code = "refused"  -> "refuses"
                       [] OTHER             -> "waits"

\* _unanimous: the first level below that agrees, in words this service knows.
Agrees(level) ==
    LET said == {level[i] : i \in DOMAIN level} IN
    said # {} /\ (said \subseteq Accepts \/ said = {"refused"})

Unanimous(d) == IF Agrees(Says[d].transactions) THEN Says[d].transactions[1]
                ELSE IF Agrees(Says[d].blocks) THEN Says[d].blocks[1]
                ELSE "none"

\* resolve: the headline, or what the levels below say with one voice.
Resolve(d) == IF Says[d].group = "none" THEN Unanimous(d) ELSE Says[d].group

Decides(d) == Disposition(Resolve(d)) # "waits"

StateOf(d) == IF Resolve(d) = "refused" THEN "rejected" ELSE "acknowledged"

-----------------------------------------------------------------------------
(* Types. *)

ReconcilesFrom == {"accepted", "submitted"}
ReturnsFrom == {"submitted", "acknowledged"}
OrderStates == {"accepted", "submitting", "submitted", "acknowledged",
                "rejected", "returned"}

Bookings == {NoBooking} \cup {Says[d].booking : d \in {e \in Statements : Says[e].kind # "report"}}

OrderRow == [
    state: OrderStates,
    live: {1, 2},                        \* the attempt that is sent
    verdict: Words,                      \* bank_status
    dated: Nat,                          \* status_reported_at, 0 for NULL
    suspect: Bookings,                   \* return_suspected_entry_ref
    doubt: {"none", "open", "dismissed"},
    returned: Bookings,                  \* return_entry_ref
    matched: {"none", "bank", "operator"}]

ReaderState == [
    pc: {"idle", "stored", "read", "decide", "moved", "booked", "like", "raised"},
    doc: Statements,
    rest: SUBSET Statements,             \* what a re-reading has still to read
    again: BOOLEAN,                      \* replay=True
    order: Orders \cup {NoOrder},
    revoked: Words]

Nobody == [pc |-> "idle", doc |-> CHOOSE d \in Statements : TRUE, rest |-> {},
           again |-> FALSE, order |-> NoOrder, revoked |-> "none"]

PersonState == [pc: {"idle", "confirming"}, order: Orders \cup {NoOrder},
                booking: Bookings]
NoDecision == [pc |-> "idle", order |-> NoOrder, booking |-> NoBooking]

Endings == {"available", "status_unmatched", "status_reported", "status_ignored",
            "acknowledged", "rejected", "returned", "return_partial",
            "return_suspected"}

StatusTypeOK ==
    /\ order \in [Orders -> OrderRow]
    /\ fate \in [Messages -> {"unseen", "taken", "refused"}]
    /\ kept \subseteq Statements
    /\ reader \in [Readers -> ReaderState]
    /\ person \in [People -> PersonState]
    /\ told \in [Statements -> SUBSET Endings]
    /\ replays \in [Orders -> Nat]
    /\ faults \in Nat
    /\ calm \in {"no", "reading", "settled"}

-----------------------------------------------------------------------------
(* The upload, as its outcomes (worker.py, queue.py), and the replay. *)

Uploads(o, from, row) ==
    /\ order[o].state = from
    /\ order' = [order EXCEPT ![o] = row]
    /\ UNCHANGED <<kept, reader, person, told, replays, faults>>

ClaimOrder(o) == Uploads(o, "accepted", [order[o] EXCEPT !.state = "submitting"])
                 /\ UNCHANGED fate

Take(o) == fate' = [fate EXCEPT ![<<o, order[o].live>>] = "taken"]

\* The answer arrives, or is lost with the file already taken, or nothing was.
Submit(o) == Uploads(o, "submitting", [order[o] EXCEPT !.state = "submitted"]) /\ Take(o)
RetryLater(o) == Uploads(o, "submitting", [order[o] EXCEPT !.state = "accepted"])
                 /\ (Take(o) \/ UNCHANGED fate)

BankRefuses(o) ==
    fate' = [fate EXCEPT ![<<o, order[o].live>>] = IF @ = "taken" THEN @ ELSE "refused"]

Refuse(o) == Uploads(o, "submitting", [order[o] EXCEPT !.state = "rejected"])
             /\ BankRefuses(o)

\* The instant message was refused and nothing of it was taken.
FallBack(o) ==
    /\ order[o].live = 1 /\ fate[<<o, 1>>] # "taken"
    /\ Uploads(o, "submitting", [order[o] EXCEPT !.state = "accepted", !.live = 2])
    /\ fate' = [fate EXCEPT ![<<o, 1>>] = "refused"]

Replay(o) ==
    /\ order[o].state = "rejected" /\ replays[o] < MaxReplays
    /\ order' = [order EXCEPT ![o].state = "accepted"]
    /\ replays' = [replays EXCEPT ![o] = @ + 1]
    /\ UNCHANGED <<fate, kept, reader, person, told, faults>>

-----------------------------------------------------------------------------
(* Storing a document.  One that is stored already is a duplicate and ends  *)
(* there; one that cannot be read is counted and passed over.               *)

\* The bank reports on what it took, and refuses again what it refused.
\* A booking needs money that left.
Pays(m, d) == m = Says[d].names \/ (Says[d].names[1] = NoOrder /\ Reference[m[1]] = Says[d].reference)

BankServes(d) ==
    CASE Says[d].kind # "report" -> \E m \in Messages : fate[m] = "taken" /\ Pays(m, d)
      [] Says[d].kind = "report" /\ Says[d].names \in Messages ->
            \/ fate[Says[d].names] = "taken"
            \/ fate[Says[d].names] = "refused" /\ Resolve(d) \in {"refused", "undecided"}
      [] OTHER -> TRUE

\* order_for: the MsgId of the live message or of any attempt.
OrderFor(d) == IF Says[d].names \in Messages THEN Says[d].names[1] ELSE NoOrder

StoreStatement(r, d) ==
    /\ reader[r].pc = "idle"
    /\ d \notin kept /\ BankServes(d)
    /\ \E s \in Sessions : kept \cup {d} \subseteq s
    /\ kept' = kept \cup {d}
    /\ reader' = [reader EXCEPT ![r] = [Nobody EXCEPT !.pc = "stored", !.doc = d]]
    /\ UNCHANGED <<order, fate, person, told, replays, faults>>

Tell(r, what) == told' = [told EXCEPT ![reader[r].doc] = @ \cup {what}]
Step(r, pc) == reader' = [reader EXCEPT ![r].pc = pc]

\* The audit row of the document comes after it, and its application after that.
Announce(r) ==
    /\ reader[r].pc = "stored"
    /\ Tell(r, "available") /\ Step(r, "read")
    /\ UNCHANGED <<order, fate, kept, person, replays, faults>>

-----------------------------------------------------------------------------
(* reconcile_stored: what was stored is read again, by the bank's own dates. *)

\* CreDtTm, or the arrival where there is none, which is after any date.
Precedes(d, e) == Says[d].written # 0 /\ (Says[e].written = 0 \/ Says[d].written < Says[e].written)

\* Mutant of Rereads: reports only.
RereadsReports(d) == Says[d].kind = "report" /\ OrderFor(d) # NoOrder

Rereads(d) == Says[d].kind = "report" => OrderFor(d) # NoOrder

\* Documents of one date are read in the order they arrived: in any order.
Firsts(docs) == {d \in docs : \A e \in docs : ~Precedes(e, d)}

Reading(docs) ==
    IF docs = {} THEN {Nobody}
    ELSE {[Nobody EXCEPT !.pc = "read", !.again = TRUE, !.doc = d, !.rest = docs \ {d}] :
              d \in Firsts(docs)}

\* An operator starts it; one at a time, the way an upgrade does.
Reread(r) ==
    LET docs == {d \in kept : Rereads(d)} IN
    /\ reader[r].pc = "idle" /\ docs # {}
    /\ \A q \in Readers : ~reader[q].again
    /\ \E next \in Reading(docs) : reader' = [reader EXCEPT ![r] = next]
    /\ UNCHANGED <<order, fate, kept, person, told, replays, faults>>

\* The document is done with; a re-reading goes on to the next.
GoesOn(r) == \E next \in (IF reader[r].again THEN Reading(reader[r].rest) ELSE {Nobody}) :
                reader' = [reader EXCEPT ![r] = next]

Silently(r) == GoesOn(r) /\ UNCHANGED told
Telling(r, what) == GoesOn(r) /\ Tell(r, what)

-----------------------------------------------------------------------------
(* Applying a status report. *)

\* Mutant of Overturns: the dates are not compared.
OverturnsUndated(d, row) ==
    /\ Resolve(d) = "refused" /\ Says[d].written # 0
    /\ row.state = "acknowledged" /\ row.verdict \in Revocable
    /\ row.dated # 0

Overturns(d, row) ==
    /\ Resolve(d) = "refused" /\ Says[d].written # 0
    /\ row.state = "acknowledged" /\ row.verdict \in Revocable
    /\ row.dated # 0 /\ row.dated < Says[d].written

\* What it says, whose it is, and the acknowledgement it may overturn: a read.
ReadReport(r) ==
    LET d == reader[r].doc
        o == OrderFor(d) IN
    /\ reader[r].pc = "read" /\ Says[d].kind = "report"
    /\ \/ o = NoOrder /\ Telling(r, "status_unmatched")
       \/ o # NoOrder /\ ~Decides(d) /\ reader[r].again /\ Silently(r)
       \/ o # NoOrder /\ ~Decides(d) /\ ~reader[r].again /\ Telling(r, "status_reported")
       \/ /\ o # NoOrder /\ Decides(d)
          /\ reader' = [reader EXCEPT ![r].pc = "decide", ![r].order = o,
                ![r].revoked = IF Overturns(d, order[o]) THEN order[o].verdict ELSE "none"]
          /\ UNCHANGED told
    /\ UNCHANGED <<order, fate, kept, person, replays, faults>>

\* The WHERE of the conditional UPDATE.
Movable(r, row) ==
    IF reader[r].revoked = "none" THEN row.state \in ReconcilesFrom
    ELSE row.state = "acknowledged" /\ row.verdict = reader[r].revoked

Move(r) ==
    LET d == reader[r].doc
        o == reader[r].order IN
    /\ reader[r].pc = "decide" /\ Movable(r, order[o])
    /\ order' = [order EXCEPT ![o].state = StateOf(d), ![o].verdict = Resolve(d),
                              ![o].dated = Says[d].written]
    /\ Step(r, "moved")
    /\ UNCHANGED <<fate, kept, person, told, replays, faults>>

Ignore(r) ==
    /\ reader[r].pc = "decide" /\ ~Movable(r, order[reader[r].order])
    /\ IF reader[r].again THEN Silently(r) ELSE Telling(r, "status_ignored")
    /\ UNCHANGED <<order, fate, kept, person, replays, faults>>

RecordMove(r) ==
    /\ reader[r].pc = "moved"
    /\ Telling(r, IF Says[reader[r].doc].kind = "report" THEN StateOf(reader[r].doc) ELSE "returned")
    /\ UNCHANGED <<order, fate, kept, person, replays, faults>>

-----------------------------------------------------------------------------
(* Applying a booking that the bank marked as a return. *)

\* Open orders of that reference: an EndToEndId, or a creditor and an amount.
Open(ref) == {o \in Orders : order[o].state \in ReturnsFrom /\ Reference[o] = ref}

\* By MsgId, or by the reference when exactly one open order carries it.
Named(d) == IF Says[d].names \in Messages THEN {Says[d].names[1]}
            ELSE IF Cardinality(Open(Says[d].reference)) = 1 THEN Open(Says[d].reference) ELSE {}

Finds(r, o, pc) == reader' = [reader EXCEPT ![r].pc = pc, ![r].order = o]

ReadBooking(r) ==
    LET d == reader[r].doc IN
    /\ reader[r].pc = "read" /\ Says[d].kind = "marked"
    /\ \/ Named(d) = {} /\ Silently(r)
       \/ \E o \in Named(d) :
            \/ Says[d].whole /\ Finds(r, o, "booked") /\ UNCHANGED told
            \/ ~Says[d].whole /\ ~reader[r].again /\ Telling(r, "return_partial")
            \/ ~Says[d].whole /\ reader[r].again /\ Silently(r)
    /\ UNCHANGED <<order, fate, kept, person, replays, faults>>

Return(r) ==
    LET o == reader[r].order IN
    /\ reader[r].pc = "booked"
    /\ IF order[o].state \in ReturnsFrom
       THEN /\ order' = [order EXCEPT ![o].state = "returned", ![o].matched = "bank",
                                      ![o].returned = Says[reader[r].doc].booking]
            /\ Step(r, "moved")
       ELSE GoesOn(r) /\ UNCHANGED order
    /\ UNCHANGED <<fate, kept, person, told, replays, faults>>

-----------------------------------------------------------------------------
(* A credit the bank did not mark: a suspicion, and the person who decides. *)

ReadCredit(r) ==
    LET like == Open(Says[reader[r].doc].reference) IN
    /\ reader[r].pc = "read" /\ Says[reader[r].doc].kind = "unmarked"
    /\ \/ Cardinality(like) # 1 /\ Silently(r)
       \/ Cardinality(like) = 1 /\ (\E o \in like : Finds(r, o, "like")) /\ UNCHANGED told
    /\ UNCHANGED <<order, fate, kept, person, replays, faults>>

\* Mutant of Fresh: another booking replaces a suspicion nobody has answered.
FreshAlways(row, b) == row.suspect # b

Fresh(row, b) ==
    \/ row.doubt = "none"
    \/ row.doubt = "dismissed" /\ row.suspect # b

Suspect(r) ==
    LET o == reader[r].order
        b == Says[reader[r].doc].booking IN
    /\ reader[r].pc = "like"
    /\ IF order[o].state \in ReturnsFrom /\ Fresh(order[o], b)
       THEN /\ order' = [order EXCEPT ![o].suspect = b, ![o].doubt = "open"]
            /\ Step(r, "raised")
       ELSE GoesOn(r) /\ UNCHANGED order
    /\ UNCHANGED <<fate, kept, person, told, replays, faults>>

RecordSuspicion(r) ==
    /\ reader[r].pc = "raised"
    /\ Telling(r, "return_suspected")
    /\ UNCHANGED <<order, fate, kept, person, replays, faults>>

\* confirm reads the row, and writes what it read under a condition.  The read
\* asks nothing of the suspicion; the page offers the button on an open one.
ReadConfirm(p, o) ==
    /\ person[p] = NoDecision
    /\ order[o].state \in ReturnsFrom /\ order[o].doubt # "none"
    /\ ConfirmsOpen => order[o].doubt = "open"
    /\ person' = [person EXCEPT ![p] = [pc |-> "confirming", order |-> o,
                                        booking |-> order[o].suspect]]
    /\ UNCHANGED <<order, fate, kept, reader, told, replays, faults>>

Confirm(p) ==
    LET o == person[p].order IN
    /\ person[p].pc = "confirming"
    /\ order' = IF order[o].state \in ReturnsFrom /\ order[o].doubt = "open"
                THEN [order EXCEPT ![o].state = "returned", ![o].matched = "operator",
                                   ![o].returned = person[p].booking]
                ELSE order
    /\ person' = [person EXCEPT ![p] = NoDecision]
    /\ UNCHANGED <<fate, kept, reader, told, replays, faults>>

Dismiss(p, o) ==
    /\ person[p] = NoDecision
    /\ order[o].doubt = "open" /\ order[o].state # "returned"
    /\ order' = [order EXCEPT ![o].doubt = "dismissed"]
    /\ UNCHANGED <<fate, kept, reader, person, told, replays, faults>>

\* The application raises, which is logged and swallowed, or the process dies.
LosesApplication(r) ==
    /\ reader[r].pc # "idle" /\ faults < MaxFaults
    /\ reader' = [reader EXCEPT ![r] = Nobody]
    /\ faults' = faults + 1
    /\ UNCHANGED <<order, fate, kept, person, told, replays>>

-----------------------------------------------------------------------------

NewOrder == [state |-> "accepted", live |-> 1, verdict |-> "none", dated |-> 0,
             suspect |-> NoBooking, doubt |-> "none", returned |-> NoBooking,
             matched |-> "none"]

StatusInit ==
    /\ order = [o \in Orders |-> NewOrder]
    /\ fate = [m \in Messages |-> "unseen"]
    /\ kept = {}
    /\ reader = [r \in Readers |-> Nobody]
    /\ person = [p \in People |-> NoDecision]
    /\ told = [d \in Statements |-> {}]
    /\ replays = [o \in Orders |-> 0]
    /\ faults = 0
    /\ calm = "no"

Applies(r) ==
    \/ ReadReport(r) \/ Move(r) \/ Ignore(r) \/ RecordMove(r)
    \/ ReadBooking(r) \/ Return(r)
    \/ ReadCredit(r) \/ Suspect(r) \/ RecordSuspicion(r)

\* A re-reading is undisturbed when no order was still to be uploaded at its
\* start, and while nothing else takes a step.
Disturbs(r) == ~reader[r].again
Begins == calm' = IF \E o \in Orders : order[o].state \in {"accepted", "submitting"}
                  THEN "no" ELSE "reading"
Passes == calm' = IF calm = "reading" /\ \A r \in Readers : ~reader'[r].again
                  THEN "settled" ELSE calm

Elsewhere ==
    \/ \E o \in Orders : \/ ClaimOrder(o) \/ Submit(o) \/ RetryLater(o) \/ Refuse(o)
                         \/ FallBack(o) \/ Replay(o)
    \/ \E r \in Downloads, d \in Statements : StoreStatement(r, d)
    \/ \E r \in Readers : Announce(r) \/ LosesApplication(r) \/ (Disturbs(r) /\ Applies(r))
    \/ \E p \in People : \/ \E o \in Orders : ReadConfirm(p, o) \/ Dismiss(p, o)
                        \/ Confirm(p)

StatusNext ==
    \/ \E r \in Rereadings : Reread(r) /\ Begins
    \/ \E r \in Readers : reader[r].again /\ Applies(r) /\ Passes
    \/ Elsewhere /\ calm' = "no"

StatusSpec == StatusInit /\ [][StatusNext]_statusVars

-----------------------------------------------------------------------------
(* Properties. *)

\* A stored document that would still move an order, or raise a suspicion,
\* were it read now.
StillMoves(d) ==
    CASE Says[d].kind = "report" ->
            /\ OrderFor(d) # NoOrder /\ Decides(d)
            /\ \/ order[OrderFor(d)].state \in ReconcilesFrom
               \/ Overturns(d, order[OrderFor(d)])
      [] Says[d].kind = "marked" ->
            Says[d].whole /\ \E o \in Named(d) : order[o].state \in ReturnsFrom
      [] OTHER ->
            /\ Cardinality(Open(Says[d].reference)) = 1
            /\ \E o \in Open(Says[d].reference) : Fresh(order[o], Says[d].booking)

\* After an undisturbed re-reading every order is where the stored documents
\* put it, whatever was lost or overtaken before: one more would change nothing
\* (StatementStore.reconcile_stored, which reads in the bank's order).  An order
\* that was still to be uploaded when it began may need a second: a booking
\* dated before the report that acknowledges it is read first, and moves nothing.
\* So may two orders with one reference: a booking that could be of either is
\* passed over, and may be of the other alone once one of them is settled.
RereadSettles == calm = "settled" => \A d \in kept : ~StillMoves(d)

\* What a person confirmed is the booking the order was suspected for: no
\* reader replaces a suspicion between the read and the write of confirm (_raise),
\* for one person who confirms what is open.
ConfirmedIsSuspected == \A o \in Orders :
    order[o].matched = "operator" =>
        order[o].returned = order[o].suspect /\ order[o].doubt = "open"

\* What reports and bookings do to an order, without documents or readers.
Verdict == INSTANCE BankVerdict WITH
    Dates   <- {Says[d].written : d \in Statements},
    state   <- [o \in Orders |-> order[o].state],
    verdict <- [o \in Orders |-> order[o].verdict],
    dated   <- [o \in Orders |-> order[o].dated],
    again   <- [o \in Orders |-> replays[o] > 0]

\* The order moves only the way BankVerdict allows: never from under a worker,
\* never back from a return, never from an acknowledgement by a refusal that is
\* older or that comes after money was reported under way (_move, _revocable).
ImplementsVerdict == Verdict!Spec

-----------------------------------------------------------------------------
(* What the documentation says and the code does not keep. *)

\* reconcile.py:162: from ACSP on the money is under way, and a refusal after
\* that is recorded as ignored.
UnderWay(o) == \E d \in Statements :
    /\ Says[d].kind = "report" /\ OrderFor(d) = o /\ Resolve(d) \in {"settled", "part"}
    /\ told[d] \cap {"acknowledged", "status_ignored"} # {}

SettledIsNotRevoked == [][\A o \in Orders :
    order[o].state = "acknowledged" /\ UnderWay(o) => order'[o].state # "rejected"]_statusVars

=============================================================================
