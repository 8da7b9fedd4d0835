-------------------------- MODULE DownloadSchedule --------------------------
(***************************************************************************)
(* One download schedule (schedule.py), the workers that claim it, ask the *)
(* bank, store what came back and acknowledge it (downloader.py,           *)
(* statements.py), and the operators who ask for a run or for days again.  *)
(* Each action is one transaction or one exchange with the bank.           *)
(*                                                                         *)
(* Schedules share nothing but the workers, so there is one.  Time is what *)
(* the code compares: the day, whether the schedule is due, whether the    *)
(* lease ran out.  What a stored document says of an order is OrderQueue's *)
(* StatusReport and ReturnBooked.  The bank is external: it may fail or    *)
(* refuse, and otherwise serves what it is asked for.                      *)
(***************************************************************************)
EXTENDS Integers, FiniteSets

CONSTANTS
    Documents,              \* what the bank publishes in the course of it
    Unreadable,             \* those that are no statement at all
    Workers,                \* download workers, in one process or in several
    Operators,              \* people or API calls
    WindowDays,             \* download_schedule.window_days
    LastDay,                \* bound: the days there are
    LeaseOutlivesDownload,  \* TRUE: no live download takes longer than CLAIM_LEASE
    RefetchBehindMark,      \* TRUE: nobody asks again for days never asked for
    MaxFailures,            \* bound: exchanges that fail or are refused
    MaxOperations,          \* bound: what operators do
    MaxCrashes              \* bound: workers lost in one behaviour

ASSUME DaysAssumption ==
    WindowDays \in Nat \ {0} /\ LastDay \in Nat /\ LastDay > WindowDays
ASSUME DocumentsAssumption == Unreadable \subseteq Documents
ASSUME SwitchesAssumption ==
    LeaseOutlivesDownload \in BOOLEAN /\ RefetchBehindMark \in BOOLEAN
ASSUME BoundsAssumption ==
    MaxFailures \in Nat /\ MaxOperations \in Nat /\ MaxCrashes \in Nat

VARIABLES
    schedule,   \* download_schedule
    worker,     \* what each worker is doing
    operator,   \* what each operator is doing
    today,      \* the date
    published,  \* external: the day the bank had each document, 0 for not yet
    acked,      \* external: what was acknowledged with a receipt
    stored,     \* statement: unique by document
    answered,   \* download_run: the days of the windows of runs that finished
    closed,     \* history: of those, the ones answered for after they were over
    failures, operations, crashes

bank == <<today, published>>
documents == <<acked, stored>>
ledger == <<answered, closed>>
bounds == <<failures, operations, crashes>>

vars == <<schedule, worker, operator, today, published, acked, stored, answered,
          closed, failures, operations, crashes>>

-----------------------------------------------------------------------------

Days == 1..LastDay
NoMark == -1

ScheduleRow == [
    is: {"row", "gone"},
    enabled: BOOLEAN,
    dated: BOOLEAN,                         \* window_days is set
    claim: {"none", "held", "expired"},     \* claimed_at against CLAIM_LEASE
    due: BOOLEAN,                           \* due_at has passed
    mark: 0..LastDay \cup {NoMark}]         \* fetched_through

Outcomes == {"none", "complete", "empty", "failed"}
FINISHED == {"complete", "empty"}

\* start..end is empty for a schedule that sends no DateRange.
WorkerState == [
    pc: {"idle", "claimed", "running", "storing", "ending"},
    start: Days, end: 0..LastDay,
    served: SUBSET Documents, todo: SUBSET Documents, outcome: Outcomes]

Idle == [pc |-> "idle", start |-> 1, end |-> 0, served |-> {}, todo |-> {},
         outcome |-> "none"]

OperatorState == [pc: {"idle", "running", "refetching"}, since: Days]
AtRest == [pc |-> "idle", since |-> 1]

TypeOK ==
    /\ schedule \in ScheduleRow
    /\ worker \in [Workers -> WorkerState]
    /\ operator \in [Operators -> OperatorState]
    /\ today \in (WindowDays + 1)..LastDay
    /\ published \in [Documents -> Days \cup {0}]
    /\ acked \subseteq Documents /\ stored \subseteq Documents
    /\ answered \subseteq Days /\ closed \subseteq Days
    /\ failures \in Nat /\ operations \in Nat /\ crashes \in Nat

-----------------------------------------------------------------------------
(* The claim. *)

\* Mutant of Start: the window is reckoned from today once there is a mark.
StartToday == IF schedule.mark = NoMark THEN today - WindowDays ELSE today

Start ==
    IF schedule.mark = NoMark THEN today - WindowDays
    ELSE IF schedule.mark + 1 < today THEN schedule.mark + 1 ELSE today

\* Mutants of Claimable: a claim is no obstacle, and an expired one is nobody's.
ClaimableTwice == schedule.is = "row" /\ schedule.enabled /\ schedule.due
ClaimableOnce ==
    schedule.is = "row" /\ schedule.enabled /\ schedule.claim = "none" /\ schedule.due

Claimable ==
    /\ schedule.is = "row" /\ schedule.enabled
    /\ \/ schedule.claim = "none" /\ schedule.due
       \/ schedule.claim = "expired"

Claim(w) ==
    /\ worker[w].pc = "idle" /\ Claimable
    /\ schedule' = [schedule EXCEPT !.claim = "held"]
    /\ worker' = [worker EXCEPT ![w] = [Idle EXCEPT
            !.pc = "claimed",
            !.start = IF schedule.dated THEN Start ELSE 1,
            !.end = IF schedule.dated THEN today ELSE 0]]
    /\ UNCHANGED <<operator, bank, documents, ledger, bounds>>

Rests(w) == worker' = [worker EXCEPT ![w] = Idle]

\* The run is a row of its own, written after the claim; that of a deleted
\* schedule violates the foreign key, and run_forever goes on.
OpenRun(w) ==
    /\ worker[w].pc = "claimed"
    /\ IF schedule.is = "row"
       THEN worker' = [worker EXCEPT ![w] = [@ EXCEPT !.pc = "running"]]
       ELSE Rests(w)
    /\ UNCHANGED <<schedule, operator, bank, documents, ledger, bounds>>

LeaseExpires ==
    /\ schedule.claim = "held"
    /\ LeaseOutlivesDownload => \A w \in Workers : worker[w].pc = "idle"
    /\ schedule' = [schedule EXCEPT !.claim = "expired"]
    /\ UNCHANGED <<worker, operator, bank, documents, ledger, bounds>>

-----------------------------------------------------------------------------
(* One download. *)

Ends(w, outcome) ==
    worker' = [worker EXCEPT ![w] = [@ EXCEPT !.pc = "ending", !.outcome = outcome]]

\* A DateRange asks for days, acknowledged or not; without one the bank serves
\* what nobody has acknowledged.
Serves(w) == {doc \in Documents : published[doc] # 0 /\
    IF schedule.dated THEN published[doc] \in worker[w].start..worker[w].end
    ELSE doc \notin acked}

Ask(w) ==
    /\ worker[w].pc = "running"
    /\ IF Serves(w) = {} THEN Ends(w, "empty")
       ELSE worker' = [worker EXCEPT ![w] = [@ EXCEPT
                !.pc = "storing", !.served = Serves(w), !.todo = Serves(w)]]
    /\ UNCHANGED <<schedule, operator, bank, documents, ledger, bounds>>

\* One document, one transaction.  What is stored already and what cannot be
\* read is counted and passed over.
Store(w, doc) ==
    /\ worker[w].pc = "storing" /\ doc \in worker[w].todo
    /\ worker' = [worker EXCEPT ![w] = [@ EXCEPT !.todo = worker[w].todo \ {doc}]]
    /\ stored' = IF doc \in Unreadable THEN stored ELSE stored \cup {doc}
    /\ UNCHANGED <<schedule, operator, bank, acked, ledger, bounds>>

\* Mutant of Receipt: acknowledged before it is stored.
ReceiptFirst(w) ==
    /\ worker[w].pc = "storing"
    /\ \/ acked' = acked \cup worker[w].served
       \/ acked' = acked
    /\ Ends(w, "complete")
    /\ UNCHANGED <<schedule, operator, bank, stored, ledger, bounds>>

\* The answer to the receipt may be something else than the end of the
\* transaction; the data is safe, and the run is complete.
Receipt(w) ==
    /\ worker[w].pc = "storing" /\ worker[w].todo = {}
    /\ \/ acked' = acked \cup worker[w].served
       \/ acked' = acked
    /\ Ends(w, "complete")
    /\ UNCHANGED <<schedule, operator, bank, stored, ledger, bounds>>

\* An exchange is refused or fails, or storing does; the bank may have taken
\* the receipt when its answer is lost.
Fails(w) ==
    /\ worker[w].pc \in {"running", "storing"} /\ failures < MaxFailures
    /\ failures' = failures + 1
    /\ \/ acked' = acked
       \/ worker[w].pc = "storing" /\ worker[w].todo = {}
          /\ acked' = acked \cup worker[w].served
    /\ Ends(w, "failed")
    /\ UNCHANGED <<schedule, operator, bank, stored, ledger, operations, crashes>>

MovedOn(w) == worker[w].outcome \in FINISHED

\* finished names the schedule by its id alone.
Finish(w) ==
    /\ worker[w].pc = "ending"
    /\ Rests(w)
    /\ IF schedule.is = "row"
       THEN /\ schedule' = [schedule EXCEPT !.claim = "none", !.due = FALSE,
                    !.mark = IF ~MovedOn(w) THEN schedule.mark
                             ELSE IF worker[w].end # 0 THEN worker[w].end ELSE today]
            /\ answered' = answered \cup
                    IF MovedOn(w) THEN worker[w].start..worker[w].end ELSE {}
            /\ closed' = closed \cup
                    IF MovedOn(w) THEN worker[w].start..(worker[w].end - 1) ELSE {}
       ELSE UNCHANGED <<schedule, ledger>>
    /\ UNCHANGED <<operator, bank, documents, bounds>>

\* The process dies, or something raises where no outcome is recorded.
WorkerLost(w) ==
    /\ worker[w].pc # "idle" /\ crashes < MaxCrashes
    /\ crashes' = crashes + 1
    /\ Rests(w)
    /\ UNCHANGED <<schedule, operator, bank, documents, ledger, failures, operations>>

-----------------------------------------------------------------------------
(* Operators.  Asking for a run, or for days again, reads and then writes.  *)

Operates == operations < MaxOperations /\ operations' = operations + 1

Check(p, what) ==
    /\ operator[p] = AtRest /\ Operates
    /\ schedule.is = "row" /\ schedule.enabled /\ schedule.claim = "none"
    /\ operator' = [operator EXCEPT ![p] = what]
    /\ UNCHANGED <<schedule, worker, bank, documents, ledger, failures, crashes>>

RunNow(p) == Check(p, [pc |-> "running", since |-> 1])

Refetch(p, since) ==
    /\ schedule.dated /\ since <= today
    /\ RefetchBehindMark /\ schedule.mark # NoMark => since <= schedule.mark + 1
    /\ Check(p, [pc |-> "refetching", since |-> since])

Write(p) ==
    LET since == operator[p].since IN
    /\ operator[p].pc # "idle"
    /\ operator' = [operator EXCEPT ![p] = AtRest]
    /\ schedule' = IF schedule.is # "row" THEN schedule
                   ELSE IF operator[p].pc = "running" THEN [schedule EXCEPT !.due = TRUE]
                   ELSE [schedule EXCEPT !.due = TRUE, !.mark = since - 1]
    /\ UNCHANGED <<worker, bank, documents, ledger, bounds>>

SetEnabled(enabled) ==
    /\ Operates
    /\ schedule.is = "row" /\ schedule.enabled # enabled
    /\ schedule' = [schedule EXCEPT !.enabled = enabled]
    /\ UNCHANGED <<worker, operator, bank, documents, ledger, failures, crashes>>

\* The runs go with their schedule, the statements stay.
Delete ==
    /\ Operates
    /\ schedule.is = "row"
    /\ schedule' = [schedule EXCEPT !.is = "gone", !.claim = "none", !.due = FALSE,
                                    !.mark = NoMark]
    /\ answered' = {} /\ closed' = {}
    /\ UNCHANGED <<worker, operator, bank, documents, failures, crashes>>

-----------------------------------------------------------------------------
(* Time and the bank. *)

BecomesDue ==
    /\ schedule.is = "row" /\ ~schedule.due
    /\ schedule' = [schedule EXCEPT !.due = TRUE]
    /\ UNCHANGED <<worker, operator, bank, documents, ledger, bounds>>

NextDay ==
    /\ today < LastDay
    /\ today' = today + 1
    /\ UNCHANGED <<schedule, worker, operator, published, documents, ledger, bounds>>

Publish(doc) ==
    /\ published[doc] = 0
    /\ published' = [published EXCEPT ![doc] = today]
    /\ UNCHANGED <<schedule, worker, operator, today, documents, ledger, bounds>>

-----------------------------------------------------------------------------

Init ==
    /\ \E dated \in BOOLEAN : schedule =
            [is |-> "row", enabled |-> TRUE, dated |-> dated, claim |-> "none",
             due |-> TRUE, mark |-> NoMark]
    /\ worker = [w \in Workers |-> Idle]
    /\ operator = [p \in Operators |-> AtRest]
    /\ today = WindowDays + 1
    /\ published = [doc \in Documents |-> 0]
    /\ acked = {} /\ stored = {}
    /\ answered = {} /\ closed = {}
    /\ failures = 0 /\ operations = 0 /\ crashes = 0

Stores(w) == \E doc \in Documents : Store(w, doc)

Works(w) ==
    OpenRun(w) \/ Ask(w) \/ Stores(w) \/ Receipt(w) \/ Fails(w) \/ Finish(w)

Next ==
    \/ \E w \in Workers : Claim(w) \/ Works(w) \/ WorkerLost(w)
    \/ \E p \in Operators :
        \/ RunNow(p) \/ Write(p)
        \/ \E since \in Days : Refetch(p, since)
    \/ \E enabled \in BOOLEAN : SetEnabled(enabled)
    \/ Delete
    \/ LeaseExpires \/ BecomesDue \/ NextDay
    \/ \E doc \in Documents : Publish(doc)

Spec == Init /\ [][Next]_vars

\* run_forever polls for as long as the process lives, a run that started goes
\* on, and time passes.  Banks and operators owe nothing.
Fairness ==
    /\ \A w \in Workers : WF_vars(Claim(w)) /\ WF_vars(Works(w))
    /\ WF_vars(LeaseExpires) /\ WF_vars(BecomesDue)

FairSpec == Spec /\ Fairness

-----------------------------------------------------------------------------
(* Properties. *)

\* Every day there was an answer for is followed by answers up to this one.
AnsweredTo(day) == \A first \in answered : first..day \subseteq answered

\* The mark tells the truth: from the first day the bank ever answered for up
\* to the mark it answered for every day, whatever failed, crashed, was paused
\* or was asked for again on the way.
NoGap == schedule.mark # NoMark => AnsweredTo(schedule.mark)

\* A day that was over when the bank answered for it is a day whose documents
\* are in the database: the receipt, the storing and the mark, each in a
\* transaction of its own, never get ahead of one another.
AnsweredIsStored == \A doc \in Documents \ Unreadable :
    published[doc] \in closed => doc \in stored

\* Nothing is acknowledged before it is stored, since the bank would never
\* serve it again.
AckedIsStored == acked \subseteq stored \cup Unreadable

Busy(w) == worker[w].pc # "idle"

\* Two workers never download one schedule at a time.
OneDownload == \A v, w \in Workers : Busy(v) /\ Busy(w) => v = w

\* Without a DateRange a document that was published is stored in the end,
\* through failures, lost receipts and lost workers, unless somebody stops the
\* schedule.
PublishedIsStored == \A doc \in Documents \ Unreadable :
    published[doc] # 0 /\ ~schedule.dated ~>
        doc \in stored \/ schedule.is = "gone" \/ ~schedule.enabled

\* The parts of the inductive invariant.  What is stored, however long it takes:
\* the window of a run is empty or ends on the day of its claim, at the latest
\* today ...
WindowShape ==
    /\ ~schedule.dated => answered = {}
    /\ closed \subseteq 1..(today - 1)
    /\ \A w \in Workers : Busy(w) =>
        IF schedule.dated
        THEN worker[w].start \in 1..worker[w].end /\ worker[w].end <= today
        ELSE worker[w].start = 1 /\ worker[w].end = 0

\* ... a document that was served is stored or still to be stored ...
StoredFirst == \A w \in Workers : Busy(w) =>
    worker[w].served \subseteq stored \cup worker[w].todo \cup Unreadable

HasAnswer(w) == worker[w].pc = "storing" \/ worker[w].outcome \in FINISHED

\* ... and an answer holds every document of the days that were over.
AnswerStands == \A w \in Workers : Busy(w) =>
    /\ worker[w].pc # "storing" => worker[w].todo = {} \/ worker[w].outcome = "failed"
    /\ worker[w].pc \in {"claimed", "running", "storing"} => worker[w].outcome = "none"
    /\ HasAnswer(w) => \A doc \in Documents \ Unreadable :
        published[doc] \in worker[w].start..(worker[w].end - 1) =>
            doc \in stored \cup worker[w].todo

StorageInv == TypeOK /\ WindowShape /\ StoredFirst /\ AnswerStands
              /\ AckedIsStored /\ AnsweredIsStored

\* What is asked for, while no download outlives its lease and nobody skips
\* ahead: who downloads has the claim ...
ClaimStands == \A w \in Workers : Busy(w) =>
    /\ schedule.is = "gone" \/ schedule.claim = "held"
    /\ \A v \in Workers : Busy(v) => v = w

\* ... without a mark nothing was answered, a window starts where the answers
\* end, and days asked for again were answered before or are being asked for.
WindowStands ==
    /\ schedule.mark = NoMark => answered = {}
    /\ \A w \in Workers : schedule.is = "row" /\ Busy(w) => AnsweredTo(worker[w].start - 1)
    /\ \A p \in Operators : operator[p].pc = "refetching" =>
        /\ schedule.dated /\ operator[p].since <= today
        /\ AnsweredTo(operator[p].since - 1)
        /\ \A w \in Workers : schedule.is = "row" /\ Busy(w) =>
            operator[p].since <= worker[w].end

DownloadInv == StorageInv /\ ClaimStands /\ WindowStands /\ NoGap

=============================================================================
