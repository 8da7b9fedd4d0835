-------------------------- MODULE EbicsTransaction --------------------------
(***************************************************************************)
(* One EBICS transaction (ebics3/transaction.py): an upload that pushes    *)
(* its segments or a download that collects them and acknowledges, with    *)
(* what a bank's answer means (responses.py, returncodes.py) and the loops *)
(* of the workers that drive it (worker.py, downloader.py, initialiser.py).*)
(*                                                                         *)
(* The engine asks, the bank answers, the engine is fed; nothing is asked  *)
(* twice (transport.py).  The bank is external and keeps to the protocol:  *)
(* it may refuse anything, and fall back to an earlier recovery point      *)
(* whenever it likes.  An answer that is lost, is not a document or is not *)
(* signed ends the attempt.                                                *)
(***************************************************************************)
EXTENDS Integers, Sequences, SequencesExt

CONSTANTS
    MaxLength,      \* bound: characters of the encoded order data
    SEGMENT_SIZE,   \* characters of one segment
    NoData,         \* a message without order data
    MaxSetBacks,    \* bound: recovery points the bank falls back to
    BesideNotices   \* TRUE: a bank refuses an order in the body of an answer
                    \* whose header has a notice

ASSUME TransferAssumption ==
    /\ MaxLength \in Nat /\ SEGMENT_SIZE \in Nat \ {0} /\ MaxSetBacks \in Nat
    /\ BesideNotices \in BOOLEAN /\ NoData \notin Seq(Nat)

VARIABLES
    payload,    \* the encoded order data, on the side that has it
    tx,         \* the engine
    caller,     \* the worker that drives it
    line,       \* the request or the answer under way
    bank,       \* external: its side of the transaction
    setBacks

vars == <<payload, tx, caller, line, bank, setBacks>>

-----------------------------------------------------------------------------
(* Return codes: only the disposition is acted on. *)

Dispositions == {"success", "notice", "completed", "recoverable", "retryable", "terminal"}
Status == [technical: Dispositions \cup {"absent"}, business: Dispositions \cup {"absent"}]

\* Mutant of Decisive: the order's own code is not looked at.
DecisiveTechnical(status) ==
    IF status.technical # "absent" THEN status.technical ELSE status.business
Decisive(status) ==
    IF status.technical \notin {"absent", "success"} \/ status.business = "absent"
    THEN status.technical ELSE status.business

Codes(status) == {status.technical, status.business}
NeedsRecovery(status) == "recoverable" \in Codes(status)
EndsTransaction(status) == "completed" \in Codes(status)
Raises(status) == Decisive(status) \in {"retryable", "terminal"}

Says(technical, business) == [technical |-> technical, business |-> business]
Agreed == {Says("success", "success"), Says("notice", "success"), Says("success", "absent")}
Refused ==
    {Says("retryable", "absent"), Says("terminal", "absent"), Says("success", "terminal")}
    \cup IF BesideNotices THEN {Says("notice", "terminal")} ELSE {}

-----------------------------------------------------------------------------
(* The engine. *)

\* An order without data is still one segment.
Split(encoded) ==
    IF encoded = <<>> THEN <<(<<>>)>>
    ELSE [i \in 1..((Len(encoded) + SEGMENT_SIZE - 1) \div SEGMENT_SIZE) |->
            SubSeq(encoded, (i - 1) * SEGMENT_SIZE + 1,
                   Min({i * SEGMENT_SIZE, Len(encoded)}))]

Segments == Split(payload)
Phases == {"Initialisation", "Transfer", "Receipt", "Done"}
Engine == [direction: {"upload", "download"}, phase: Phases,
           id: BOOLEAN,             \* the bank named a TransactionID
           cursor: Nat, segments: Seq(Seq(Nat))]

Request == [kind: Phases \ {"Done"}, number: Nat, last: BOOLEAN,
            data: {NoData} \cup Seq(Nat)]
Answer == [status: Status, id: BOOLEAN, number: Nat, last: BOOLEAN,
           data: {NoData} \cup Seq(Nat)]
Quiet == [to |-> "nobody"]

\* next_request, while there is one.
MayAsk ==
    IF tx.direction = "upload"
    THEN tx.phase = "Transfer" /\ tx.cursor < Len(Segments)
    ELSE tx.phase \in {"Transfer", "Receipt"}
InitialRequest == [kind |-> "Initialisation", number |-> 0, last |-> FALSE, data |-> NoData]
TransferRequest(data) ==
    [kind |-> "Transfer", number |-> tx.cursor + 1,
     last |-> tx.direction = "upload" /\ tx.cursor + 1 = Len(Segments), data |-> data]
ReceiptRequest == [InitialRequest EXCEPT !.kind = "Receipt"]
NextRequest ==
    IF tx.phase = "Receipt" THEN ReceiptRequest
    ELSE TransferRequest(IF tx.direction = "upload" THEN Segments[tx.cursor + 1] ELSE NoData)

\* Mutants of ResumedAt: what was collected beyond the segment is kept; the
\* engine goes on where it was.
ResumedKeeping(t, number) == [t EXCEPT !.cursor = number, !.phase = "Transfer"]
ResumedNowhere(t, number) == [t EXCEPT !.phase = "Transfer"]

ResumedAt(t, number) == [t EXCEPT
    !.cursor = number, !.phase = "Transfer",
    !.segments = SubSeq(t.segments, 1, Min({number, Len(t.segments)}))]

\* _advance, and what makes it raise.
Acceptable(answer) ==
    tx.direction = "download" /\ tx.phase # "Receipt" =>
        /\ tx.phase = "Transfer" => answer.number = tx.cursor + 1
        /\ answer.data # NoData
Advanced(t, answer) ==
    IF t.direction = "upload"
    THEN IF t.phase = "Initialisation" THEN [t EXCEPT !.phase = "Transfer"]
         ELSE [t EXCEPT !.cursor = t.cursor + 1,
                        !.phase = IF t.cursor + 1 >= Len(Segments) THEN "Done" ELSE "Transfer"]
    ELSE IF t.phase = "Receipt" THEN [t EXCEPT !.phase = "Done"]
    ELSE [t EXCEPT !.segments = Append(t.segments, answer.data),
                   !.cursor = t.cursor + 1,
                   !.phase = IF answer.last THEN "Receipt" ELSE "Transfer"]

-----------------------------------------------------------------------------
(* The worker. *)

Caller == [pc: {"opening", "waiting", "driving", "ended"},
           outcome: {"none", "done", "empty", "failed"},
           stored: {NoData} \cup Seq(Nat), acknowledging: BOOLEAN]

Ends(outcome) == caller' = [caller EXCEPT !.pc = "ended", !.outcome = outcome]
Asks(request) == line' = [to |-> "bank", request |-> request]

\* The initialisation announces the segments; a download asks for the first.
Open ==
    /\ caller.pc = "opening"
    /\ Asks(InitialRequest)
    /\ caller' = [caller EXCEPT !.pc = "waiting"]
    /\ UNCHANGED <<payload, tx, bank, setBacks>>

Ask ==
    /\ caller.pc = "driving" /\ MayAsk
    /\ tx.direction = "download" => tx.phase = "Transfer" /\ ~caller.acknowledging
    /\ Asks(NextRequest)
    /\ caller' = [caller EXCEPT !.pc = "waiting"]
    /\ UNCHANGED <<payload, tx, bank, setBacks>>

\* Nothing left to send: DONE, or the attempt failed.
UploadOver ==
    /\ caller.pc = "driving" /\ tx.direction = "upload" /\ ~MayAsk
    /\ Ends(IF tx.phase = "Done" THEN "done" ELSE "failed")
    /\ UNCHANGED <<payload, tx, line, bank, setBacks>>

\* What was collected is decrypted and stored, then acknowledged.
Keeps == FlattenSeq(tx.segments)

Store ==
    /\ caller.pc = "driving" /\ tx.direction = "download"
    /\ tx.phase # "Transfer" /\ ~caller.acknowledging
    /\ IF tx.segments = <<>> THEN Ends("empty") /\ UNCHANGED line
       ELSE IF tx.phase = "Receipt"
       THEN /\ caller' = [caller EXCEPT !.pc = "waiting", !.stored = Keeps,
                                        !.acknowledging = TRUE]
            /\ Asks(NextRequest)
       ELSE /\ caller' = [caller EXCEPT !.pc = "ended", !.stored = Keeps,
                                        !.outcome = "done"]
            /\ UNCHANGED line
    /\ UNCHANGED <<payload, tx, bank, setBacks>>

\* Acknowledged or not, what was collected is kept.
DownloadOver ==
    /\ caller.pc = "driving" /\ caller.acknowledging
    /\ Ends("done")
    /\ UNCHANGED <<payload, tx, line, bank, setBacks>>

\* No answer, one that is not a document, or one the bank did not sign.
Lost ==
    /\ line # Quiet
    /\ line' = Quiet /\ Ends("failed")
    /\ UNCHANGED <<payload, tx, bank, setBacks>>

\* Recovery comes first, then refusals, then what ends a transaction.
Feed ==
    /\ line.to = "engine"
    /\ line' = Quiet
    /\ LET answer == line.answer
           status == answer.status
           fails == Ends("failed") /\ UNCHANGED tx
           goesOn(t) == tx' = t /\ caller' = [caller EXCEPT !.pc = "driving"] IN
       IF NeedsRecovery(status) /\ tx.id THEN goesOn(ResumedAt(tx, answer.number))
       ELSE IF Raises(status) THEN fails
       ELSE IF EndsTransaction(status)
       THEN goesOn([tx EXCEPT !.id = answer.id \/ tx.id, !.phase = "Done"])
       ELSE IF tx.phase = "Initialisation" /\ ~answer.id THEN fails
       ELSE IF ~Acceptable(answer) THEN fails
       ELSE goesOn(Advanced([tx EXCEPT !.id = TRUE], answer))
    /\ UNCHANGED <<payload, bank, setBacks>>

-----------------------------------------------------------------------------
(* The bank. *)

Bank == [state: {"new", "open", "complete", "refused"},
         point: Nat,                    \* its recovery point
         got: Seq(Seq(Nat))]            \* of an upload

Answers(status, number, last, data) ==
    line' = [to |-> "engine",
             answer |-> [status |-> status, id |-> bank.state # "new" \/ status \in Agreed,
                         number |-> number, last |-> last, data |-> data]]

BankRefuses ==
    /\ line.to = "bank" /\ bank.state # "complete"
    /\ bank' = [bank EXCEPT !.state = "refused"]
    /\ \E status \in Refused : Answers(status, 0, FALSE, NoData)
    /\ UNCHANGED <<payload, tx, caller, setBacks>>

\* It opens a transaction, or has nothing to send.
BankOpens ==
    /\ line.to = "bank" /\ line.request.kind = "Initialisation"
    /\ IF tx.direction = "upload"
       THEN /\ bank' = [bank EXCEPT !.state = "open"]
            /\ \E status \in Agreed : Answers(status, 0, FALSE, NoData)
       ELSE IF payload = <<>>
       THEN /\ bank' = [bank EXCEPT !.state = "complete"]
            /\ \E status \in {Says("completed", "absent"), Says("success", "completed")} :
                Answers(status, 0, FALSE, NoData)
       ELSE /\ bank' = [bank EXCEPT !.state = "open", !.point = 1]
            /\ \E status \in Agreed : Answers(status, 1, Len(Segments) = 1, Segments[1])
    /\ UNCHANGED <<payload, tx, caller, setBacks>>

\* The segment after its recovery point, or the word where that is.
BankTransfers ==
    LET request == line.request
        all == request.number = Len(Segments) IN
    /\ line.to = "bank" /\ bank.state = "open" /\ request.kind = "Transfer"
    /\ IF request.number # bank.point + 1
       THEN /\ Answers(Says("recoverable", "absent"), bank.point, FALSE, NoData)
            /\ UNCHANGED bank
       ELSE /\ \E status \in Agreed :
                Answers(status, request.number, all,
                        IF tx.direction = "upload" THEN NoData ELSE Segments[request.number])
            /\ bank' = [bank EXCEPT
                    !.point = request.number,
                    !.got = IF tx.direction = "upload" THEN Append(bank.got, request.data)
                            ELSE bank.got,
                    !.state = IF request.last THEN "complete" ELSE "open"]
    /\ UNCHANGED <<payload, tx, caller, setBacks>>

\* A receipt for what it has not served to the end sets the client back.
BankTakesReceipt ==
    /\ line.to = "bank" /\ bank.state = "open" /\ line.request.kind = "Receipt"
    /\ IF bank.point = Len(Segments)
       THEN /\ bank' = [bank EXCEPT !.state = "complete"]
            /\ Answers(Says("completed", "success"), 0, FALSE, NoData)
       ELSE /\ Answers(Says("recoverable", "absent"), bank.point, FALSE, NoData)
            /\ UNCHANGED bank
    /\ UNCHANGED <<payload, tx, caller, setBacks>>

BankFallsBack ==
    /\ bank.state = "open" /\ setBacks < MaxSetBacks
    /\ \E point \in 0..(bank.point - 1) :
        bank' = [bank EXCEPT !.point = point, 
            !.got = SubSeq(bank.got, 1, Min({point, Len(bank.got)}))]
    /\ setBacks' = setBacks + 1
    /\ UNCHANGED <<payload, tx, caller, line>>

-----------------------------------------------------------------------------

Init ==
    /\ payload \in {[i \in 1..n |-> i] : n \in 0..MaxLength}
    /\ \E direction \in {"upload", "download"} :
        tx = [direction |-> direction, phase |-> "Initialisation", id |-> FALSE,
              cursor |-> 0, segments |-> <<>>]
    /\ caller = [pc |-> "opening", outcome |-> "none", stored |-> NoData,
                 acknowledging |-> FALSE]
    /\ line = Quiet
    /\ bank = [state |-> "new", point |-> 0, got |-> <<>>]
    /\ setBacks = 0

Drives == Open \/ Ask \/ UploadOver \/ Store \/ DownloadOver \/ Feed
BankActs == BankRefuses \/ BankOpens \/ BankTransfers \/ BankTakesReceipt

Next == Drives \/ Lost \/ BankActs \/ BankFallsBack

Spec == Init /\ [][Next]_vars

\* The loops run, and a request is answered or times out.
Fairness == WF_vars(Drives) /\ WF_vars(BankActs \/ Lost)
FairSpec == Spec /\ Fairness

-----------------------------------------------------------------------------
(* Properties. *)

TypeOK ==
    /\ payload \in Seq(Nat) /\ tx \in Engine /\ caller \in Caller /\ bank \in Bank
    /\ \/ line = Quiet
       \/ line.to = "bank" /\ line.request \in Request
       \/ line.to = "engine" /\ line.answer \in Answer
    /\ setBacks \in Nat

\* An upload that is reported as taken was taken, all of it, and a download
\* that is reported as complete is stored, all of it, whether the bank was
\* told or not; and what the bank was told is received, and need not be served
\* again, is stored, whatever became of the answer.
DoneIsDelivered ==
    /\ caller.outcome = "done" =>
           IF tx.direction = "upload"
           THEN bank.state = "complete" /\ FlattenSeq(bank.got) = payload
           ELSE caller.stored = payload
    /\ tx.direction = "download" /\ bank.state = "complete" /\ payload # <<>> =>
           caller.stored = payload

\* Either direction transfers segments the way a transfer promises.
Held == IF tx.direction = "upload" THEN bank.got
        ELSE IF caller.stored # NoData THEN Split(caller.stored) ELSE tx.segments
Over == IF tx.direction = "upload" THEN caller.outcome = "done" ELSE caller.stored # NoData
Transfer == INSTANCE SegmentTransfer WITH segments <- Segments, held <- Held, over <- Over
ImplementsTransfer == Transfer!Spec

\* A transfer comes to an end, with whatever outcome.
ComesToAnEnd == <>(caller.pc = "ended")

=============================================================================
