------------------------- MODULE OrderQueue_proofs -------------------------
(***************************************************************************)
(* Theorems about OrderQueue for any orders, workers, operators, codes and *)
(* bounds.  Types, what a process has in hand and the attempt rows are one *)
(* inductive invariant (Shape) without further assumptions.  Exclusion     *)
(* adds that a claim in hand is a claim on the row (ClaimIsOurs) and that  *)
(* a checked replay is still due (CheckStands), and needs the two things   *)
(* the code takes for granted: uploads shorter than the lease, and one     *)
(* operator at a time.  From it comes what is on the wire: a worker sends  *)
(* the message of the order it holds, after the TransactionID was          *)
(* persisted, so that the bank has no message but that one until a replay; *)
(* then the refinement of PaymentLifecycle, and where answers end up.  The *)
(* effect of each group of actions on the rows is a lemma; the invariants  *)
(* are argued from those.                                                  *)
(***************************************************************************)
EXTENDS OrderQueue, TLAPS

LEMMA ClosedType ==
    ASSUME NEW row \in OrderRow, NEW s \in OrderStates
    PROVE  Closed(row, s) \in OrderRow
BY DEF Closed, OrderRow

LEMMA OneType == ASSUME NEW o, NEW s PROVE One(o, s) \in Messages
BY DEF One, Those, Messages, Schemes

LEMMA OneIsThere ==
    ASSUME NEW o, NEW s, One(o, s) # NoScheme
    PROVE  One(o, s) \in Those(o, s)
<1>1. CASE "instant" \in Those(o, s)
  BY <1>1 DEF One, Those, Schemes, NoScheme
<1>2. CASE "instant" \notin Those(o, s)
  BY <1>2 DEF One, Those, Schemes, NoScheme
<1> QED BY <1>1, <1>2

LEMMA SaidType ==
    ASSUME said \in [Orders -> [Schemes -> SUBSET Codes]], NEW o, NEW m, NEW c \in Codes
    PROVE  [said EXCEPT ![o][m] = @ \cup {c}] \in [Orders -> [Schemes -> SUBSET Codes]]
OBVIOUS

LEMMA TypeInit == Init => TypeOK
<1> SUFFICES ASSUME Init PROVE TypeOK OBVIOUS
<1>1. \A r \in Requests : FirstScheme(r) \in Schemes /\ FirstAttempts(r) \in [Schemes -> AttemptRow]
  BY DEF Requests, FirstScheme, FirstAttempts, Schemes, AttemptRow, Codes
<1>2. order \in [Orders -> OrderRow]
  BY <1>1 DEF Init, OrderRow, OrderStates
<1>3. attempt \in [Orders -> [Schemes -> AttemptRow]]
  BY <1>1 DEF Init
<1>4. worker \in [Workers -> WorkerState]
  BY DEF Init, Idle, WorkerState, Messages, Codes
<1>5. operator \in [Operators -> OperatorState] /\ reader \in ReaderState
  BY DEF Init, AtRest, OperatorState, NothingRead, ReaderState
<1>6. /\ bank \in [Orders -> [Schemes -> Fates]]
      /\ said \in [Orders -> [Schemes -> SUBSET Codes]]
      /\ events \in [Orders -> SUBSET OrderEvents]
      /\ replays \in [Orders -> Nat] /\ crashes \in Nat
  BY DEF Init, Fates
<1> QED BY <1>2, <1>3, <1>4, <1>5, <1>6 DEF TypeOK

LEMMA TypeNext == TypeOK /\ InHand /\ Next => TypeOK'
<1> SUFFICES ASSUME TypeOK, InHand, Next PROVE TypeOK' OBVIOUS
<1>o. order \in [Orders -> OrderRow] BY DEF TypeOK
<1>a. attempt \in [Orders -> [Schemes -> AttemptRow]] BY DEF TypeOK
<1>w. worker \in [Workers -> WorkerState] BY DEF TypeOK
<1>p. operator \in [Operators -> OperatorState] BY DEF TypeOK
<1>b. bank \in [Orders -> [Schemes -> Fates]] BY DEF TypeOK
<1>s. said \in [Orders -> [Schemes -> SUBSET Codes]] BY DEF TypeOK
<1>e. events \in [Orders -> SUBSET OrderEvents] BY DEF TypeOK
<1>r. replays \in [Orders -> Nat] BY DEF TypeOK
<1>c. crashes \in Nat /\ reader \in ReaderState BY DEF TypeOK
<1>i. Idle \in WorkerState BY DEF Idle, WorkerState, Messages, Codes
<1>1. ASSUME NEW w \in Workers, Claim(w) PROVE TypeOK'
  <2> PICK o \in Orders :
        /\ order' = [order EXCEPT ![o].state = "submitting", ![o].worker = w,
                                  ![o].claim = "held", ![o].attempts = @ + 1]
        /\ worker' = [worker EXCEPT ![w] =
                [Idle EXCEPT !.pc = "claimed", !.order = o,
                             !.tries = order[o].attempts + 1,
                             !.scheme = order[o].scheme]]
    BY <1>1 DEF Claim
  <2>1. order' \in [Orders -> OrderRow]
    BY <1>o DEF OrderRow, OrderStates
  <2>2. order[o].attempts \in Nat /\ order[o].scheme \in Messages
    BY <1>o DEF OrderRow, Messages
  <2>3. [Idle EXCEPT !.pc = "claimed", !.order = o, !.tries = order[o].attempts + 1,
                     !.scheme = order[o].scheme] \in WorkerState
    <3>1. \A n \in Nat, m \in Messages :
            [Idle EXCEPT !.pc = "claimed", !.order = o, !.tries = n, !.scheme = m] \in WorkerState
      BY DEF Idle, WorkerState, Uploading, Messages, Codes
    <3>2. order[o].attempts + 1 \in Nat BY <2>2
    <3> QED BY <2>2, <3>1, <3>2
  <2>4. worker' \in [Workers -> WorkerState]
    BY <2>3, <1>w
  <2> QED BY <2>1, <2>4, <1>1 DEF Claim, TypeOK
<1>2. ASSUME NEW o \in Orders, LeaseExpires(o) PROVE TypeOK'
  <2>1. order' \in [Orders -> OrderRow]
    BY <1>o, <1>2 DEF LeaseExpires, OrderRow
  <2> QED BY <2>1, <1>2 DEF LeaseExpires, TypeOK
<1>3. ASSUME NEW o \in Orders, BackoffEnds(o) PROVE TypeOK'
  <2>1. order' \in [Orders -> OrderRow]
    <3>1. order' = [order EXCEPT ![o] = [order[o] EXCEPT !.waits = FALSE]]
      BY <1>o, <1>3 DEF BackoffEnds
    <3>2. \A row \in OrderRow : [row EXCEPT !.waits = FALSE] \in OrderRow BY DEF OrderRow
    <3> QED BY <1>o, <3>1, <3>2
  <2> QED BY <2>1, <1>3 DEF BackoffEnds, TypeOK
<1>4. ASSUME NEW w \in Workers, ReadAttempt(w) PROVE TypeOK'
  <2>1. PICK m \in Messages : worker' = [worker EXCEPT ![w].pc = "announcing", ![w].sends = m]
    BY <1>4, <1>w, OneType DEF ReadAttempt, WorkerState
  <2>2. worker' \in [Workers -> WorkerState]
    <3>1. "announcing" \in Uploading BY DEF Uploading
    <3>2. \A r \in WorkerState : [r EXCEPT !.pc = "announcing", !.sends = m] \in WorkerState
      BY <3>1 DEF WorkerState
    <3> QED BY <2>1, <3>2, <1>w
  <2> QED BY <2>2, <1>4 DEF ReadAttempt, TypeOK
<1>5. ASSUME NEW w \in Workers, Fails(w) PROVE TypeOK'
  <2>1. worker' \in [Workers -> WorkerState]
    BY <1>w, <1>5 DEF Fails, Step, WorkerState, Uploading
  <2> QED BY <2>1, <1>5 DEF Fails, TypeOK
<1>6. ASSUME NEW w \in Workers, Announce(w) PROVE TypeOK'
  <2>1. PICK named \in BOOLEAN :
            worker' = [worker EXCEPT ![w].pc = "opened", ![w].named = named]
    BY <1>6 DEF Announce
  <2>2. worker' \in [Workers -> WorkerState]
    <3>1. \A r \in WorkerState : [r EXCEPT !.pc = "opened", !.named = named] \in WorkerState
      BY DEF WorkerState, Uploading
    <3> QED BY <2>1, <3>1, <1>w
  <2> QED BY <2>2, <1>6 DEF Announce, TypeOK
<1>7. ASSUME NEW w \in Workers, Opened(w) PROVE TypeOK'
  <2>1. worker' \in [Workers -> WorkerState]
    BY <1>w, <1>7 DEF Opened, Step, WorkerState, Uploading
  <2>2. worker[w].named \in BOOLEAN
    BY <1>w DEF WorkerState
  <2>3. \A row \in OrderRow, n \in BOOLEAN :
            [row EXCEPT !.transaction = TRUE, !.named = row.named \/ n] \in OrderRow
    BY DEF OrderRow
  <2>4. order' = [order EXCEPT ![worker[w].order] =
            [order[worker[w].order] EXCEPT !.transaction = TRUE,
                !.named = order[worker[w].order].named \/ worker[w].named]]
    BY <1>7, <1>o DEF Opened
  <2>5. order' \in [Orders -> OrderRow]
    BY <1>o, <2>2, <2>3, <2>4
  <2> QED BY <2>1, <2>5, <1>7 DEF Opened, TypeOK
<1>8. ASSUME NEW w \in Workers, SendAll(w) PROVE TypeOK'
  <2>1. worker' \in [Workers -> WorkerState]
    <3>1. \/ \E named \in BOOLEAN :
                worker' = [worker EXCEPT ![w].pc = "done", ![w].answer = OkCode,
                                         ![w].named = @ \/ named]
          \/ worker' = [worker EXCEPT ![w].pc = "unknown"]
      BY <1>8 DEF SendAll, Step
    <3> QED BY <3>1, <1>w DEF WorkerState, Uploading, Codes
  <2>2. bank' \in [Orders -> [Schemes -> Fates]]
    BY <1>8, <1>b DEF SendAll, BankTakes, Fates
  <2>3. said' \in [Orders -> [Schemes -> SUBSET Codes]]
    <3>1. OkCode \in Codes BY DEF Codes
    <3> QED BY <1>8, <3>1, <1>s, SaidType DEF SendAll
  <2> QED BY <2>1, <2>2, <2>3, <1>8 DEF SendAll, TypeOK
<1>9. ASSUME NEW w \in Workers, BankRefuses(w) PROVE TypeOK'
  <2> PICK c \in RefusalCodes :
        /\ worker' = [worker EXCEPT ![w].pc = "refused", ![w].answer = c]
        /\ said' = [said EXCEPT ![worker[w].order][worker[w].sends] = @ \cup {c}]
    BY <1>9 DEF BankRefuses
  <2>1. c \in Codes BY DEF Codes
  <2>2. worker' \in [Workers -> WorkerState]
    <3>1. "refused" \in Uploading BY DEF Uploading
    <3>2. \A r \in WorkerState : [r EXCEPT !.pc = "refused", !.answer = c] \in WorkerState
      BY <2>1, <3>1 DEF WorkerState
    <3> QED BY <3>2, <1>w
  <2>3. said' \in [Orders -> [Schemes -> SUBSET Codes]]
    BY <2>1, <1>s, SaidType
  <2> QED BY <2>2, <2>3, <1>9 DEF BankRefuses, TypeOK
<1>10. ASSUME NEW w \in Workers, NEW row \in OrderRow, NEW e \in OrderEvents, Settle(w, row, e)
       PROVE  TypeOK'
  <2>1. worker' \in [Workers -> WorkerState]
    <3>1. worker' = [worker EXCEPT ![w].pc = "answered", ![w].event = e]
      BY <1>10 DEF Settle
    <3>2. \A r \in WorkerState : [r EXCEPT !.pc = "answered", !.event = e] \in WorkerState
      BY DEF WorkerState, Settling
    <3> QED BY <3>1, <3>2, <1>w
  <2>2. order' \in [Orders -> OrderRow]
    BY <1>10, <1>o DEF Settle
  <2> QED BY <2>1, <2>2, <1>10 DEF Settle, TypeOK
<1>11. ASSUME NEW w \in Workers, Submitted(w) \/ GiveUp(w) \/ Refused(w) PROVE TypeOK'
  <2>1. order[worker[w].order] \in OrderRow
    BY <1>11, <1>o DEF InHand, Submitted, GiveUp, Refused, MustRetry, IsFinal
  <2>2. worker[w].named \in BOOLEAN
    BY <1>w DEF WorkerState
  <2>3. \A s \in OrderStates, n \in BOOLEAN :
            [Closed(order[worker[w].order], s) EXCEPT !.named = n] \in OrderRow
    BY <2>1, ClosedType DEF OrderRow
  <2>4. \A s \in OrderStates : Closed(order[worker[w].order], s) \in OrderRow
    BY <2>1, ClosedType
  <2>5. {"submitted", "failed", "rejected"} \subseteq OrderStates
    BY DEF OrderStates
  <2>6. {"payment.submitted", "payment.failed", "payment.rejected"} \subseteq OrderEvents
    BY DEF OrderEvents
  <2>7. CASE Submitted(w)
    BY <2>7, <2>2, <2>3, <2>5, <2>6, <1>10 DEF Submitted
  <2>8. CASE GiveUp(w)
    BY <2>8, <2>4, <2>5, <2>6, <1>10 DEF GiveUp
  <2>9. CASE Refused(w)
    BY <2>9, <2>4, <2>5, <2>6, <1>10 DEF Refused
  <2> QED BY <2>7, <2>8, <2>9, <1>11
<1>12. ASSUME NEW w \in Workers, RetryLater(w) PROVE TypeOK'
  <2>1. \A row \in OrderRow : [Closed(row, "accepted") EXCEPT !.waits = TRUE] \in OrderRow
    BY DEF Closed, OrderRow, OrderStates
  <2>2. order' \in [Orders -> OrderRow]
    BY <1>12, <1>o, <2>1 DEF RetryLater
  <2>3. worker' \in [Workers -> WorkerState]
    BY <1>12, <1>w, <1>i DEF RetryLater
  <2> QED BY <2>2, <2>3, <1>12 DEF RetryLater, TypeOK
<1>13. ASSUME NEW w \in Workers, FallBack(w) PROVE TypeOK'
  <2> DEFINE o == worker[w].order
             reserve == One(o, "planned")
  <2>1. reserve \in Schemes
    BY <1>13, OneType DEF FallBack, MayPromote, Messages
  <2>2. \A row \in OrderRow : [Closed(row, "accepted") EXCEPT !.attempts = 0,
            !.scheme = reserve, !.transaction = FALSE] \in OrderRow
    BY <2>1 DEF Closed, OrderRow, OrderStates
  <2>3. order' \in [Orders -> OrderRow]
    BY <1>13, <1>o, <2>2 DEF FallBack
  <2>4. worker[w].answer \in Codes
    BY <1>w DEF WorkerState
  <2>5. \A rows \in [Schemes -> AttemptRow] :
            Promoted(rows, reserve, worker[w].answer) \in [Schemes -> AttemptRow]
    BY <2>4 DEF Promoted, AttemptRow
  <2>6. attempt' \in [Orders -> [Schemes -> AttemptRow]]
    BY <1>13, <1>a, <2>5 DEF FallBack
  <2>7. worker' \in [Workers -> WorkerState]
    <3>1. worker' = [worker EXCEPT ![w].pc = "settled", ![w].event = "payment.scheme_downgraded"]
      BY <1>13 DEF FallBack
    <3>2. \A r \in WorkerState :
            [r EXCEPT !.pc = "settled", !.event = "payment.scheme_downgraded"] \in WorkerState
      BY DEF WorkerState, Settling, OrderEvents
    <3> QED BY <3>1, <3>2, <1>w
  <2> QED BY <2>3, <2>6, <2>7, <1>13 DEF FallBack, TypeOK
<1>14. ASSUME NEW w \in Workers, RecordAnswer(w) PROVE TypeOK'
  <2>1. worker[w].answer \in Codes
    BY <1>w DEF WorkerState
  <2>2. \A rows \in [Schemes -> AttemptRow] :
            Answered(rows, worker[w].answer) \in [Schemes -> AttemptRow]
    BY <2>1 DEF Answered, AttemptRow
  <2>3. attempt' \in [Orders -> [Schemes -> AttemptRow]]
    BY <1>14, <1>a, <2>2 DEF RecordAnswer
  <2>4. worker' \in [Workers -> WorkerState]
    BY <1>14, <1>w DEF RecordAnswer, Step, WorkerState, Settling
  <2> QED BY <2>3, <2>4, <1>14 DEF RecordAnswer, TypeOK
<1>15. ASSUME NEW w \in Workers, RecordEvent(w) PROVE TypeOK'
  <2>1. worker[w].event \in OrderEvents
    BY <1>15, <1>w DEF RecordEvent, InHand, Settling, WorkerState
  <2>2. events' \in [Orders -> SUBSET OrderEvents]
    BY <2>1, <1>15, <1>e DEF RecordEvent
  <2>3. worker' \in [Workers -> WorkerState]
    BY <1>15, <1>w, <1>i DEF RecordEvent
  <2> QED BY <2>2, <2>3, <1>15 DEF RecordEvent, TypeOK
<1>16. ASSUME NEW w \in Workers, WorkerLost(w) PROVE TypeOK'
  <2>1. worker' \in [Workers -> WorkerState]
    BY <1>16, <1>w, <1>i DEF WorkerLost
  <2> QED BY <2>1, <1>16 DEF WorkerLost, TypeOK
<1>17. ASSUME NEW p \in Operators, NEW o \in Orders, CheckReplay(p, o) PROVE TypeOK'
  <2>1. operator' \in [Operators -> OperatorState]
    BY <1>17, <1>p DEF CheckReplay, OperatorState
  <2> QED BY <2>1, <1>17 DEF CheckReplay, TypeOK
<1>18. ASSUME NEW p \in Operators, Replay(p) PROVE TypeOK'
  <2>1. \A row \in OrderRow : Replayed(row) \in OrderRow
    BY DEF Replayed, Closed, OrderRow, OrderStates
  <2>2. order' \in [Orders -> OrderRow]
    BY <1>18, <1>o, <2>1 DEF Replay
  <2>3. operator' \in [Operators -> OperatorState]
    BY <1>18, <1>p DEF Replay, OperatorState
  <2>4. replays' \in [Orders -> Nat]
    <3>1. operator[p].order \in Orders BY <1>18 DEF Replay, InHand
    <3>2. replays' = [replays EXCEPT ![operator[p].order] = replays[operator[p].order] + 1]
      BY <1>18, <1>r, <3>1 DEF Replay
    <3> QED BY <3>1, <3>2, <1>r
  <2> QED BY <2>2, <2>3, <2>4, <1>18 DEF Replay, TypeOK
<1>19. ASSUME NEW p \in Operators, RecordReplay(p) PROVE TypeOK'
  <2>1. operator' \in [Operators -> OperatorState]
    BY <1>19, <1>p DEF RecordReplay, OperatorState, AtRest
  <2>2. events' \in [Orders -> SUBSET OrderEvents]
    BY <1>19, <1>e DEF RecordReplay, OrderEvents
  <2> QED BY <2>1, <2>2, <1>19 DEF RecordReplay, TypeOK
<1>20. ASSUME NEW o \in Orders, NEW m \in Schemes, NEW v \in Verdicts, StatusReport(o, m, v)
       PROVE  TypeOK'
  <2>1. bank' \in [Orders -> [Schemes -> Fates]]
    BY <1>20, <1>b DEF StatusReport, Fates, Verdicts
  <2>2. \A row \in OrderRow :
            [Closed(row, ReportedState(v)) EXCEPT !.verdict = v] \in OrderRow
    <3>1. ReportedState(v) \in OrderStates BY DEF ReportedState, OrderStates
    <3>2. \A row \in OrderRow : [row EXCEPT !.verdict = v] \in OrderRow BY DEF OrderRow
    <3> QED BY <3>1, <3>2, ClosedType
  <2>3. EventOf[ReportedState(v)] \in OrderEvents
    BY DEF EventOf, ReportedState, Settled, OrderStates, OrderEvents
  <2>4. order' \in [Orders -> OrderRow]
    BY <1>20, <1>o, <2>2 DEF StatusReport
  <2>5. reader' \in ReaderState
    BY <1>20, <1>c, <2>3 DEF StatusReport, ReaderState
  <2> QED BY <2>1, <2>4, <2>5, <1>20 DEF StatusReport, TypeOK
<1>21. ASSUME NEW o \in Orders, NEW m \in Schemes, ReturnBooked(o, m) PROVE TypeOK'
  <2>1. bank' \in [Orders -> [Schemes -> Fates]]
    BY <1>21, <1>b DEF ReturnBooked, Fates
  <2>2. \A row \in OrderRow : Closed(row, "returned") \in OrderRow
    BY ClosedType DEF OrderStates
  <2>3. order' \in [Orders -> OrderRow]
    BY <1>21, <1>o, <2>2 DEF ReturnBooked
  <2>4. reader' \in ReaderState
    BY <1>21, <1>c DEF ReturnBooked, ReaderState, OrderEvents
  <2> QED BY <2>1, <2>3, <2>4, <1>21 DEF ReturnBooked, TypeOK
<1>22. ASSUME RecordMove PROVE TypeOK'
  <2>1. reader.event \in OrderEvents
    BY <1>22, <1>c DEF RecordMove, InHand, ReaderState
  <2>2. events' \in [Orders -> SUBSET OrderEvents]
    BY <2>1, <1>22, <1>e DEF RecordMove
  <2>3. reader' \in ReaderState
    BY <1>22 DEF RecordMove, ReaderState, NothingRead
  <2> QED BY <2>2, <2>3, <1>22 DEF RecordMove, TypeOK
<1>23. ASSUME ReaderLost PROVE TypeOK'
  <2>1. reader' \in ReaderState
    BY <1>23 DEF ReaderLost, ReaderState, NothingRead
  <2> QED BY <2>1, <1>23 DEF ReaderLost, TypeOK
<1> QED
  BY <1>1, <1>2, <1>3, <1>4, <1>5, <1>6, <1>7, <1>8, <1>9, <1>11, <1>12, <1>13, <1>14,
     <1>15, <1>16, <1>17, <1>18, <1>19, <1>20, <1>21, <1>22, <1>23 DEF Next, Works

-----------------------------------------------------------------------------

LEMMA InHandInit == Init => InHand
BY DEF Init, InHand, Idle, AtRest, Settling

LEMMA InHandNext == TypeOK /\ InHand /\ Next => InHand'
<1> SUFFICES ASSUME TypeOK, InHand, Next PROVE InHand' OBVIOUS
<1>o. order \in [Orders -> OrderRow] BY DEF TypeOK
<1>w. worker \in [Workers -> WorkerState] BY DEF TypeOK
<1>p. operator \in [Operators -> OperatorState] BY DEF TypeOK
<1> DEFINE Carries(r) ==
              /\ r.pc # "idle" => r.order \in Orders /\ r.scheme \in Schemes
              /\ r.pc \in {"announcing", "opened", "sending", "done"} => r.sends \in Schemes
              /\ r.pc \in Settling => r.event # "none"
           Asks(r) == r.pc # "idle" => r.order \in Orders
           Reads(r) == r # NothingRead => r.order \in Orders /\ r.event # "none"
<1>i. /\ \A w \in Workers : Carries(worker[w])
      /\ \A p \in Operators : Asks(operator[p])
      /\ Reads(reader)
  BY DEF InHand
<1>q. ASSUME NEW w \in Workers, NEW r, worker' = [worker EXCEPT ![w] = r], Carries(r),
             UNCHANGED <<operator, reader>>
      PROVE  InHand'
  <2>1. \A v \in Workers : Carries(worker'[v])
    BY <1>q, <1>w, <1>i
  <2> QED BY <2>1, <1>q, <1>i DEF InHand
<1>1. ASSUME NEW w \in Workers, Claim(w) PROVE InHand'
  <2>1. PICK o \in Orders : worker' = [worker EXCEPT ![w] =
                [Idle EXCEPT !.pc = "claimed", !.order = o,
                             !.tries = order[o].attempts + 1,
                             !.scheme = order[o].scheme]]
    BY <1>1 DEF Claim
  <2>2. order[o].scheme \in Schemes
    BY <1>o DEF OrderRow
  <2> QED BY <2>1, <2>2, <1>1, <1>q DEF Claim, Idle, Settling
<1>2. ASSUME NEW w \in Workers, ReadAttempt(w) PROVE InHand'
  <2>1. PICK m \in Schemes :
            worker' = [worker EXCEPT ![w] = [worker[w] EXCEPT !.pc = "announcing", !.sends = m]]
    BY <1>2, <1>w, <1>i, OneType DEF ReadAttempt, Messages
  <2>2. Carries([worker[w] EXCEPT !.pc = "announcing", !.sends = m])
    BY <2>1, <1>2, <1>i, <1>w DEF ReadAttempt, WorkerState, Settling
  <2> QED BY <2>1, <2>2, <1>2, <1>q DEF ReadAttempt
<1>3. ASSUME NEW w \in Workers, Fails(w) \/ RecordAnswer(w) PROVE InHand'
  <2>1. PICK pc \in {"unknown", "settled"} :
            /\ worker' = [worker EXCEPT ![w] = [worker[w] EXCEPT !.pc = pc]]
            /\ worker[w].pc # "idle" /\ (pc = "settled" => worker[w].pc = "answered")
    BY <1>3, <1>w DEF Fails, RecordAnswer, Step
  <2>2. Carries([worker[w] EXCEPT !.pc = pc])
    BY <2>1, <1>3, <1>i, <1>w DEF Fails, RecordAnswer, WorkerState, Settling
  <2> QED BY <2>1, <2>2, <1>3, <1>q DEF Fails, RecordAnswer
<1>4. ASSUME NEW w \in Workers, Announce(w) PROVE InHand'
  <2>1. PICK named \in BOOLEAN :
            worker' = [worker EXCEPT ![w] = [worker[w] EXCEPT !.pc = "opened", !.named = named]]
    BY <1>4, <1>w DEF Announce
  <2>2. Carries([worker[w] EXCEPT !.pc = "opened", !.named = named])
    BY <2>1, <1>4, <1>i, <1>w DEF Announce, WorkerState, Settling
  <2> QED BY <2>1, <2>2, <1>4, <1>q DEF Announce
<1>5. ASSUME NEW w \in Workers, Opened(w) PROVE InHand'
  <2>1. worker' = [worker EXCEPT ![w] = [worker[w] EXCEPT !.pc = "sending"]]
    BY <1>5, <1>w DEF Opened, Step
  <2> QED BY <2>1, <1>5, <1>q, <1>i, <1>w DEF Opened, WorkerState, Settling
<1>6. ASSUME NEW w \in Workers, SendAll(w) PROVE InHand'
  <2>1. CASE worker' = [worker EXCEPT ![w].pc = "unknown"]
    <3>1. worker' = [worker EXCEPT ![w] = [worker[w] EXCEPT !.pc = "unknown"]]
      BY <2>1, <1>w
    <3> QED BY <3>1, <1>6, <1>q, <1>i, <1>w DEF SendAll, WorkerState, Settling
  <2>2. CASE \E named \in BOOLEAN : worker' = [worker EXCEPT ![w].pc = "done",
                    ![w].answer = OkCode, ![w].named = @ \/ named]
    <3>1. PICK n : worker' = [worker EXCEPT ![w] =
                        [worker[w] EXCEPT !.pc = "done", !.answer = OkCode, !.named = n]]
      BY <2>2, <1>w
    <3>2. Carries([worker[w] EXCEPT !.pc = "done", !.answer = OkCode, !.named = n])
      BY <3>1, <1>6, <1>i, <1>w DEF SendAll, WorkerState, Settling
    <3> QED BY <3>1, <3>2, <1>6, <1>q DEF SendAll
  <2> QED BY <2>1, <2>2, <1>6 DEF SendAll, Step
<1>7. ASSUME NEW w \in Workers, BankRefuses(w) PROVE InHand'
  <2>1. PICK c : worker' = [worker EXCEPT ![w] =
                        [worker[w] EXCEPT !.pc = "refused", !.answer = c]]
    BY <1>7, <1>w DEF BankRefuses
  <2>2. Carries([worker[w] EXCEPT !.pc = "refused", !.answer = c])
    BY <2>1, <1>7, <1>i, <1>w DEF BankRefuses, WorkerState, Settling
  <2> QED BY <2>1, <2>2, <1>7, <1>q DEF BankRefuses
<1>8. ASSUME NEW w \in Workers, Submitted(w) \/ GiveUp(w) \/ Refused(w) \/ FallBack(w)
      PROVE  InHand'
  <2>1. PICK pc \in Settling, e \in OrderEvents :
            worker' = [worker EXCEPT ![w] = [worker[w] EXCEPT !.pc = pc, !.event = e]]
    BY <1>8, <1>w DEF Submitted, GiveUp, Refused, FallBack, Settle, OrderEvents, Settling
  <2>2. worker[w].pc # "idle"
    BY <1>8 DEF Submitted, GiveUp, Refused, FallBack, MustRetry, IsFinal
  <2>3. UNCHANGED <<operator, reader>>
    BY <1>8 DEF Submitted, GiveUp, Refused, FallBack, Settle
  <2>4. Carries([worker[w] EXCEPT !.pc = pc, !.event = e])
    BY <2>2, <1>i, <1>w DEF WorkerState, Settling, OrderEvents
  <2> QED BY <2>1, <2>3, <2>4, <1>q
<1>9. ASSUME NEW w \in Workers, RetryLater(w) \/ RecordEvent(w) \/ WorkerLost(w) PROVE InHand'
  <2>1. worker' = [worker EXCEPT ![w] = Idle] /\ UNCHANGED <<operator, reader>>
    BY <1>9 DEF RetryLater, RecordEvent, WorkerLost
  <2> QED BY <2>1, <1>q DEF Idle, Settling
<1>10. ASSUME NEW p \in Operators, NEW o \in Orders,
              CheckReplay(p, o) \/ Replay(p) \/ RecordReplay(p)
       PROVE  InHand'
  <2>1. \A q \in Operators : Asks(operator'[q])
    BY <1>10, <1>p, <1>i DEF CheckReplay, Replay, RecordReplay, AtRest, OperatorState
  <2> QED BY <2>1, <1>10, <1>i DEF InHand, CheckReplay, Replay, RecordReplay
<1>11. ASSUME NEW o \in Orders, NEW m \in Schemes,
              (\E v \in Verdicts : StatusReport(o, m, v)) \/ ReturnBooked(o, m)
       PROVE  InHand'
  <2>1. \A v \in Verdicts : EventOf[ReportedState(v)] # "none"
    BY DEF EventOf, ReportedState, Settled, OrderStates
  <2>2. Reads(reader')
    BY <2>1, <1>11, <1>i DEF StatusReport, ReturnBooked
  <2> QED BY <2>2, <1>11, <1>i DEF InHand, StatusReport, ReturnBooked
<1>12. ASSUME RecordMove \/ ReaderLost PROVE InHand'
  BY <1>12, <1>i DEF InHand, RecordMove, ReaderLost
<1>13. ASSUME NEW o \in Orders, LeaseExpires(o) \/ BackoffEnds(o) PROVE InHand'
  BY <1>13, <1>i DEF InHand, LeaseExpires, BackoffEnds
<1>14. ASSUME NEW p \in Operators, Replay(p) \/ RecordReplay(p) PROVE InHand'
  BY <1>14, <1>10, <1>i DEF InHand, Replay, RecordReplay
<1> QED
  BY <1>1, <1>2, <1>3, <1>4, <1>5, <1>6, <1>7, <1>8, <1>9, <1>10, <1>11, <1>12, <1>13, <1>14
  DEF Next, Works

LEMMA LiveInit == Init => LiveAttemptIsTheOrders
<1> SUFFICES ASSUME Init, NEW o \in Orders PROVE Those(o, "live") = {order[o].scheme}
  BY DEF LiveAttemptIsTheOrders
<1>1. PICK r \in Requests : order[o].scheme = FirstScheme(r) /\ attempt[o] = FirstAttempts(r)
  BY DEF Init
<1> QED BY <1>1 DEF Those, FirstAttempts, FirstScheme, Requests, Schemes

LEMMA LiveNext == TypeOK /\ LiveAttemptIsTheOrders /\ Next => LiveAttemptIsTheOrders'
<1> SUFFICES ASSUME TypeOK, LiveAttemptIsTheOrders, Next, NEW o \in Orders
             PROVE  Those(o, "live")' = {order'[o].scheme}
  BY DEF LiveAttemptIsTheOrders
<1>o. order \in [Orders -> OrderRow] BY DEF TypeOK
<1>a. attempt \in [Orders -> [Schemes -> AttemptRow]] BY DEF TypeOK
<1>l. Those(o, "live") = {order[o].scheme} BY DEF LiveAttemptIsTheOrders
<1>c. \A s : Closed(order[o], s).scheme = order[o].scheme
  BY <1>o DEF Closed, OrderRow
<1>1. ASSUME NEW w \in Workers, FallBack(w) PROVE Those(o, "live")' = {order'[o].scheme}
  <2> DEFINE mine == worker[w].order
             reserve == One(mine, "planned")
  <2>1. CASE o # mine
    BY <2>1, <1>1, <1>l, <1>o, <1>a DEF FallBack, Those
  <2>2. CASE o = mine
    <3>1. reserve \in Schemes
      BY <1>1, OneType DEF FallBack, MayPromote, Messages
    <3>2. order'[o].scheme = reserve
      BY <2>2, <1>1, <1>o DEF FallBack, Closed, OrderRow
    <3>3. attempt'[o] = Promoted(attempt[o], reserve, worker[w].answer)
      BY <2>2, <1>1, <1>a DEF FallBack
    <3>4. \A s \in Schemes : attempt'[o][s].state = "live" <=> s = reserve
      BY <3>3, <1>a DEF Promoted, AttemptRow
    <3> QED BY <3>1, <3>2, <3>4 DEF Those
  <2> QED BY <2>1, <2>2
<1>2. ASSUME NEW w \in Workers, RecordAnswer(w) PROVE Those(o, "live")' = {order'[o].scheme}
  <2>1. attempt'[o] = attempt[o] \/ attempt'[o] = Answered(attempt[o], worker[w].answer)
    BY <1>2, <1>a DEF RecordAnswer
  <2>2. \A s \in Schemes : attempt'[o][s].state = attempt[o][s].state
    <3>1. \A row \in AttemptRow : \A c : [row EXCEPT !.code = c].state = row.state
      BY DEF AttemptRow
    <3>2. attempt[o] \in [Schemes -> AttemptRow] BY <1>a
    <3>3. \A s \in Schemes : \A c : Answered(attempt[o], c)[s].state = attempt[o][s].state
      BY <3>1, <3>2 DEF Answered
    <3> QED BY <2>1, <3>3
  <2> QED BY <2>2, <1>2, <1>l DEF Those, RecordAnswer
<1>3. ASSUME UNCHANGED attempt, order'[o].scheme = order[o].scheme
      PROVE  Those(o, "live")' = {order'[o].scheme}
  BY <1>3, <1>l DEF Those
<1>r. \A n, v : \A row \in OrderRow, st \in OrderStates :
        /\ [Closed(row, st) EXCEPT !.named = n].scheme = row.scheme
        /\ [Closed(row, st) EXCEPT !.waits = n].scheme = row.scheme
        /\ [Closed(row, st) EXCEPT !.verdict = v].scheme = row.scheme
        /\ [row EXCEPT !.transaction = n, !.named = v].scheme = row.scheme
  BY DEF Closed, OrderRow
<1>4. ASSUME NEW w \in Workers, Claim(w) \/ Opened(w)
      PROVE UNCHANGED attempt /\ order'[o].scheme = order[o].scheme
  <2>1. CASE Claim(w)
    BY <2>1, <1>o DEF Claim, OrderRow
  <2>2. CASE Opened(w)
    <3>1. order' = [order EXCEPT ![worker[w].order] = [order[worker[w].order] EXCEPT
                        !.transaction = TRUE, !.named = order[worker[w].order].named \/ worker[w].named]]
      BY <2>2, <1>o DEF Opened
    <3> QED BY <3>1, <2>2, <1>o, <1>r DEF Opened
  <2> QED BY <2>1, <2>2, <1>4
<1>5. ASSUME NEW w \in Workers, Submitted(w) \/ GiveUp(w) \/ Refused(w) \/ RetryLater(w)
      PROVE UNCHANGED attempt /\ order'[o].scheme = order[o].scheme
  <2>1. CASE Submitted(w)
    BY <2>1, <1>o, <1>r DEF Submitted, Settle, OrderStates
  <2>2. CASE GiveUp(w) \/ Refused(w)
    BY <2>2, <1>o, <1>c DEF GiveUp, Refused, Settle
  <2>3. CASE RetryLater(w)
    BY <2>3, <1>o, <1>r DEF RetryLater, OrderStates
  <2> QED BY <2>1, <2>2, <2>3, <1>5
<1>6. ASSUME NEW w \in Workers,
             \/ ReadAttempt(w) \/ Fails(w) \/ Announce(w) \/ SendAll(w) \/ BankRefuses(w)
             \/ RecordEvent(w) \/ WorkerLost(w)
      PROVE UNCHANGED attempt /\ order'[o].scheme = order[o].scheme
  BY <1>6 DEF ReadAttempt, Fails, Announce, SendAll, BankRefuses, RecordEvent, WorkerLost
<1>7. ASSUME NEW q \in Orders, LeaseExpires(q) \/ BackoffEnds(q)
      PROVE UNCHANGED attempt /\ order'[o].scheme = order[o].scheme
  BY <1>7, <1>o DEF LeaseExpires, BackoffEnds, OrderRow
<1>8. ASSUME NEW p \in Operators, Replay(p)
      PROVE UNCHANGED attempt /\ order'[o].scheme = order[o].scheme
  BY <1>8, <1>o DEF Replay, Replayed, Closed, OrderRow
<1>9. ASSUME NEW q \in Orders, NEW m \in Schemes,
             (\E v \in Verdicts : StatusReport(q, m, v)) \/ ReturnBooked(q, m)
      PROVE UNCHANGED attempt /\ order'[o].scheme = order[o].scheme
  <2>1. CASE ReturnBooked(q, m)
    BY <2>1, <1>o, <1>c DEF ReturnBooked
  <2>2. ASSUME NEW v \in Verdicts, StatusReport(q, m, v)
        PROVE  UNCHANGED attempt /\ order'[o].scheme = order[o].scheme
    <3>1. ReportedState(v) \in OrderStates BY DEF ReportedState, OrderStates
    <3>2. \/ UNCHANGED order
          \/ order' = [order EXCEPT ![q] =
                [Closed(order[q], ReportedState(v)) EXCEPT !.verdict = v]]
      BY <2>2 DEF StatusReport
    <3>3. [Closed(order[q], ReportedState(v)) EXCEPT !.verdict = v].scheme = order[q].scheme
      BY <3>1, <1>o, <1>r
    <3> QED BY <3>2, <3>3, <2>2, <1>o DEF StatusReport
  <2> QED BY <2>1, <2>2, <1>9
<1>10. ASSUME \/ RecordMove \/ ReaderLost
              \/ \E p \in Operators : RecordReplay(p) \/ \E q \in Orders : CheckReplay(p, q)
       PROVE UNCHANGED attempt /\ order'[o].scheme = order[o].scheme
  BY <1>10 DEF RecordMove, ReaderLost, RecordReplay, CheckReplay
<1> QED
  BY <1>1, <1>2, <1>3, <1>4, <1>5, <1>6, <1>7, <1>8, <1>9, <1>10 DEF Next, Works

-----------------------------------------------------------------------------

Shape == TypeOK /\ InHand /\ LiveAttemptIsTheOrders

LEMMA ShapeHolds == Spec => []Shape
<1>1. Init => Shape
  BY TypeInit, InHandInit, LiveInit DEF Shape
<1>2. Shape /\ [Next]_vars => Shape'
  <2> SUFFICES ASSUME Shape, [Next]_vars PROVE Shape' OBVIOUS
  <2>1. CASE Next
    BY <2>1, TypeNext, InHandNext, LiveNext DEF Shape
  <2>2. CASE UNCHANGED vars
    BY <2>2 DEF vars, Shape, TypeOK, InHand, LiveAttemptIsTheOrders, Those
  <2> QED BY <2>1, <2>2
<1> QED BY <1>1, <1>2, PTL DEF Spec

\* Every variable keeps its type, whatever the bank, the operators and the
\* crashes do and however long uploads take.
THEOREM TypeCorrect == Spec => []TypeOK
<1>1. Shape => TypeOK BY DEF Shape
<1> QED BY <1>1, ShapeHolds, PTL

\* fall_back swaps the order's message and its attempt rows as one: no reader
\* ever sees an instant that is gone beside a reserve that is not yet live, even
\* where leases expire under uploads and operators replay at the same time.
THEOREM LiveAttempt == Spec => []LiveAttemptIsTheOrders
<1>1. Shape => LiveAttemptIsTheOrders BY DEF Shape
<1> QED BY <1>1, ShapeHolds, PTL

-----------------------------------------------------------------------------
(* What each step does to the rows, in the form the proofs below use.       *)

Wrote(o, r) == r \in OrderRow /\ order' = [order EXCEPT ![o] = r]
Became(w, r) == worker' = [worker EXCEPT ![w] = r]
Keeps(r, row) ==
    r.scheme = row.scheme /\ r.attempts = row.attempts /\ r.transaction = row.transaction
Owns(r, row) == r.state = row.state /\ r.worker = row.worker /\ r.claim = row.claim

LEMMA ClosedRow ==
    ASSUME NEW row \in OrderRow, NEW st \in OrderStates
    PROVE  /\ Closed(row, st) \in OrderRow
           /\ Closed(row, st).state = st
           /\ Keeps(Closed(row, st), row)
BY DEF Closed, OrderRow, Keeps

LEMMA KeptRow ==
    ASSUME NEW row, NEW old \in OrderRow, NEW st \in OrderStates, row = Closed(old, st),
           NEW flag \in BOOLEAN, NEW v \in Verdicts
    PROVE  \A x \in {[row EXCEPT !.named = flag], [row EXCEPT !.waits = flag],
                     [row EXCEPT !.verdict = v]} :
              x \in OrderRow /\ Keeps(x, old) /\ x.state = st
<1>1. row \in OrderRow /\ row.state = st /\ Keeps(row, old) BY ClosedRow
<1>2. /\ [row EXCEPT !.named = flag] \in OrderRow /\ [row EXCEPT !.waits = flag] \in OrderRow
      /\ [row EXCEPT !.verdict = v] \in OrderRow
  BY <1>1 DEF OrderRow
<1>3. ASSUME NEW x \in {[row EXCEPT !.named = flag], [row EXCEPT !.waits = flag],
                       [row EXCEPT !.verdict = v]}
      PROVE  /\ x.state = row.state /\ x.scheme = row.scheme
             /\ x.attempts = row.attempts /\ x.transaction = row.transaction
  BY <1>1, <1>3 DEF OrderRow
<1> QED BY <1>1, <1>2, <1>3 DEF Keeps

LEMMA ClaimEffect ==
    ASSUME Shape, NEW w \in Workers, Claim(w)
    PROVE  \E r, c : \E o \in Orders :
            /\ Claimable(o) /\ worker[w].pc = "idle"
            /\ Wrote(o, r) /\ r.state = "submitting" /\ r.worker = w /\ r.claim = "held"
            /\ r.scheme = order[o].scheme /\ r.transaction = order[o].transaction
            /\ r.attempts = order[o].attempts + 1
            /\ Became(w, c) /\ c.pc = "claimed" /\ c.order = o /\ c.tries = r.attempts
            /\ c.answer = NoCode
<1>1. PICK o \in Orders :
        /\ Claimable(o)
        /\ order' = [order EXCEPT ![o].state = "submitting", ![o].worker = w,
                                  ![o].claim = "held", ![o].attempts = @ + 1]
        /\ worker' = [worker EXCEPT ![w] =
                [Idle EXCEPT !.pc = "claimed", !.order = o,
                             !.tries = order[o].attempts + 1,
                             !.scheme = order[o].scheme]]
  BY DEF Claim
<1> DEFINE r == [order[o] EXCEPT !.state = "submitting", !.worker = w, !.claim = "held",
                                 !.attempts = order[o].attempts + 1]
           c == [Idle EXCEPT !.pc = "claimed", !.order = o, !.tries = order[o].attempts + 1,
                             !.scheme = order[o].scheme]
<1>2. order \in [Orders -> OrderRow] BY DEF Shape, TypeOK
<1>3. r \in OrderRow
  <2>1. \A row \in OrderRow, n \in Nat :
          [row EXCEPT !.state = "submitting", !.worker = w, !.claim = "held", !.attempts = n]
            \in OrderRow
    BY DEF OrderRow, OrderStates
  <2>2. order[o] \in OrderRow /\ order[o].attempts + 1 \in Nat
    BY <1>2 DEF OrderRow
  <2> QED BY <2>1, <2>2
<1>4. order' = [order EXCEPT ![o] = r] BY <1>1, <1>2
<1>5. /\ r.state = "submitting" /\ r.worker = w /\ r.claim = "held"
      /\ r.scheme = order[o].scheme /\ r.transaction = order[o].transaction
      /\ r.attempts = order[o].attempts + 1
  BY <1>2 DEF OrderRow
<1>6. c.pc = "claimed" /\ c.order = o /\ c.tries = order[o].attempts + 1 /\ c.answer = NoCode
  BY DEF Idle
<1>7. worker[w].pc = "idle" BY DEF Claim, Idle
<1> HIDE DEF r, c
<1>8. Wrote(o, r) BY <1>3, <1>4 DEF Wrote
<1>9. Became(w, c)
  <2>1. c = [Idle EXCEPT !.pc = "claimed", !.order = o, !.tries = order[o].attempts + 1,
                             !.scheme = order[o].scheme]
    BY DEF c
  <2> QED BY <1>1, <2>1 DEF Became
<1> QED BY <1>1, <1>5, <1>6, <1>7, <1>8, <1>9

\* The steps that leave the rows of orders alone.
OnlyWorker(w) ==
    \/ ReadAttempt(w) \/ Fails(w) \/ Announce(w) \/ SendAll(w) \/ BankRefuses(w)
    \/ RecordAnswer(w) \/ RecordEvent(w) \/ WorkerLost(w)

LEMMA OnlyWorkerEffect ==
    ASSUME Shape, NEW w \in Workers, OnlyWorker(w)
    PROVE  /\ UNCHANGED <<order, replays, operator>>
           /\ \E c : /\ Became(w, c)
                     /\ c.pc \in Uploading => /\ worker[w].pc \in Uploading
                                              /\ c.order = worker[w].order
                                              /\ c.tries = worker[w].tries
<1>w. worker \in [Workers -> WorkerState] BY DEF Shape, TypeOK
<1> SUFFICES \E c : /\ Became(w, c)
                    /\ c.pc \in Uploading => /\ worker[w].pc \in Uploading
                                             /\ c.order = worker[w].order
                                             /\ c.tries = worker[w].tries
  BY DEF OnlyWorker, ReadAttempt, Fails, Announce, SendAll, BankRefuses, RecordAnswer,
     RecordEvent, WorkerLost
<1>1. CASE ReadAttempt(w)
  <2>1. PICK m : Became(w, [worker[w] EXCEPT !.pc = "announcing", !.sends = m])
    BY <1>1, <1>w DEF ReadAttempt, Became
  <2>2. worker[w].pc \in Uploading BY <1>1 DEF ReadAttempt, Uploading
  <2>3. /\ [worker[w] EXCEPT !.pc = "announcing", !.sends = m].order = worker[w].order
           /\ [worker[w] EXCEPT !.pc = "announcing", !.sends = m].tries = worker[w].tries
    BY <1>w DEF WorkerState
  <2> QED BY <2>1, <2>2, <2>3
<1>2. CASE Fails(w)
  <2>1. Became(w, [worker[w] EXCEPT !.pc = "unknown"])
    BY <1>2, <1>w DEF Fails, Step, Became
  <2> QED BY <2>1, <1>2, <1>w DEF Fails, WorkerState, Uploading
<1>3. CASE Announce(w)
  <2>1. PICK n : Became(w, [worker[w] EXCEPT !.pc = "opened", !.named = n])
    BY <1>3, <1>w DEF Announce, Became
  <2>2. worker[w].pc \in Uploading BY <1>3 DEF Announce, Uploading
  <2>3. /\ [worker[w] EXCEPT !.pc = "opened", !.named = n].order = worker[w].order
           /\ [worker[w] EXCEPT !.pc = "opened", !.named = n].tries = worker[w].tries
    BY <1>w DEF WorkerState
  <2> QED BY <2>1, <2>2, <2>3
<1>4. CASE SendAll(w)
  <2>1. \/ Became(w, [worker[w] EXCEPT !.pc = "unknown"])
        \/ \E n : Became(w, [worker[w] EXCEPT !.pc = "done", !.answer = OkCode, !.named = n])
    BY <1>4, <1>w DEF SendAll, Step, Became
  <2>2. worker[w].pc \in Uploading BY <1>4 DEF SendAll, Uploading
  <2>3. \A n : LET c == [worker[w] EXCEPT !.pc = "done", !.answer = OkCode, !.named = n]
               IN  c.order = worker[w].order /\ c.tries = worker[w].tries
    BY <1>w DEF WorkerState
  <2>4. LET c == [worker[w] EXCEPT !.pc = "unknown"]
        IN  c.order = worker[w].order /\ c.tries = worker[w].tries
    BY <1>w DEF WorkerState
  <2> QED BY <2>1, <2>2, <2>3, <2>4
<1>5. CASE BankRefuses(w)
  <2>1. PICK a : Became(w, [worker[w] EXCEPT !.pc = "refused", !.answer = a])
    BY <1>5, <1>w DEF BankRefuses, Became
  <2>2. worker[w].pc \in Uploading BY <1>5 DEF BankRefuses, Uploading
  <2>3. /\ [worker[w] EXCEPT !.pc = "refused", !.answer = a].order = worker[w].order
           /\ [worker[w] EXCEPT !.pc = "refused", !.answer = a].tries = worker[w].tries
    BY <1>w DEF WorkerState
  <2> QED BY <2>1, <2>2, <2>3
<1>6. CASE RecordAnswer(w)
  <2>1. Became(w, [worker[w] EXCEPT !.pc = "settled"])
    BY <1>6, <1>w DEF RecordAnswer, Step, Became
  <2> QED BY <2>1, <1>w DEF WorkerState, Uploading
<1>7. CASE RecordEvent(w) \/ WorkerLost(w)
  <2>1. Became(w, Idle) BY <1>7 DEF RecordEvent, WorkerLost, Became
  <2> QED BY <2>1 DEF Idle, Uploading
<1> QED BY <1>1, <1>2, <1>3, <1>4, <1>5, <1>6, <1>7 DEF OnlyWorker

LEMMA OpenedEffect ==
    ASSUME Shape, NEW w \in Workers, Opened(w)
    PROVE  /\ worker[w].order \in Orders
           /\ \E r : /\ Wrote(worker[w].order, r) /\ Owns(r, order[worker[w].order])
                     /\ r.scheme = order[worker[w].order].scheme
                     /\ r.attempts = order[worker[w].order].attempts
                     /\ r.transaction
           /\ Became(w, [worker[w] EXCEPT !.pc = "sending"])
<1> DEFINE o == worker[w].order
           r == [order[o] EXCEPT !.transaction = TRUE,
                                 !.named = order[o].named \/ worker[w].named]
<1>1. order \in [Orders -> OrderRow] /\ worker \in [Workers -> WorkerState]
  BY DEF Shape, TypeOK
<1>2. o \in Orders BY DEF Shape, InHand, Opened
<1>3. order' = [order EXCEPT ![o] = r] BY <1>1 DEF Opened
<1>4. r \in OrderRow /\ Owns(r, order[o]) /\ r.scheme = order[o].scheme
      /\ r.attempts = order[o].attempts /\ r.transaction
  <2>1. \A row \in OrderRow, n \in BOOLEAN :
            LET x == [row EXCEPT !.transaction = TRUE, !.named = row.named \/ n]
            IN  /\ x \in OrderRow /\ Owns(x, row) /\ x.scheme = row.scheme
                /\ x.attempts = row.attempts /\ x.transaction
    BY DEF OrderRow, Owns
  <2>2. order[o] \in OrderRow /\ worker[w].named \in BOOLEAN
    BY <1>1, <1>2 DEF WorkerState
  <2> QED BY <2>1, <2>2
<1>5. Became(w, [worker[w] EXCEPT !.pc = "sending"])
  BY <1>1 DEF Opened, Step, Became
<1> QED BY <1>2, <1>3, <1>4, <1>5 DEF Wrote

LEMMA TimeEffect ==
    ASSUME Shape, NEW o \in Orders, LeaseExpires(o) \/ BackoffEnds(o)
    PROVE  \E r : /\ Wrote(o, r) /\ Keeps(r, order[o]) /\ r.state = order[o].state
                  /\ r.worker = order[o].worker
                  /\ ~LeaseExpires(o) => r.claim = order[o].claim
<1>1. order \in [Orders -> OrderRow] BY DEF Shape, TypeOK
<1>2. CASE LeaseExpires(o)
  <2>1. order' = [order EXCEPT ![o] = [order[o] EXCEPT !.claim = "expired"]]
    BY <1>1, <1>2 DEF LeaseExpires
  <2> QED BY <1>1, <1>2, <2>1 DEF Wrote, OrderRow, Keeps
<1>3. CASE BackoffEnds(o)
  <2>1. order' = [order EXCEPT ![o] = [order[o] EXCEPT !.waits = FALSE]]
    BY <1>1, <1>3 DEF BackoffEnds
  <2>2. \A row \in OrderRow :
            LET x == [row EXCEPT !.waits = FALSE]
            IN  x \in OrderRow /\ Keeps(x, row) /\ Owns(x, row)
    BY DEF OrderRow, Keeps, Owns
  <2> QED BY <1>1, <1>3, <2>1, <2>2 DEF Wrote, Owns
<1> QED BY <1>2, <1>3

LEMMA SettleEffect ==
    ASSUME Shape, NEW w \in Workers, Submitted(w) \/ GiveUp(w) \/ Refused(w)
    PROVE  /\ Holds(w, worker[w].order) /\ worker[w].order \in Orders
           /\ \E r, e :
                /\ Wrote(worker[w].order, r) /\ Keeps(r, order[worker[w].order])
                /\ r.state \in {"submitted", "failed", "rejected"}
                /\ r.state = "submitted" => worker[w].pc = "done"
                /\ e = EventOf[r.state]
                /\ Became(w, [worker[w] EXCEPT !.pc = "answered", !.event = e])
           /\ UNCHANGED <<attempt, operator, reader, bank, said, events, replays, crashes>>
<1> DEFINE o == worker[w].order
<1>1. order \in [Orders -> OrderRow] /\ worker \in [Workers -> WorkerState]
  BY DEF Shape, TypeOK
<1>2. o \in Orders /\ Holds(w, o)
  BY DEF Shape, InHand, Holds, Uploading, Submitted, GiveUp, Refused, MustRetry, IsFinal
<1>3. ASSUME NEW r \in OrderRow, NEW e, Settle(w, r, e)
      PROVE  /\ Wrote(o, r)
             /\ Became(w, [worker[w] EXCEPT !.pc = "answered", !.event = e])
             /\ UNCHANGED <<attempt, operator, reader, bank, said, events, replays, crashes>>
  BY <1>1, <1>3 DEF Settle, Wrote, Became
<1>e. /\ EventOf["submitted"] = "payment.submitted"
      /\ EventOf["failed"] = "payment.failed"
      /\ EventOf["rejected"] = "payment.rejected"
  BY DEF EventOf, Settled, OrderStates
<1>4. CASE Submitted(w)
  <2> DEFINE r == [Closed(order[o], "submitted") EXCEPT !.named = worker[w].named]
  <2>1. \A row \in OrderRow, n \in BOOLEAN :
            LET x == [Closed(row, "submitted") EXCEPT !.named = n]
            IN  x \in OrderRow /\ Keeps(x, row) /\ x.state = "submitted"
    <3>1. PICK st \in OrderStates : st = "submitted" BY DEF OrderStates
    <3>2. PICK v \in Verdicts : TRUE BY DEF Verdicts
    <3> QED BY <3>1, <3>2, KeptRow
  <2>2. r \in OrderRow /\ Keeps(r, order[o]) /\ r.state = "submitted"
    BY <1>1, <1>2, <2>1 DEF WorkerState
  <2>3. Settle(w, r, "payment.submitted") /\ worker[w].pc = "done"
    BY <1>4 DEF Submitted
  <2> HIDE DEF r
  <2> QED BY <1>2, <1>3, <1>e, <2>2, <2>3
<1>5. CASE GiveUp(w)
  <2>1. PICK r : /\ r \in OrderRow /\ Keeps(r, order[o]) /\ r.state = "failed"
                 /\ r = Closed(order[o], "failed")
    BY <1>1, <1>2, ClosedRow DEF OrderStates
  <2>2. Settle(w, r, "payment.failed") BY <1>5, <2>1 DEF GiveUp
  <2> QED BY <1>2, <1>3, <1>e, <2>1, <2>2
<1>6. CASE Refused(w)
  <2>1. PICK r : /\ r \in OrderRow /\ Keeps(r, order[o]) /\ r.state = "rejected"
                 /\ r = Closed(order[o], "rejected")
    BY <1>1, <1>2, ClosedRow DEF OrderStates
  <2>2. Settle(w, r, "payment.rejected") BY <1>6, <2>1 DEF Refused
  <2> QED BY <1>2, <1>3, <1>e, <2>1, <2>2
<1> QED BY <1>4, <1>5, <1>6

LEMMA RetryEffect ==
    ASSUME Shape, NEW w \in Workers, RetryLater(w)
    PROVE  /\ Holds(w, worker[w].order) /\ worker[w].order \in Orders
           /\ \E r : /\ Wrote(worker[w].order, r) /\ Keeps(r, order[worker[w].order])
                     /\ r.state = "accepted"
           /\ Became(w, Idle)
<1> DEFINE o == worker[w].order
<1>1. order \in [Orders -> OrderRow] BY DEF Shape, TypeOK
<1>2. o \in Orders /\ Holds(w, o)
  BY DEF Shape, InHand, Holds, Uploading, RetryLater, MustRetry
<1>3. \A row \in OrderRow :
            LET x == [Closed(row, "accepted") EXCEPT !.waits = TRUE]
            IN  x \in OrderRow /\ Keeps(x, row) /\ x.state = "accepted"
  <2>1. PICK st \in OrderStates : st = "accepted" BY DEF OrderStates
  <2>2. PICK v \in Verdicts : TRUE BY DEF Verdicts
  <2> QED BY <2>1, <2>2, KeptRow
<1> QED BY <1>1, <1>2, <1>3 DEF RetryLater, Wrote, Became

LEMMA FallBackEffect ==
    ASSUME Shape, NEW w \in Workers, FallBack(w)
    PROVE  /\ Holds(w, worker[w].order) /\ worker[w].order \in Orders
           /\ ~order[worker[w].order].transaction
           /\ \E r, c :
                /\ Wrote(worker[w].order, r) /\ r.state = "accepted" /\ r.attempts = 0
                /\ Became(w, c) /\ c.pc = "settled"
<1> DEFINE o == worker[w].order
           r == [Closed(order[o], "accepted") EXCEPT !.attempts = 0,
                    !.scheme = One(o, "planned"), !.transaction = FALSE]
           c == [worker[w] EXCEPT !.pc = "settled", !.event = "payment.scheme_downgraded"]
<1>1. order \in [Orders -> OrderRow] /\ worker \in [Workers -> WorkerState]
  BY DEF Shape, TypeOK
<1>2. o \in Orders /\ Holds(w, o) /\ ~order[o].transaction
  BY DEF Shape, InHand, Holds, Uploading, FallBack, IsFinal, MayPromote
<1>3. One(o, "planned") \in Schemes BY OneType DEF FallBack, MayPromote, Messages
<1>4. \A row \in OrderRow, m \in Schemes :
            LET x == [Closed(row, "accepted") EXCEPT !.attempts = 0, !.scheme = m,
                                                     !.transaction = FALSE]
            IN  x \in OrderRow /\ x.state = "accepted" /\ x.attempts = 0
  BY DEF Closed, OrderRow, OrderStates
<1>5. r \in OrderRow /\ r.state = "accepted" /\ r.attempts = 0
  BY <1>1, <1>2, <1>3, <1>4
<1>6. order' = [order EXCEPT ![o] = r] BY DEF FallBack
<1>7. worker' = [worker EXCEPT ![w] = c] /\ c.pc = "settled"
  BY <1>1 DEF FallBack, WorkerState
<1> HIDE DEF r, c
<1> QED BY <1>2, <1>5, <1>6, <1>7 DEF Wrote, Became

LEMMA ReplayEffect ==
    ASSUME Shape, NEW p \in Operators, Replay(p)
    PROVE  /\ operator[p].pc = "checked" /\ operator[p].order \in Orders
           /\ \E r : /\ Wrote(operator[p].order, r) /\ r.state = "accepted" /\ r.attempts = 0
                     /\ r.scheme = order[operator[p].order].scheme
           /\ operator' = [operator EXCEPT ![p] = [operator[p] EXCEPT !.pc = "requeued"]]
<1>1. order \in [Orders -> OrderRow] /\ operator \in [Operators -> OperatorState]
  BY DEF Shape, TypeOK
<1>2. operator[p].order \in Orders BY DEF Shape, InHand, Replay
<1>3. \A row \in OrderRow :
            /\ Replayed(row) \in OrderRow /\ Replayed(row).state = "accepted"
            /\ Replayed(row).attempts = 0 /\ Replayed(row).scheme = row.scheme
  BY DEF Replayed, Closed, OrderRow, OrderStates
<1> QED BY <1>1, <1>2, <1>3 DEF Replay, Wrote

LEMMA ReportEffect ==
    ASSUME Shape, NEW o \in Orders, NEW m \in Schemes,
           (\E v \in Verdicts : StatusReport(o, m, v)) \/ ReturnBooked(o, m)
    PROVE  /\ \/ UNCHANGED <<order, reader>>
              \/ \E r : /\ Wrote(o, r) /\ Keeps(r, order[o])
                        /\ reader' = [order |-> o, event |-> EventOf[r.state]]
                        /\ \/ /\ order[o].state \in {"accepted", "submitted"}
                              /\ r.state = "acknowledged"
                           \/ /\ order[o].state \in {"accepted", "submitted", "acknowledged"}
                              /\ r.state = "rejected"
                           \/ /\ order[o].state \in {"submitted", "acknowledged"}
                              /\ r.state = "returned"
           /\ UNCHANGED <<attempt, worker, operator, said, events, replays, crashes>>
           /\ \E fate : fate # "unseen" /\ bank' = [bank EXCEPT ![o][m] = fate]
           /\ bank[o][m] # "unseen" /\ reader = NothingRead
<1>1. order \in [Orders -> OrderRow] BY DEF Shape, TypeOK
<1>2. CASE ReturnBooked(o, m)
  <2>1. /\ Closed(order[o], "returned") \in OrderRow
        /\ Keeps(Closed(order[o], "returned"), order[o])
        /\ Closed(order[o], "returned").state = "returned"
    BY <1>1, ClosedRow DEF OrderStates
  <2>2. \/ UNCHANGED <<order, reader>>
        \/ /\ order[o].state \in {"submitted", "acknowledged"}
           /\ Wrote(o, Closed(order[o], "returned"))
           /\ reader' = [order |-> o, event |-> EventOf["returned"]]
    BY <1>2, <2>1 DEF ReturnBooked, ReturnsFrom, Wrote, EventOf, Settled, OrderStates
  <2>3. \/ UNCHANGED <<order, reader>>
        \/ \E r : /\ Wrote(o, r) /\ Keeps(r, order[o])
                  /\ reader' = [order |-> o, event |-> EventOf[r.state]]
                  /\ order[o].state \in {"submitted", "acknowledged"}
                  /\ r.state = "returned"
    BY <2>1, <2>2
  <2> QED BY <1>2, <2>3 DEF ReturnBooked
<1>3. ASSUME NEW v \in Verdicts, StatusReport(o, m, v)
      PROVE  \/ UNCHANGED <<order, reader>>
             \/ \E r : /\ Wrote(o, r) /\ Keeps(r, order[o])
                       /\ reader' = [order |-> o, event |-> EventOf[r.state]]
                       /\ \/ /\ order[o].state \in {"accepted", "submitted"}
                             /\ r.state = "acknowledged"
                          \/ /\ order[o].state \in {"accepted", "submitted", "acknowledged"}
                             /\ r.state = "rejected"
  <2>1. \A row \in OrderRow :
            LET x == [Closed(row, ReportedState(v)) EXCEPT !.verdict = v]
            IN  x \in OrderRow /\ Keeps(x, row) /\ x.state = ReportedState(v)
    <3>1. PICK st \in OrderStates : st = ReportedState(v) BY DEF ReportedState, OrderStates
    <3> QED BY <3>1, KeptRow
  <2>2. CASE UNCHANGED <<order, reader>>
    BY <2>2
  <2>3. CASE /\ Movable(o, v)
             /\ order' = [order EXCEPT ![o] =
                    [Closed(order[o], ReportedState(v)) EXCEPT !.verdict = v]]
             /\ reader' = [order |-> o, event |-> EventOf[ReportedState(v)]]
    BY <1>1, <2>1, <2>3 DEF Movable, ReconcilesFrom, ReportedState, Wrote
  <2> QED BY <1>3, <2>2, <2>3 DEF StatusReport
<1>4. CASE \E v \in Verdicts : StatusReport(o, m, v)
  BY <1>3, <1>4 DEF StatusReport, Verdicts
<1> QED BY <1>2, <1>4

-----------------------------------------------------------------------------
(* Exclusion.                                                               *)

Excl == Shape /\ ClaimIsOurs /\ CheckStands

LEMMA ClaimIsOursNext ==
    ASSUME LeaseOutlivesUpload, Excl, Next
    PROVE  ClaimIsOurs'
<1> SUFFICES ASSUME NEW v \in Workers, NEW o \in Orders, Holds(v, o)'
             PROVE  /\ order'[o].state = "submitting" /\ order'[o].worker = v
                    /\ order'[o].claim = "held"
  BY DEF ClaimIsOurs
<1> DEFINE Goal == /\ order'[o].state = "submitting" /\ order'[o].worker = v
                   /\ order'[o].claim = "held"
<1>t. order \in [Orders -> OrderRow] /\ worker \in [Workers -> WorkerState]
  BY DEF Excl, Shape, TypeOK
<1>s. Shape BY DEF Excl
<1>h. worker'[v].order = o /\ worker'[v].pc \in Uploading BY DEF Holds
<1>i. \A w \in Workers : Holds(w, o) =>
        order[o].state = "submitting" /\ order[o].worker = w /\ order[o].claim = "held"
  BY DEF Excl, ClaimIsOurs
<1>k. ASSUME Holds(v, o), order'[o] = order[o] \/ Owns(order'[o], order[o]) PROVE Goal
  BY <1>i, <1>k DEF Owns
<1>w. ASSUME worker'[v] = worker[v] PROVE Holds(v, o)
  BY <1>h, <1>w DEF Holds
<1>1. ASSUME NEW w \in Workers, Claim(w) PROVE Goal
  <2>1. PICK r, c, q :
            /\ q \in Orders
            /\ Claimable(q) /\ worker[w].pc = "idle"
            /\ Wrote(q, r) /\ r.state = "submitting" /\ r.worker = w /\ r.claim = "held"
            /\ Became(w, c) /\ c.pc = "claimed" /\ c.order = q
    BY <1>1, <1>s, ClaimEffect
  <2>2. CASE v = w
    BY <2>1, <2>2, <1>h, <1>t DEF Wrote, Became
  <2>3. CASE v # w
    <3>1. Holds(v, o) BY <2>1, <2>3, <1>t, <1>w DEF Became
    <3>2. q # o BY <3>1, <2>1, <1>i DEF Claimable
    <3> QED BY <3>1, <3>2, <2>1, <1>t, <1>k DEF Wrote
  <2> QED BY <2>2, <2>3
<1>2. ASSUME NEW w \in Workers, OnlyWorker(w) PROVE Goal
  <2>1. UNCHANGED order BY <1>2, <1>s, OnlyWorkerEffect
  <2>2. PICK c : /\ Became(w, c)
                 /\ c.pc \in Uploading => /\ worker[w].pc \in Uploading
                                          /\ c.order = worker[w].order
    BY <1>2, <1>s, OnlyWorkerEffect
  <2>3. Holds(v, o) BY <2>2, <1>h, <1>t DEF Became, Holds
  <2> QED BY <2>1, <2>3, <1>k
<1>3. ASSUME NEW w \in Workers, Opened(w) PROVE Goal
  <2>1. PICK r : /\ worker[w].order \in Orders
                 /\ Wrote(worker[w].order, r) /\ Owns(r, order[worker[w].order])
                 /\ Became(w, [worker[w] EXCEPT !.pc = "sending"])
    BY <1>3, <1>s, OpenedEffect
  <2>2. Holds(v, o)
    <3>1. CASE v # w BY <3>1, <2>1, <1>t, <1>w DEF Became
    <3>2. CASE v = w
      <4>1. worker'[w].order = worker[w].order BY <2>1, <1>t DEF Became, WorkerState
      <4> QED BY <4>1, <3>2, <1>h, <1>3 DEF Opened, Holds, Uploading
    <3> QED BY <3>1, <3>2
  <2>3. order'[o] = order[o] \/ Owns(order'[o], order[o])
    BY <2>1, <1>t DEF Wrote
  <2> QED BY <2>2, <2>3, <1>k
<1>4. ASSUME NEW w \in Workers, NEW r, NEW c, Holds(w, worker[w].order),
             worker[w].order \in Orders, Wrote(worker[w].order, r), Became(w, c),
             c.pc \notin Uploading
      PROVE  Goal
  <2>1. v # w BY <1>4, <1>h, <1>t DEF Became
  <2>2. Holds(v, o) BY <2>1, <1>4, <1>t, <1>w DEF Became
  <2>3. worker[w].order # o BY <2>1, <2>2, <1>4, <1>i
  <2> QED BY <2>2, <2>3, <1>4, <1>t, <1>k DEF Wrote
<1>5. ASSUME NEW w \in Workers, Submitted(w) \/ GiveUp(w) \/ Refused(w) PROVE Goal
  <2>1. PICK r, e : /\ Wrote(worker[w].order, r)
                    /\ Became(w, [worker[w] EXCEPT !.pc = "answered", !.event = e])
    BY <1>5, <1>s, SettleEffect
  <2>2. [worker[w] EXCEPT !.pc = "answered", !.event = e].pc \notin Uploading
    BY <1>t DEF WorkerState, Uploading
  <2> QED BY <1>4, <1>5, <1>s, <2>1, <2>2, SettleEffect
<1>6. ASSUME NEW w \in Workers, RetryLater(w) PROVE Goal
  <2>1. Idle.pc \notin Uploading BY DEF Idle, Uploading
  <2> QED BY <1>4, <1>6, <1>s, <2>1, RetryEffect
<1>7. ASSUME NEW w \in Workers, FallBack(w) PROVE Goal
  <2>1. "settled" \notin Uploading BY DEF Uploading
  <2> QED BY <1>4, <1>7, <1>s, <2>1, FallBackEffect
<1>8. ASSUME NEW q \in Orders, LeaseExpires(q) \/ BackoffEnds(q) PROVE Goal
  <2>1. UNCHANGED worker BY <1>8 DEF LeaseExpires, BackoffEnds
  <2>2. Holds(v, o) BY <2>1, <1>w
  <2>3. PICK r : /\ Wrote(q, r) /\ r.state = order[q].state /\ r.worker = order[q].worker
                 /\ ~LeaseExpires(q) => r.claim = order[q].claim
    BY <1>8, <1>s, TimeEffect
  <2>4. CASE q = o
    <3>1. ~LeaseExpires(q) BY <2>2, <2>4 DEF LeaseExpires
    <3> QED BY <3>1, <2>2, <2>3, <2>4, <1>t, <1>k DEF Wrote, Owns
  <2>5. CASE q # o
    BY <2>2, <2>3, <2>5, <1>t, <1>k DEF Wrote
  <2> QED BY <2>4, <2>5
<1>9. ASSUME NEW p \in Operators, Replay(p) PROVE Goal
  <2>1. PICK r : /\ operator[p].pc = "checked" /\ operator[p].order \in Orders
                 /\ Wrote(operator[p].order, r)
    BY <1>9, <1>s, ReplayEffect
  <2>2. Holds(v, o) BY <1>9, <1>w DEF Replay
  <2>3. operator[p].order # o
    BY <2>1, <2>2, <1>i DEF Excl, CheckStands, Replayable
  <2> QED BY <2>1, <2>2, <2>3, <1>t, <1>k DEF Wrote
<1>10. ASSUME NEW q \in Orders, NEW m \in Schemes,
              (\E x \in Verdicts : StatusReport(q, m, x)) \/ ReturnBooked(q, m)
       PROVE  Goal
  <2>1. /\ UNCHANGED worker
        /\ \/ UNCHANGED order
           \/ \E r : Wrote(q, r) /\ order[q].state \in {"accepted", "submitted", "acknowledged"}
    BY <1>10, <1>s, ReportEffect
  <2>2. Holds(v, o) BY <2>1, <1>w
  <2>3. order'[o] = order[o] BY <2>1, <2>2, <1>i, <1>t DEF Wrote
  <2> QED BY <2>2, <2>3, <1>k
<1>11. ASSUME UNCHANGED <<order, worker>> PROVE Goal
  BY <1>11, <1>k, <1>w
<1>12. ASSUME NEW p \in Operators, RecordReplay(p) \/ \E q \in Orders : CheckReplay(p, q)
       PROVE UNCHANGED <<order, worker>>
  BY <1>12 DEF RecordReplay, CheckReplay
<1>13. ASSUME RecordMove \/ ReaderLost PROVE UNCHANGED <<order, worker>>
  BY <1>13 DEF RecordMove, ReaderLost
<1> QED
  BY <1>1, <1>2, <1>3, <1>5, <1>6, <1>7, <1>8, <1>9, <1>10, <1>11, <1>12, <1>13
  DEF Next, Works, OnlyWorker

SingleOperator == \A p, q \in Operators : p = q

LEMMA CheckStandsNext ==
    ASSUME SingleOperator, Excl, Next
    PROVE  CheckStands'
<1> SUFFICES ASSUME NEW p \in Operators, operator'[p].pc = "checked"
             PROVE  order'[operator'[p].order].state \in Replayable
  BY DEF CheckStands
<1>t. /\ order \in [Orders -> OrderRow] /\ worker \in [Workers -> WorkerState]
      /\ operator \in [Operators -> OperatorState]
  BY DEF Excl, Shape, TypeOK
<1>s. Shape BY DEF Excl
<1>i. operator[p].pc = "checked" => /\ operator[p].order \in Orders
                                    /\ order[operator[p].order].state \in Replayable
  BY DEF Excl, Shape, InHand, CheckStands
<1>h. \A w \in Workers, o \in Orders : Holds(w, o) => order[o].state = "submitting"
  BY DEF Excl, ClaimIsOurs
<1>k. ASSUME UNCHANGED operator, NEW q \in Orders, NEW r, Wrote(q, r),
             r.state = order[q].state \/ order[q].state \notin Replayable
      PROVE  order'[operator'[p].order].state \in Replayable
  BY <1>k, <1>i, <1>t DEF Wrote
<1>1. ASSUME NEW w \in Workers, Claim(w)
      PROVE  order'[operator'[p].order].state \in Replayable
  <2>1. PICK r, q : q \in Orders /\ Claimable(q) /\ Wrote(q, r)
    BY <1>1, <1>s, ClaimEffect
  <2>2. order[q].state \notin Replayable BY <2>1 DEF Claimable, Replayable
  <2> QED BY <2>1, <2>2, <1>1, <1>k DEF Claim
<1>2. ASSUME NEW w \in Workers, Opened(w)
      PROVE  order'[operator'[p].order].state \in Replayable
  <2>1. PICK r : /\ worker[w].order \in Orders
                 /\ Wrote(worker[w].order, r) /\ Owns(r, order[worker[w].order])
    BY <1>2, <1>s, OpenedEffect
  <2> QED BY <2>1, <1>2, <1>k DEF Opened, Owns
<1>3. ASSUME NEW w \in Workers, Submitted(w) \/ GiveUp(w) \/ Refused(w) \/ RetryLater(w) \/ FallBack(w)
      PROVE  order'[operator'[p].order].state \in Replayable
  <2>1. Holds(w, worker[w].order) /\ worker[w].order \in Orders
    BY <1>3, <1>s, SettleEffect, RetryEffect, FallBackEffect
  <2>2. PICK r : Wrote(worker[w].order, r)
    BY <1>3, <1>s, SettleEffect, RetryEffect, FallBackEffect
  <2>3. order[worker[w].order].state \notin Replayable BY <2>1, <1>h DEF Replayable
  <2>4. UNCHANGED operator
    BY <1>3 DEF Submitted, GiveUp, Refused, RetryLater, FallBack, Settle
  <2> QED BY <2>1, <2>2, <2>3, <2>4, <1>k
<1>4. ASSUME NEW q \in Orders, LeaseExpires(q) \/ BackoffEnds(q)
      PROVE  order'[operator'[p].order].state \in Replayable
  <2>1. PICK r : Wrote(q, r) /\ r.state = order[q].state
    BY <1>4, <1>s, TimeEffect
  <2> QED BY <2>1, <1>4, <1>k DEF LeaseExpires, BackoffEnds
<1>5. ASSUME NEW q \in Orders, NEW m \in Schemes,
             (\E x \in Verdicts : StatusReport(q, m, x)) \/ ReturnBooked(q, m)
      PROVE  order'[operator'[p].order].state \in Replayable
  <2>1. /\ UNCHANGED operator
        /\ \/ UNCHANGED order
           \/ \E r : Wrote(q, r) /\ order[q].state \in {"accepted", "submitted", "acknowledged"}
    BY <1>5, <1>s, ReportEffect
  <2> QED BY <2>1, <1>i, <1>k DEF Replayable
<1>6. ASSUME NEW q \in Operators, Replay(q)
      PROVE  order'[operator'[p].order].state \in Replayable
  <2>1. q = p BY DEF SingleOperator
  <2>2. operator'[p].pc = "requeued" BY <2>1, <1>6, <1>s, <1>t, ReplayEffect DEF OperatorState
  <2> QED BY <2>2
<1>7. ASSUME NEW q \in Operators, NEW o \in Orders, CheckReplay(q, o)
      PROVE  order'[operator'[p].order].state \in Replayable
  <2>1. q = p BY DEF SingleOperator
  <2>2. operator'[p].order = o BY <2>1, <1>7, <1>t DEF CheckReplay
  <2> QED BY <2>2, <1>7 DEF CheckReplay
<1>8. ASSUME NEW q \in Operators, RecordReplay(q)
      PROVE  order'[operator'[p].order].state \in Replayable
  <2>1. q = p BY DEF SingleOperator
  <2>2. operator'[p].pc = "idle" BY <2>1, <1>8, <1>t DEF RecordReplay, AtRest
  <2> QED BY <2>2
<1>9. ASSUME UNCHANGED <<order, operator>>
      PROVE  order'[operator'[p].order].state \in Replayable
  BY <1>9, <1>i
<1>10. ASSUME NEW w \in Workers, OnlyWorker(w) PROVE UNCHANGED <<order, operator>>
  BY <1>10, <1>s, OnlyWorkerEffect
<1>11. ASSUME RecordMove \/ ReaderLost PROVE UNCHANGED <<order, operator>>
  BY <1>11 DEF RecordMove, ReaderLost
<1> QED
  BY <1>1, <1>2, <1>3, <1>4, <1>5, <1>6, <1>7, <1>8, <1>9, <1>10, <1>11
  DEF Next, Works, OnlyWorker

LEMMA ExclHolds ==
    ASSUME LeaseOutlivesUpload, SingleOperator
    PROVE  Spec => []Excl
<1>1. Init => Excl
  <2> SUFFICES ASSUME Init PROVE ClaimIsOurs /\ CheckStands
    BY TypeInit, InHandInit, LiveInit DEF Excl, Shape
  <2> QED BY DEF Init, ClaimIsOurs, CheckStands, Holds, Idle, AtRest, Uploading
<1>2. Excl /\ [Next]_vars /\ Shape' => Excl'
  <2> SUFFICES ASSUME Excl, [Next]_vars, Shape' PROVE ClaimIsOurs' /\ CheckStands'
    BY DEF Excl
  <2>1. CASE Next
    BY <2>1, ClaimIsOursNext, CheckStandsNext
  <2>2. CASE UNCHANGED vars
    BY <2>2 DEF vars, Excl, ClaimIsOurs, CheckStands, Holds
  <2> QED BY <2>1, <2>2
<1> QED BY <1>1, <1>2, ShapeHolds, PTL DEF Spec

\* While uploads end within the lease and one operator replays at a time, no two
\* workers are ever uploading the same order.
THEOREM Exclusion ==
    ASSUME LeaseOutlivesUpload, SingleOperator
    PROVE  Spec => []OneUploader
<1>1. Excl => OneUploader BY DEF Excl, ClaimIsOurs, OneUploader
<1> QED BY <1>1, ExclHolds, PTL

-----------------------------------------------------------------------------
(* What is on the wire, and what the bank has of an order.                  *)

Msgs == Excl /\ SendsTheOrders /\ BankHasTheOrders

Has(o, m) == bank[o][m] # "unseen"

\* The row goes on being about the same message.
Alike(o) ==
    /\ order'[o].scheme = order[o].scheme
    /\ order[o].transaction => order'[o].transaction
    /\ replays'[o] = replays[o]

\* Only a replay and a fallback turn a row to another message, or forget the
\* TransactionID: of an order nobody uploads, and of one that has none.
LEMMA RowEffect ==
    ASSUME Excl, Next, NEW o \in Orders
    PROVE  \/ Alike(o)
           \/ replays'[o] > 0 /\ order[o].state \in Replayable
           \/ /\ ~order[o].transaction /\ replays'[o] = replays[o]
              /\ \E v \in Workers : Holds(v, o) /\ worker'[v].pc = "settled"
<1> DEFINE Goal ==
        \/ Alike(o)
        \/ replays'[o] > 0 /\ order[o].state \in Replayable
        \/ /\ ~order[o].transaction /\ replays'[o] = replays[o]
           /\ \E v \in Workers : Holds(v, o) /\ worker'[v].pc = "settled"
<1>s. Shape BY DEF Excl
<1>t. /\ order \in [Orders -> OrderRow] /\ worker \in [Workers -> WorkerState]
      /\ replays \in [Orders -> Nat] /\ operator \in [Operators -> OperatorState]
  BY DEF Excl, Shape, TypeOK
<1>k. ASSUME NEW q \in Orders, NEW r, Wrote(q, r), UNCHANGED replays,
             r.scheme = order[q].scheme, order[q].transaction => r.transaction
      PROVE  Goal
  BY <1>k, <1>t DEF Wrote, Alike
<1>1. ASSUME NEW w \in Workers, Claim(w) PROVE Goal
  <2>1. PICK r, q : /\ q \in Orders /\ Wrote(q, r) /\ r.scheme = order[q].scheme
                    /\ r.transaction = order[q].transaction
    BY <1>1, <1>s, ClaimEffect
  <2> QED BY <2>1, <1>1, <1>k DEF Claim
<1>2. ASSUME NEW w \in Workers, OnlyWorker(w) PROVE Goal
  BY <1>2, <1>s, OnlyWorkerEffect DEF Alike
<1>3. ASSUME NEW w \in Workers, Opened(w) PROVE Goal
  <2>1. PICK r : /\ worker[w].order \in Orders /\ Wrote(worker[w].order, r)
                 /\ r.scheme = order[worker[w].order].scheme /\ r.transaction
    BY <1>3, <1>s, OpenedEffect
  <2> QED BY <2>1, <1>3, <1>k DEF Opened
<1>4. ASSUME NEW w \in Workers, Submitted(w) \/ GiveUp(w) \/ Refused(w) \/ RetryLater(w)
      PROVE  Goal
  <2>1. PICK r : /\ worker[w].order \in Orders /\ Wrote(worker[w].order, r)
                 /\ Keeps(r, order[worker[w].order])
    BY <1>4, <1>s, SettleEffect, RetryEffect
  <2>2. UNCHANGED replays
    BY <1>4 DEF Submitted, GiveUp, Refused, RetryLater, Settle
  <2> QED BY <2>1, <2>2, <1>k DEF Keeps
<1>5. ASSUME NEW w \in Workers, FallBack(w) PROVE Goal
  <2>1. PICK r, c : /\ Holds(w, worker[w].order) /\ worker[w].order \in Orders
                    /\ ~order[worker[w].order].transaction
                    /\ Wrote(worker[w].order, r)
                    /\ Became(w, c) /\ c.pc = "settled"
    BY <1>5, <1>s, FallBackEffect
  <2>2. UNCHANGED replays BY <1>5 DEF FallBack
  <2>3. CASE worker[w].order = o
    BY <2>1, <2>2, <2>3, <1>t DEF Became
  <2>4. CASE worker[w].order # o
    BY <2>1, <2>2, <2>4, <1>t DEF Wrote, Alike
  <2> QED BY <2>3, <2>4
<1>6. ASSUME NEW q \in Orders, LeaseExpires(q) \/ BackoffEnds(q) PROVE Goal
  <2>1. PICK r : Wrote(q, r) /\ Keeps(r, order[q])
    BY <1>6, <1>s, TimeEffect
  <2>2. UNCHANGED replays BY <1>6 DEF LeaseExpires, BackoffEnds
  <2> QED BY <2>1, <2>2, <1>k DEF Keeps
<1>7. ASSUME NEW p \in Operators, Replay(p) PROVE Goal
  <2>1. PICK r : /\ operator[p].pc = "checked" /\ operator[p].order \in Orders
                 /\ Wrote(operator[p].order, r)
    BY <1>7, <1>s, ReplayEffect
  <2>2. replays' = [replays EXCEPT ![operator[p].order] = replays[operator[p].order] + 1]
    BY <1>7, <1>t, <2>1 DEF Replay
  <2>3. order[operator[p].order].state \in Replayable
    BY <2>1 DEF Excl, CheckStands
  <2>4. CASE operator[p].order = o
    BY <2>2, <2>3, <2>4, <1>t
  <2>5. CASE operator[p].order # o
    BY <2>1, <2>2, <2>5, <1>t DEF Wrote, Alike
  <2> QED BY <2>4, <2>5
<1>8. ASSUME NEW q \in Orders, NEW m \in Schemes,
             (\E x \in Verdicts : StatusReport(q, m, x)) \/ ReturnBooked(q, m)
      PROVE  Goal
  <2>1. /\ UNCHANGED replays
        /\ UNCHANGED order \/ \E r : Wrote(q, r) /\ Keeps(r, order[q])
    BY <1>8, <1>s, ReportEffect
  <2>2. CASE UNCHANGED order BY <2>1, <2>2 DEF Alike
  <2>3. CASE \E r : Wrote(q, r) /\ Keeps(r, order[q])
    BY <2>1, <2>3, <1>k DEF Keeps
  <2> QED BY <2>1, <2>2, <2>3
<1>9. ASSUME \/ RecordMove \/ ReaderLost
             \/ \E p \in Operators : RecordReplay(p) \/ \E q \in Orders : CheckReplay(p, q)
      PROVE  Goal
  BY <1>9 DEF Alike, RecordMove, ReaderLost, RecordReplay, CheckReplay
<1> QED
  BY <1>1, <1>2, <1>3, <1>4, <1>5, <1>6, <1>7, <1>8, <1>9 DEF Next, Works, OnlyWorker

\* The bank gets a message from an upload that sends it, and never loses one.
LEMMA BankEffect ==
    ASSUME Shape, Next, NEW o \in Orders, NEW m \in Schemes
    PROVE  /\ Has(o, m) => Has(o, m)'
           /\ Has(o, m)' => \/ Has(o, m)
                            \/ \E w \in Workers : /\ SendAll(w)
                                                  /\ worker[w].order = o
                                                  /\ worker[w].sends = m
<1>b. bank \in [Orders -> [Schemes -> Fates]] BY DEF Shape, TypeOK
<1>1. CASE \E w \in Workers : SendAll(w)
  <2>1. PICK w \in Workers : SendAll(w) BY <1>1
  <2>2. worker[w].order \in Orders /\ worker[w].sends \in Schemes
    BY <2>1 DEF Shape, InHand, SendAll
  <2>3. PICK fate : /\ fate # "unseen"
                    /\ bank' = [bank EXCEPT ![worker[w].order] =
                            [bank[worker[w].order] EXCEPT ![worker[w].sends] = fate]]
    BY <2>1, <2>2, <1>b DEF SendAll, BankTakes
  <2>4. \A p \in Orders, n \in Schemes :
            bank'[p][n] = IF p = worker[w].order /\ n = worker[w].sends THEN fate ELSE bank[p][n]
    BY <2>2, <2>3, <1>b
  <2> QED BY <2>1, <2>3, <2>4 DEF Has
<1>2. ASSUME NEW q \in Orders, NEW n \in Schemes,
             (\E x \in Verdicts : StatusReport(q, n, x)) \/ ReturnBooked(q, n)
      PROVE  Has(o, m)' <=> Has(o, m)
  <2>0. bank[q][n] # "unseen" BY <1>2, ReportEffect
  <2>1. PICK fate : fate # "unseen" /\ bank' = [bank EXCEPT ![q][n] = fate]
    BY <1>2, ReportEffect, Zenon
  <2>2. bank'[o][m] = IF o = q /\ m = n THEN fate ELSE bank[o][m]
    BY <2>1, <1>b
  <2> QED BY <2>0, <2>1, <2>2 DEF Has
<1>3. CASE UNCHANGED bank
  BY <1>3 DEF Has
<1>4. ASSUME NEW w \in Workers, Claim(w) \/ WorkerLost(w) \/ (Works(w) /\ ~SendAll(w))
      PROVE  UNCHANGED bank
  BY <1>4 DEF Works, Claim, WorkerLost, ReadAttempt, Fails, Announce, Opened, BankRefuses,
     Submitted, RetryLater, GiveUp, FallBack, Refused, RecordAnswer, RecordEvent, Settle
<1>5. ASSUME NEW q \in Orders, LeaseExpires(q) \/ BackoffEnds(q) PROVE UNCHANGED bank
  BY <1>5 DEF LeaseExpires, BackoffEnds
<1>6. ASSUME NEW p \in Operators,
             Replay(p) \/ RecordReplay(p) \/ \E q \in Orders : CheckReplay(p, q)
      PROVE  UNCHANGED bank
  BY <1>6 DEF Replay, RecordReplay, CheckReplay
<1>7. ASSUME RecordMove \/ ReaderLost PROVE UNCHANGED bank
  BY <1>7 DEF RecordMove, ReaderLost
<1> QED BY <1>1, <1>2, <1>3, <1>4, <1>5, <1>6, <1>7 DEF Next

LEMMA BankHasNext ==
    ASSUME Msgs, Next
    PROVE  BankHasTheOrders'
<1> SUFFICES ASSUME NEW o \in Orders, NEW m \in Schemes, Has(o, m)', replays'[o] = 0
             PROVE  m = order'[o].scheme /\ order'[o].transaction
  BY DEF BankHasTheOrders, Has
<1>s. Excl /\ Shape BY DEF Msgs, Excl
<1>i. Has(o, m) /\ replays[o] = 0 => m = order[o].scheme /\ order[o].transaction
  BY DEF Msgs, BankHasTheOrders, Has
<1>1. CASE \E w \in Workers : SendAll(w) /\ worker[w].order = o /\ worker[w].sends = m
  <2>1. PICK w \in Workers : SendAll(w) /\ worker[w].order = o /\ worker[w].sends = m BY <1>1
  <2>2. UNCHANGED order BY <2>1 DEF SendAll
  <2>3. worker[w].pc = "sending" BY <2>1 DEF SendAll
  <2> QED BY <2>1, <2>2, <2>3 DEF Msgs, SendsTheOrders
<1>2. CASE Has(o, m)
  <2>1. ~(replays'[o] > 0) OBVIOUS
  <2>2. CASE Alike(o) BY <2>2, <1>i, <1>2 DEF Alike
  <2>3. CASE ~order[o].transaction /\ replays'[o] = replays[o]
    BY <2>3, <1>i, <1>2
  <2> QED BY <2>1, <2>2, <2>3, <1>s, RowEffect
<1> QED BY <1>1, <1>2, <1>s, BankEffect

\* Others do not touch the row a worker holds.
LEMMA HeldStands ==
    ASSUME Excl, Next, NEW w \in Workers, NEW o \in Orders, Holds(w, o),
           worker'[w] = worker[w]
    PROVE  Alike(o)
<1>1. order[o].state = "submitting" /\ order[o].worker = w
  BY DEF Excl, ClaimIsOurs
<1>2. order[o].state \notin Replayable BY <1>1 DEF Replayable
<1>3. ASSUME NEW v \in Workers, Holds(v, o) PROVE worker'[v].pc # "settled"
  <2>1. v = w BY <1>1, <1>3 DEF Excl, ClaimIsOurs
  <2>2. worker[w].pc # "settled" BY DEF Holds, Uploading
  <2> QED BY <2>1, <2>2
<1> QED BY <1>2, <1>3, RowEffect

\* What a worker has in hand about a message stays true while others work: they
\* do not touch the row it holds, and the bank does not lose what it has.
LEMMA SendsStands ==
    ASSUME Msgs, Next, Excl', NEW w \in Workers, worker'[w] = worker[w],
           worker[w].pc \in {"announcing", "opened", "sending", "done"}
    PROVE  /\ worker[w].pc # "done" => worker[w].sends = order'[worker[w].order].scheme
           /\ worker[w].pc = "sending" => order'[worker[w].order].transaction
           /\ worker[w].pc = "done" => Has(worker[w].order, worker[w].sends)'
<1> DEFINE o == worker[w].order
<1>s. Excl /\ Shape BY DEF Msgs, Excl
<1>1. o \in Orders /\ worker[w].sends \in Schemes BY <1>s DEF Shape, InHand
<1>2. Holds(w, o) BY DEF Holds, Uploading
<1>6. Alike(o) BY <1>s, <1>1, <1>2, HeldStands
<1>7. /\ worker[w].pc # "done" => worker[w].sends = order[o].scheme
      /\ worker[w].pc = "sending" => order[o].transaction
      /\ worker[w].pc = "done" => Has(o, worker[w].sends)
  BY DEF Msgs, SendsTheOrders, Has
<1>8. Has(o, worker[w].sends) => Has(o, worker[w].sends)'
  <2>1. \A m \in Schemes : Has(o, m) => Has(o, m)' BY <1>s, <1>1, BankEffect
  <2> QED BY <2>1, <1>1, worker'[w] = worker[w] DEF Has
<1> QED BY <1>6, <1>7, <1>8 DEF Alike, Has

LEMMA SendsNext ==
    ASSUME Msgs, Next, Excl'
    PROVE  SendsTheOrders'
<1> DEFINE At == {"announcing", "opened", "sending", "done"}
           Right(w) ==
                /\ worker'[w].pc # "done" =>
                        worker'[w].sends = order'[worker'[w].order].scheme
                /\ worker'[w].pc = "sending" => order'[worker'[w].order].transaction
                /\ worker'[w].pc = "done" =>
                        bank'[worker'[w].order][worker'[w].sends] # "unseen"
<1> SUFFICES ASSUME NEW w \in Workers, worker'[w].pc \in At
             PROVE  Right(w)
  BY DEF SendsTheOrders
<1> HIDE DEF Right
<1>s. Excl /\ Shape BY DEF Msgs, Excl
<1>t. /\ order \in [Orders -> OrderRow] /\ worker \in [Workers -> WorkerState]
      /\ bank \in [Orders -> [Schemes -> Fates]]
  BY <1>s DEF Shape, TypeOK
<1>i. worker[w].pc \in At => worker[w].sends \in Schemes
  BY <1>s DEF Shape, InHand
<1>h. worker[w].pc # "idle" => worker[w].order \in Orders
  BY <1>s DEF Shape, InHand
<1>m. worker[w].pc \in At \ {"done"} => worker[w].sends = order[worker[w].order].scheme
  BY DEF Msgs, SendsTheOrders
<1>k. ASSUME worker'[w] = worker[w] PROVE Right(w)
  <2>1. worker[w].pc \in At BY <1>k
  <2> QED BY <1>k, <2>1, SendsStands DEF Right, Has
<1>o. ASSUME NEW v \in Workers, NEW c, Became(v, c), v # w PROVE Right(w)
  BY <1>o, <1>t, <1>k DEF Became
<1>z. ASSUME NEW v \in Workers, NEW c, Became(v, c), c.pc \notin At PROVE Right(w)
  <2>1. v # w BY <1>z, <1>t DEF Became
  <2> QED BY <2>1, <1>z, <1>o
<1>1. ASSUME NEW v \in Workers, Claim(v) PROVE Right(w)
  <2>1. PICK c : Became(v, c) /\ c.pc = "claimed" BY <1>1, <1>s, ClaimEffect
  <2> QED BY <2>1, <1>z
<1>2. ASSUME NEW v \in Workers, ReadAttempt(v) PROVE Right(w)
  <2> DEFINE o == worker[v].order
  <2>1. PICK c : Became(v, c) BY <1>2, <1>s, OnlyWorkerEffect DEF OnlyWorker
  <2>2. CASE v # w BY <2>1, <2>2, <1>o
  <2>3. CASE v = w
    <3>1. o \in Orders BY <2>3, <1>2, <1>h DEF ReadAttempt
    <3>2. Those(o, "live") = {order[o].scheme}
      BY <3>1, <1>s DEF Shape, LiveAttemptIsTheOrders
    <3>3. order[o].scheme \in Schemes BY <3>1, <1>t DEF OrderRow
    <3>4. One(o, "live") = order[o].scheme
      <4>1. \A x \in Those(o, "live") : x = order[o].scheme BY <3>2
      <4>2. Those(o, "live") # {} BY <3>2
      <4> QED BY <4>1, <4>2, <3>2, <3>3 DEF One, Schemes
    <3>5. One(o, "live") # NoScheme BY <3>3, <3>4 DEF Schemes, NoScheme
    <3>6. worker' = [worker EXCEPT ![w] =
                [worker[w] EXCEPT !.pc = "announcing", !.sends = order[o].scheme]]
      BY <1>2, <2>3, <3>4, <3>5, <1>t DEF ReadAttempt
    <3>7. worker'[w].pc = "announcing" /\ worker'[w].sends = order[o].scheme
          /\ worker'[w].order = o
      BY <3>6, <2>3, <1>t DEF WorkerState
    <3>8. UNCHANGED order BY <1>2 DEF ReadAttempt
    <3> QED BY <3>7, <3>8 DEF Right
  <2> QED BY <2>2, <2>3
<1>3. ASSUME NEW v \in Workers, Announce(v) PROVE Right(w)
  <2>1. PICK n : Became(v, [worker[v] EXCEPT !.pc = "opened", !.named = n])
    BY <1>3, <1>t DEF Announce, Became
  <2>2. CASE v # w BY <2>1, <2>2, <1>o
  <2>3. CASE v = w
    <3>1. /\ worker'[w].pc = "opened" /\ worker'[w].sends = worker[w].sends
          /\ worker'[w].order = worker[w].order
      BY <2>1, <2>3, <1>t DEF Became, WorkerState
    <3>2. UNCHANGED order /\ worker[w].pc = "announcing" BY <1>3, <2>3 DEF Announce
    <3> QED BY <3>1, <3>2, <1>m DEF Right
  <2> QED BY <2>2, <2>3
<1>4. ASSUME NEW v \in Workers, Opened(v) PROVE Right(w)
  <2>1. PICK r : /\ worker[v].order \in Orders /\ Wrote(worker[v].order, r)
                 /\ r.scheme = order[worker[v].order].scheme /\ r.transaction
                 /\ Became(v, [worker[v] EXCEPT !.pc = "sending"])
    BY <1>4, <1>s, OpenedEffect
  <2>2. CASE v # w BY <2>1, <2>2, <1>o
  <2>3. CASE v = w
    <3>1. /\ worker'[w].pc = "sending" /\ worker'[w].sends = worker[w].sends
          /\ worker'[w].order = worker[w].order
      BY <2>1, <2>3, <1>t DEF Became, WorkerState
    <3>2. order'[worker[w].order] = r BY <2>1, <2>3, <1>t DEF Wrote
    <3>3. worker[w].pc = "opened" BY <1>4, <2>3 DEF Opened
    <3> QED BY <2>1, <2>3, <3>1, <3>2, <3>3, <1>m DEF Right
  <2> QED BY <2>2, <2>3
<1>5. ASSUME NEW v \in Workers, SendAll(v) PROVE Right(w)
  <2>1. CASE Step(v, "unknown")
    <3>1. Became(v, [worker[v] EXCEPT !.pc = "unknown"]) BY <2>1, <1>t DEF Step, Became
    <3>2. [worker[v] EXCEPT !.pc = "unknown"].pc = "unknown" BY <1>t DEF WorkerState
    <3> QED BY <3>1, <3>2, <1>z
  <2>2. CASE \E n \in BOOLEAN : worker' = [worker EXCEPT ![v].pc = "done",
                ![v].answer = OkCode, ![v].named = @ \/ n]
    <3>1. PICK n : Became(v, [worker[v] EXCEPT !.pc = "done", !.answer = OkCode, !.named = n])
      BY <2>2, <1>t DEF Became
    <3>2. CASE v # w BY <3>1, <3>2, <1>o
    <3>3. CASE v = w
      <4>1. /\ worker'[w].pc = "done" /\ worker'[w].sends = worker[w].sends
            /\ worker'[w].order = worker[w].order
        BY <3>1, <3>3, <1>t DEF Became, WorkerState
      <4>2. worker[w].order \in Orders /\ worker[w].sends \in Schemes
        BY <1>5, <3>3, <1>h, <1>i DEF SendAll
      <4>3. bank'[worker[w].order][worker[w].sends] # "unseen"
        BY <1>5, <3>3, <4>2, <1>t DEF SendAll, BankTakes
      <4> QED BY <4>1, <4>3 DEF Right
    <3> QED BY <3>2, <3>3
  <2> QED BY <2>1, <2>2, <1>5 DEF SendAll
<1>6. ASSUME NEW v \in Workers, Fails(v) PROVE Right(w)
  <2>1. Became(v, [worker[v] EXCEPT !.pc = "unknown"]) BY <1>6, <1>t DEF Fails, Step, Became
  <2>2. [worker[v] EXCEPT !.pc = "unknown"].pc = "unknown" BY <1>t DEF WorkerState
  <2> QED BY <2>1, <2>2, <1>z
<1>7. ASSUME NEW v \in Workers, BankRefuses(v) PROVE Right(w)
  <2>1. PICK a : Became(v, [worker[v] EXCEPT !.pc = "refused", !.answer = a])
    BY <1>7, <1>t DEF BankRefuses, Became
  <2>2. [worker[v] EXCEPT !.pc = "refused", !.answer = a].pc = "refused"
    BY <1>t DEF WorkerState
  <2> QED BY <2>1, <2>2, <1>z
<1>8. ASSUME NEW v \in Workers, Submitted(v) \/ GiveUp(v) \/ Refused(v) PROVE Right(w)
  <2>1. PICK e : Became(v, [worker[v] EXCEPT !.pc = "answered", !.event = e])
    BY <1>8, <1>s, SettleEffect
  <2>2. [worker[v] EXCEPT !.pc = "answered", !.event = e].pc = "answered"
    BY <1>t DEF WorkerState
  <2> QED BY <2>1, <2>2, <1>z
<1>9. ASSUME NEW v \in Workers, RetryLater(v) \/ RecordEvent(v) \/ WorkerLost(v) PROVE Right(w)
  <2>1. Became(v, Idle) BY <1>9 DEF RetryLater, RecordEvent, WorkerLost, Became
  <2>2. Idle.pc = "idle" BY DEF Idle
  <2> QED BY <2>1, <2>2, <1>z
<1>10. ASSUME NEW v \in Workers, FallBack(v) PROVE Right(w)
  <2>1. PICK c : Became(v, c) /\ c.pc = "settled" BY <1>10, <1>s, FallBackEffect
  <2> QED BY <2>1, <1>z
<1>11. ASSUME NEW v \in Workers, RecordAnswer(v) PROVE Right(w)
  <2>1. Became(v, [worker[v] EXCEPT !.pc = "settled"])
    BY <1>11, <1>t DEF RecordAnswer, Step, Became
  <2>2. [worker[v] EXCEPT !.pc = "settled"].pc = "settled" BY <1>t DEF WorkerState
  <2> QED BY <2>1, <2>2, <1>z
<1>12. ASSUME UNCHANGED worker PROVE Right(w)
  BY <1>12, <1>k
<1>13. ASSUME NEW q \in Orders,
              \/ LeaseExpires(q) \/ BackoffEnds(q)
              \/ \E m \in Schemes : (\E x \in Verdicts : StatusReport(q, m, x)) \/ ReturnBooked(q, m)
       PROVE  UNCHANGED worker
  BY <1>13 DEF LeaseExpires, BackoffEnds, StatusReport, ReturnBooked
<1>14. ASSUME NEW p \in Operators,
              Replay(p) \/ RecordReplay(p) \/ \E q \in Orders : CheckReplay(p, q)
       PROVE  UNCHANGED worker
  BY <1>14 DEF Replay, RecordReplay, CheckReplay
<1>15. ASSUME RecordMove \/ ReaderLost PROVE UNCHANGED worker
  BY <1>15 DEF RecordMove, ReaderLost
<1> QED
  BY <1>1, <1>2, <1>3, <1>4, <1>5, <1>6, <1>7, <1>8, <1>9, <1>10, <1>11, <1>12, <1>13,
     <1>14, <1>15 DEF Next, Works

LEMMA MsgsHolds ==
    ASSUME LeaseOutlivesUpload, SingleOperator
    PROVE  Spec => []Msgs
<1>1. Init => SendsTheOrders /\ BankHasTheOrders
  BY DEF Init, SendsTheOrders, BankHasTheOrders, Idle
<1>2. Excl /\ SendsTheOrders /\ BankHasTheOrders /\ [Next]_vars /\ Excl'
        => (SendsTheOrders /\ BankHasTheOrders)'
  <2> SUFFICES ASSUME Excl, SendsTheOrders, BankHasTheOrders, [Next]_vars, Excl'
               PROVE  SendsTheOrders' /\ BankHasTheOrders'
    OBVIOUS
  <2>1. CASE Next
    BY <2>1, SendsNext, BankHasNext DEF Msgs
  <2>2. CASE UNCHANGED vars
    BY <2>2 DEF vars, SendsTheOrders, BankHasTheOrders
  <2> QED BY <2>1, <2>2
<1>3. Excl /\ SendsTheOrders /\ BankHasTheOrders => Msgs BY DEF Msgs
<1> QED BY <1>1, <1>2, <1>3, ExclHolds, PTL DEF Spec

\* The bank never has two messages of one order, whatever it refuses and whatever
\* answers are lost, through retries, lost workers and the fallback from instant
\* to normal, until somebody replays the order.
THEOREM OneMessage ==
    ASSUME LeaseOutlivesUpload, SingleOperator
    PROVE  Spec => []OneMessageUnlessReplayed
<1>1. Msgs => OneMessageUnlessReplayed
  <2> SUFFICES ASSUME Msgs, NEW o \in Orders, \A m \in Schemes : bank[o][m] # "unseen"
               PROVE  replays[o] > 0
    BY DEF OneMessageUnlessReplayed
  <2>1. replays[o] \in Nat BY DEF Msgs, Excl, Shape, TypeOK
  <2>2. replays[o] # 0
    BY DEF Msgs, BankHasTheOrders, Schemes
  <2> QED BY <2>1, <2>2
<1> QED BY <1>1, MsgsHolds, PTL

-----------------------------------------------------------------------------
(* Events and answers: what the transactions after a settlement write.      *)

\* Worker w has yet to write that event about the order.
Owes(w, o, e) ==
    worker[w].order = o /\ worker[w].event = e /\ worker[w].pc \in Settling

Told(o) == order[o].state \in Settled =>
    \/ EventOf[order[o].state] \in events[o]
    \/ \E w \in Workers : Owes(w, o, EventOf[order[o].state])
    \/ reader = [order |-> o, event |-> EventOf[order[o].state]]

\* Nobody who owes an event forgets it but in writing it or in being lost.
LEMMA ToldStands ==
    ASSUME NEW o \in Orders, Told(o), order'[o].state = order[o].state,
           events[o] \subseteq events'[o],
           \A w \in Workers : \A e : Owes(w, o, e) => Owes(w, o, e)' \/ e \in events'[o],
           \A e : reader = [order |-> o, event |-> e] => reader' = reader \/ e \in events'[o]
    PROVE  Told(o)'
BY DEF Told, Owes

LEMMA ToldNext ==
    ASSUME Shape, Next, crashes' = crashes, NEW o \in Orders, Told(o)
    PROVE  Told(o)'
<1>t. /\ order \in [Orders -> OrderRow] /\ worker \in [Workers -> WorkerState]
      /\ events \in [Orders -> SUBSET OrderEvents] /\ reader \in ReaderState
      /\ operator \in [Operators -> OperatorState]
  BY DEF Shape, TypeOK
<1>u. Uploading \cap Settling = {} /\ "idle" \notin Settling
  BY DEF Uploading, Settling
\* A row written, by a worker that owes nothing or by none.
<1>k. ASSUME NEW q \in Orders, NEW r, Wrote(q, r), UNCHANGED <<events, reader>>,
             r.state = order[q].state \/ r.state \notin Settled,
             \A w \in Workers : worker'[w] = worker[w] \/ worker[w].pc \notin Settling
      PROVE  Told(o)'
  <2>1. CASE order'[o].state = order[o].state
    <3>1. \A w \in Workers : \A e : Owes(w, o, e) => Owes(w, o, e)' BY <1>k DEF Owes
    <3> QED BY <1>k, <2>1, <3>1, ToldStands
  <2>2. CASE order'[o].state \notin Settled BY <2>2 DEF Told
  <2> QED BY <1>k, <1>t, <2>1, <2>2 DEF Wrote
\* No row written.
<1>r. ASSUME UNCHANGED order, events[o] \subseteq events'[o],
             \A w \in Workers : \A e : Owes(w, o, e) => Owes(w, o, e)' \/ e \in events'[o],
             \A e : reader = [order |-> o, event |-> e] => reader' = reader \/ e \in events'[o]
      PROVE  Told(o)'
  BY <1>r, ToldStands
<1>1. ASSUME NEW w \in Workers, Claim(w) PROVE Told(o)'
  <2>1. PICK r, c, q : /\ q \in Orders /\ worker[w].pc = "idle"
                       /\ Wrote(q, r) /\ r.state = "submitting" /\ Became(w, c)
    BY <1>1, ClaimEffect
  <2>2. UNCHANGED <<events, reader>> BY <1>1 DEF Claim
  <2>3. r.state \notin Settled BY <2>1 DEF Settled
  <2>4. \A v \in Workers : worker'[v] = worker[v] \/ worker[v].pc \notin Settling
    BY <2>1, <1>t, <1>u DEF Became
  <2> QED BY <2>1, <2>2, <2>3, <2>4, <1>k
<1>2. ASSUME NEW w \in Workers,
             ReadAttempt(w) \/ Fails(w) \/ Announce(w) \/ SendAll(w) \/ BankRefuses(w)
      PROVE  Told(o)'
  <2>1. worker[w].pc \notin Settling
    BY <1>2, <1>u DEF ReadAttempt, Fails, Announce, SendAll, BankRefuses, Uploading
  <2>2. PICK c : Became(w, c) BY <1>2, OnlyWorkerEffect DEF OnlyWorker
  <2>3. \A v \in Workers : \A e : Owes(v, o, e) => Owes(v, o, e)'
    BY <2>1, <2>2, <1>t DEF Owes, Became
  <2>4. UNCHANGED <<order, events, reader>>
    BY <1>2 DEF ReadAttempt, Fails, Announce, SendAll, BankRefuses
  <2> QED BY <2>3, <2>4, <1>r
<1>3. ASSUME NEW w \in Workers, Opened(w) PROVE Told(o)'
  <2>1. PICK r : /\ worker[w].order \in Orders
                 /\ Wrote(worker[w].order, r) /\ Owns(r, order[worker[w].order])
                 /\ Became(w, [worker[w] EXCEPT !.pc = "sending"])
    BY <1>3, OpenedEffect
  <2>2. UNCHANGED <<events, reader>> /\ worker[w].pc = "opened" BY <1>3 DEF Opened
  <2>3. \A v \in Workers : worker'[v] = worker[v] \/ worker[v].pc \notin Settling
    BY <2>1, <2>2, <1>t DEF Became, Settling
  <2> QED BY <2>1, <2>2, <2>3, <1>k DEF Owns
<1>4. ASSUME NEW w \in Workers, Submitted(w) \/ GiveUp(w) \/ Refused(w) PROVE Told(o)'
  <2>1. PICK r, e :
            /\ Holds(w, worker[w].order) /\ worker[w].order \in Orders
            /\ Wrote(worker[w].order, r) /\ e = EventOf[r.state]
            /\ Became(w, [worker[w] EXCEPT !.pc = "answered", !.event = e])
            /\ UNCHANGED <<events, reader>>
    BY <1>4, SettleEffect
  <2>2. CASE worker[w].order = o
    <3>1. order'[o] = r BY <2>1, <2>2, <1>t DEF Wrote
    <3>2. /\ worker'[w].order = o /\ worker'[w].event = e /\ worker'[w].pc = "answered"
      BY <2>1, <2>2, <1>t DEF Became, WorkerState
    <3>3. Owes(w, o, EventOf[order[o].state])' BY <2>1, <3>1, <3>2 DEF Owes, Settling
    <3> QED BY <3>3 DEF Told
  <2>3. CASE worker[w].order # o
    <3>1. order'[o] = order[o] BY <2>1, <2>3, <1>t DEF Wrote
    <3>2. \A v \in Workers : \A x : Owes(v, o, x) => Owes(v, o, x)'
      BY <2>1, <2>3, <1>t DEF Owes, Became
    <3> QED BY <2>1, <3>1, <3>2, ToldStands
  <2> QED BY <2>2, <2>3
<1>5. ASSUME NEW w \in Workers, RetryLater(w) \/ FallBack(w) PROVE Told(o)'
  <2>1. PICK r, c : /\ Holds(w, worker[w].order) /\ worker[w].order \in Orders
                    /\ Wrote(worker[w].order, r) /\ r.state = "accepted" /\ Became(w, c)
    BY <1>5, RetryEffect, FallBackEffect
  <2>2. UNCHANGED <<events, reader>> BY <1>5 DEF RetryLater, FallBack
  <2>3. r.state \notin Settled BY <2>1 DEF Settled
  <2>4. \A v \in Workers : worker'[v] = worker[v] \/ worker[v].pc \notin Settling
    BY <2>1, <1>t, <1>u DEF Became, Holds
  <2> QED BY <2>1, <2>2, <2>3, <2>4, <1>k
<1>6. ASSUME NEW w \in Workers, RecordAnswer(w) PROVE Told(o)'
  <2>1. Became(w, [worker[w] EXCEPT !.pc = "settled"])
    BY <1>6, <1>t DEF RecordAnswer, Step, Became
  <2>2. \A v \in Workers : \A e : Owes(v, o, e) => Owes(v, o, e)'
    <3>1. /\ worker'[w].order = worker[w].order /\ worker'[w].event = worker[w].event
          /\ worker'[w].pc \in Settling
      BY <2>1, <1>t DEF Became, WorkerState, Settling
    <3>2. \A v \in Workers : v # w => worker'[v] = worker[v] BY <2>1, <1>t DEF Became
    <3> QED BY <3>1, <3>2 DEF Owes
  <2> QED BY <1>6, <2>2, <1>r DEF RecordAnswer
<1>7. ASSUME NEW w \in Workers, RecordEvent(w) PROVE Told(o)'
  <2>1. worker[w].order \in Orders BY <1>7 DEF Shape, InHand, RecordEvent
  <2>2. /\ Became(w, Idle) /\ UNCHANGED <<order, reader>>
        /\ events' = [events EXCEPT ![worker[w].order] =
                            events[worker[w].order] \cup {worker[w].event}]
    BY <1>7, <2>1, <1>t DEF RecordEvent, Became
  <2>3. events[o] \subseteq events'[o] BY <2>1, <2>2, <1>t
  <2>4. \A v \in Workers : \A e : Owes(v, o, e) => Owes(v, o, e)' \/ e \in events'[o]
    <3>1. \A v \in Workers : v # w => worker'[v] = worker[v] BY <2>2, <1>t DEF Became
    <3>2. worker[w].order = o => worker[w].event \in events'[o] BY <2>1, <2>2, <1>t
    <3> QED BY <3>1, <3>2 DEF Owes
  <2> QED BY <2>2, <2>3, <2>4, <1>r
<1>8. ASSUME NEW q \in Orders, LeaseExpires(q) \/ BackoffEnds(q) PROVE Told(o)'
  <2>1. PICK r : Wrote(q, r) /\ r.state = order[q].state
    BY <1>8, TimeEffect
  <2>2. UNCHANGED <<events, reader, worker>> BY <1>8 DEF LeaseExpires, BackoffEnds
  <2> QED BY <2>1, <2>2, <1>k
<1>9. ASSUME NEW p \in Operators, Replay(p) PROVE Told(o)'
  <2>1. PICK r : /\ operator[p].order \in Orders /\ Wrote(operator[p].order, r)
                 /\ r.state = "accepted"
    BY <1>9, ReplayEffect
  <2>2. UNCHANGED <<events, reader, worker>> BY <1>9 DEF Replay
  <2>3. r.state \notin Settled BY <2>1 DEF Settled
  <2> QED BY <2>1, <2>2, <2>3, <1>k
<1>10. ASSUME NEW p \in Operators, RecordReplay(p) \/ \E q \in Orders : CheckReplay(p, q)
       PROVE  Told(o)'
  <2>1. events[o] \subseteq events'[o] BY <1>10, <1>t DEF RecordReplay, CheckReplay
  <2>2. UNCHANGED <<order, reader, worker>> BY <1>10 DEF RecordReplay, CheckReplay
  <2> QED BY <2>1, <2>2, <1>r DEF Owes
<1>11. ASSUME NEW q \in Orders, NEW m \in Schemes,
              (\E x \in Verdicts : StatusReport(q, m, x)) \/ ReturnBooked(q, m)
       PROVE  Told(o)'
  <2>1. UNCHANGED <<events, worker>> /\ reader = NothingRead
    BY <1>11, ReportEffect
  <2>2. \A e : reader # [order |-> o, event |-> e]
    <3>1. 0 \notin Orders BY OrdersAssumption
    <3>2. \A e : [order |-> o, event |-> e].order = o OBVIOUS
    <3>3. reader.order = 0 BY <2>1 DEF NothingRead
    <3> QED BY <3>1, <3>2, <3>3
  <2>3. \A w \in Workers : \A e : Owes(w, o, e) => Owes(w, o, e)' BY <2>1 DEF Owes
  <2>4. CASE UNCHANGED <<order, reader>>
    BY <2>1, <2>3, <2>4, <1>r
  <2>5. ASSUME NEW r, Wrote(q, r), reader' = [order |-> q, event |-> EventOf[r.state]]
        PROVE  Told(o)'
    <3>1. CASE q = o
      <4>1. order'[o] = r BY <2>5, <3>1, <1>t DEF Wrote
      <4> QED BY <2>5, <3>1, <4>1 DEF Told
    <3>2. CASE q # o
      <4>1. order'[o] = order[o] BY <2>5, <3>2, <1>t DEF Wrote
      <4> QED BY <2>1, <2>2, <2>3, <4>1, ToldStands
    <3> QED BY <3>1, <3>2
  <2> QED BY <1>11, <2>4, <2>5, ReportEffect
<1>12. ASSUME RecordMove PROVE Told(o)'
  <2>1. /\ UNCHANGED <<order, worker>>
        /\ events' = [events EXCEPT ![reader.order] = events[reader.order] \cup {reader.event}]
    BY <1>12, <1>t DEF RecordMove, Shape, InHand
  <2>2. reader.order \in Orders BY <1>12 DEF RecordMove, Shape, InHand
  <2>3. events[o] \subseteq events'[o] BY <2>1, <2>2, <1>t
  <2>4. \A e : reader = [order |-> o, event |-> e] => e \in events'[o]
    <3> SUFFICES ASSUME NEW e, reader = [order |-> o, event |-> e] PROVE e \in events'[o]
      OBVIOUS
    <3>1. reader.order = o /\ reader.event = e OBVIOUS
    <3> QED BY <2>1, <3>1, <1>t
  <2> QED BY <2>1, <2>3, <2>4, <1>r DEF Owes
<1>13. ASSUME NEW w \in Workers, WorkerLost(w) PROVE FALSE
  <2>1. crashes' = crashes + 1 /\ crashes \in Nat
    BY <1>13 DEF WorkerLost, Shape, TypeOK
  <2> QED BY <2>1
<1>14. ASSUME ReaderLost PROVE FALSE
  <2>1. crashes' = crashes + 1 /\ crashes \in Nat
    BY <1>14 DEF ReaderLost, Shape, TypeOK
  <2> QED BY <2>1
<1> QED
  BY <1>1, <1>2, <1>3, <1>4, <1>5, <1>6, <1>7, <1>8, <1>9, <1>10, <1>11, <1>12, <1>13,
     <1>14 DEF Next, Works

LEMMA CrashesCount == ASSUME Shape, Next PROVE crashes' = crashes \/ crashes' > 0
<1>1. crashes \in Nat BY DEF Shape, TypeOK
<1>2. ASSUME NEW w \in Workers, Claim(w) \/ ReadAttempt(w) \/ Fails(w) \/ Announce(w) \/ Opened(w)
                               \/ SendAll(w) \/ BankRefuses(w)
      PROVE  crashes' = crashes
  BY <1>2 DEF Claim, ReadAttempt, Fails, Announce, Opened, SendAll, BankRefuses
<1>3. ASSUME NEW w \in Workers, Submitted(w) \/ GiveUp(w) \/ Refused(w) PROVE crashes' = crashes
  BY <1>3 DEF Submitted, GiveUp, Refused, Settle
<1>4. ASSUME NEW w \in Workers, RetryLater(w) \/ FallBack(w) \/ RecordAnswer(w) \/ RecordEvent(w)
      PROVE  crashes' = crashes
  BY <1>4 DEF RetryLater, FallBack, RecordAnswer, RecordEvent
<1>5. ASSUME NEW w \in Workers, Works(w) PROVE crashes' = crashes
  BY <1>2, <1>3, <1>4, <1>5 DEF Works
<1>6. ASSUME NEW o \in Orders, LeaseExpires(o) \/ BackoffEnds(o) PROVE crashes' = crashes
  BY <1>6 DEF LeaseExpires, BackoffEnds
<1>7. ASSUME NEW p \in Operators, (\E o \in Orders : CheckReplay(p, o)) \/ Replay(p) \/ RecordReplay(p)
      PROVE  crashes' = crashes
  BY <1>7 DEF CheckReplay, Replay, RecordReplay
<1>8. ASSUME NEW o \in Orders, NEW m \in Schemes,
             (\E v \in Verdicts : StatusReport(o, m, v)) \/ ReturnBooked(o, m)
      PROVE  crashes' = crashes
  BY <1>8 DEF StatusReport, ReturnBooked
<1>9. RecordMove => crashes' = crashes BY DEF RecordMove
<1>10. (\E w \in Workers : WorkerLost(w)) \/ ReaderLost => crashes' = crashes + 1
  BY DEF WorkerLost, ReaderLost
<1>11. crashes' = crashes \/ crashes' = crashes + 1
  BY <1>2, <1>5, <1>6, <1>7, <1>8, <1>9, <1>10 DEF Next
<1> QED BY <1>1, <1>11

\* While no process is lost, no settled order is silent: whoever settled it, and
\* however the settlements of other processes fall between his transactions, the
\* event for the state a reader sees is written or still in somebody's hands.
THEOREM NoSilentSettlement == Spec => []EventUnlessLost
<1> DEFINE I == crashes = 0 => \A o \in Orders : Told(o)
<1>1. Init => I
  <2> SUFFICES ASSUME Init, NEW o \in Orders PROVE Told(o) OBVIOUS
  <2>1. order[o].state = "accepted" BY DEF Init
  <2> QED BY <2>1 DEF Told, Settled
<1>2. Shape /\ I /\ [Next]_vars => I'
  <2> SUFFICES ASSUME Shape, I, [Next]_vars PROVE I' OBVIOUS
  <2>1. CASE Next
    <3> SUFFICES ASSUME crashes' = 0, NEW o \in Orders PROVE Told(o)' OBVIOUS
    <3>1. crashes' = crashes BY <2>1, CrashesCount
    <3> QED BY <2>1, <3>1, ToldNext
  <2>2. CASE UNCHANGED vars
    BY <2>2 DEF vars, Told, Owes
  <2> QED BY <2>1, <2>2
<1>3. I => EventUnlessLost
  BY DEF EventUnlessLost, Told, Owes
<1> HIDE DEF I
<1> QED BY <1>1, <1>2, <1>3, ShapeHolds, PTL DEF Spec

-----------------------------------------------------------------------------
(* Every step as one of PaymentLifecycle.                                   *)

Sent == [o \in Orders |-> {m \in Schemes : bank[o][m] # "unseen"}]
Stutters == UNCHANGED Lifecycle!vars
Maps == Lifecycle!Next \/ Stutters

LEMMA SameRows == ASSUME UNCHANGED <<order, Sent, replays>> PROVE Stutters
BY DEF Stutters, Sent, Lifecycle!vars

LEMMA SentStands ==
    ASSUME Shape, Next, \A w \in Workers : ~SendAll(w)
    PROVE  UNCHANGED Sent
<1>1. ASSUME NEW o \in Orders, NEW m \in Schemes PROVE Has(o, m)' <=> Has(o, m)
  BY BankEffect
<1> QED BY <1>1 DEF Sent, Has

\* One row moved, and nothing else a reader sees.
LEMMA MovesBy ==
    ASSUME TypeOK, NEW o \in Orders, NEW r, Wrote(o, r), NEW from,
           order[o].state \in from, UNCHANGED Sent, UNCHANGED replays
    PROVE  Lifecycle!Moves(o, from, r.state)
<1>1. order' = [order EXCEPT ![o] = r] /\ order \in [Orders -> OrderRow]
  BY DEF Wrote, TypeOK
<1>2. [p \in Orders |-> order'[p].state]
        = [[p \in Orders |-> order[p].state] EXCEPT ![o] = r.state]
  BY <1>1
<1> QED BY <1>2 DEF Lifecycle!Moves, Sent

LEMMA RowStands ==
    ASSUME TypeOK, NEW o \in Orders, NEW r, Wrote(o, r), r.state = order[o].state,
           UNCHANGED Sent, UNCHANGED replays
    PROVE  Stutters
<1>1. order' = [order EXCEPT ![o] = r] /\ order \in [Orders -> OrderRow]
  BY DEF Wrote, TypeOK
<1>2. [p \in Orders |-> order'[p].state] = [p \in Orders |-> order[p].state]
  BY <1>1
<1> QED BY <1>2 DEF Stutters, Sent, Lifecycle!vars

\* The last segment of an upload: the order is submitting, and the bank has no
\* message of it but this one.
LEMMA SendMaps ==
    ASSUME Msgs, Next, NEW w \in Workers, SendAll(w)
    PROVE  Lifecycle!Next
<1>o. PICK o, m : o = worker[w].order /\ m = worker[w].sends OBVIOUS
<1>1. o \in Orders /\ m \in Schemes /\ worker[w].pc = "sending"
  BY <1>o DEF Msgs, Excl, Shape, InHand, SendAll
<1>2. order[o].state = "submitting"
  BY <1>o, <1>1 DEF Msgs, Excl, ClaimIsOurs, Holds, Uploading
<1>3. replays[o] > 0 \/ {n \in Schemes : bank[o][n] # "unseen"} \subseteq {m}
  <2>1. m = order[o].scheme BY <1>o, <1>1 DEF Msgs, SendsTheOrders
  <2>2. replays[o] \in Nat BY <1>1 DEF Msgs, Excl, Shape, TypeOK
  <2> QED BY <1>1, <2>1, <2>2 DEF Msgs, BankHasTheOrders
<1>4. Sent' = [Sent EXCEPT ![o] = Sent[o] \cup {m}]
  <2>1. bank \in [Orders -> [Schemes -> Fates]] BY DEF Msgs, Excl, Shape, TypeOK
  <2>2. PICK fate : /\ fate # "unseen"
                    /\ bank' = [bank EXCEPT ![o] = [bank[o] EXCEPT ![m] = fate]]
    BY <1>o, <1>1, <2>1 DEF SendAll, BankTakes
  <2>3. \A p \in Orders, n \in Schemes :
            bank'[p][n] = IF p = o /\ n = m THEN fate ELSE bank[p][n]
    BY <1>1, <2>1, <2>2
  <2>4. ASSUME NEW p \in Orders
        PROVE  {n \in Schemes : bank'[p][n] # "unseen"}
                = IF p = o THEN Sent[o] \cup {m} ELSE Sent[p]
    BY <1>1, <2>2, <2>3 DEF Sent
  <2> QED BY <1>1, <2>4 DEF Sent
<1>5. UNCHANGED <<order, replays>> BY DEF SendAll
<1>6. Lifecycle!Deliver(o, m)
  BY <1>1, <1>2, <1>3, <1>4, <1>5 DEF Lifecycle!Deliver, Sent
<1> QED BY <1>1, <1>6 DEF Lifecycle!Next

LEMMA ReplayMaps ==
    ASSUME Msgs, Next, NEW p \in Operators, Replay(p), UNCHANGED Sent
    PROVE  Lifecycle!Next
<1>o. PICK o : o = operator[p].order OBVIOUS
<1>t. TypeOK BY DEF Msgs, Excl, Shape
<1>1. PICK r : /\ operator[p].pc = "checked" /\ o \in Orders
               /\ Wrote(o, r) /\ r.state = "accepted"
  BY <1>o, ReplayEffect DEF Msgs, Excl
<1>2. order[o].state \in {"failed", "rejected"}
  BY <1>o, <1>1 DEF Msgs, Excl, CheckStands, Replayable
<1>3. [q \in Orders |-> order'[q].state]
        = [[q \in Orders |-> order[q].state] EXCEPT ![o] = "accepted"]
  BY <1>1, <1>t DEF Wrote, TypeOK
<1>4. [q \in Orders |-> replays'[q] > 0]
        = [[q \in Orders |-> replays[q] > 0] EXCEPT ![o] = TRUE]
  <2>1. replays \in [Orders -> Nat] BY <1>t DEF TypeOK
  <2>2. replays' = [replays EXCEPT ![o] = replays[o] + 1] BY <1>o, <1>1, <2>1 DEF Replay
  <2>3. replays[o] + 1 > 0 BY <1>1, <2>1
  <2>4. \A q \in Orders : (replays'[q] > 0) = IF q = o THEN TRUE ELSE (replays[q] > 0)
    BY <1>1, <2>1, <2>2, <2>3
  <2> QED BY <1>1, <2>4
<1>5. Lifecycle!Replay(o)
  BY <1>1, <1>2, <1>3, <1>4 DEF Lifecycle!Replay, Sent
<1> QED BY <1>1, <1>5 DEF Lifecycle!Next

\* What ends an upload: the order it holds is submitting, and where the bank
\* took the message the bank has it.
LEMMA EndMaps ==
    ASSUME Msgs, Next, UNCHANGED Sent, UNCHANGED replays, NEW w \in Workers,
           Submitted(w) \/ GiveUp(w) \/ Refused(w) \/ RetryLater(w) \/ FallBack(w)
    PROVE  Lifecycle!Next
<1>o. PICK o : o = worker[w].order OBVIOUS
<1>t. TypeOK /\ Shape BY DEF Msgs, Excl, Shape
<1>1. PICK r : /\ Holds(w, o) /\ o \in Orders /\ Wrote(o, r)
               /\ r.state \in {"submitted", "failed", "rejected", "accepted"}
               /\ r.state = "submitted" => worker[w].pc = "done"
  BY <1>o, <1>t, SettleEffect, RetryEffect, FallBackEffect
<1>2. order[o].state \in {"submitting"}
  BY <1>1 DEF Msgs, Excl, ClaimIsOurs
<1>3. Lifecycle!Moves(o, {"submitting"}, r.state)
  BY <1>1, <1>2, <1>t, MovesBy
<1>4. CASE r.state = "submitted"
  <2>1. worker[w].sends \in Schemes /\ bank[o][worker[w].sends] # "unseen"
    BY <1>o, <1>1, <1>4, <1>t DEF Msgs, SendsTheOrders, Shape, InHand
  <2>2. Lifecycle!Submit(o)
    BY <1>1, <1>3, <1>4, <2>1 DEF Lifecycle!Submit
  <2> QED BY <1>1, <2>2 DEF Lifecycle!Next
<1>5. CASE r.state \in {"failed", "rejected", "accepted"}
  BY <1>1, <1>3, <1>5 DEF Lifecycle!Next, Lifecycle!GiveUp, Lifecycle!Refuse, Lifecycle!PutBack
<1> QED BY <1>1, <1>4, <1>5

LEMMA ReadMaps ==
    ASSUME Msgs, Next, UNCHANGED Sent, NEW o \in Orders, NEW m \in Schemes,
           (\E v \in Verdicts : StatusReport(o, m, v)) \/ ReturnBooked(o, m)
    PROVE  Maps
<1>t. TypeOK /\ Shape BY DEF Msgs, Excl, Shape
<1>1. UNCHANGED replays /\ bank[o][m] # "unseen" BY <1>t, ReportEffect
<1>2. CASE UNCHANGED order
  BY <1>1, <1>2, SameRows DEF Maps
<1>3. ASSUME NEW r, Wrote(o, r),
             \/ /\ order[o].state \in {"accepted", "submitted"} /\ r.state = "acknowledged"
             \/ /\ order[o].state \in {"accepted", "submitted", "acknowledged"}
                /\ r.state = "rejected"
             \/ /\ order[o].state \in {"submitted", "acknowledged"} /\ r.state = "returned"
      PROVE  Maps
  <2>1. [q \in Orders |-> {n \in Schemes : bank[q][n] # "unseen"}][o] # {} BY <1>1
  <2>2. CASE order[o].state \in {"accepted", "submitted"} /\ r.state = "acknowledged"
    <3>1. Lifecycle!Moves(o, {"accepted", "submitted"}, "acknowledged")
      BY <1>1, <1>3, <1>t, <2>2, MovesBy
    <3> QED BY <2>1, <3>1 DEF Maps, Lifecycle!Next, Lifecycle!Report
  <2>3. CASE order[o].state \in {"accepted", "submitted", "acknowledged"} /\ r.state = "rejected"
    <3>1. Lifecycle!Moves(o, {"accepted", "submitted", "acknowledged"}, "rejected")
      BY <1>1, <1>3, <1>t, <2>3, MovesBy
    <3> QED BY <2>1, <3>1 DEF Maps, Lifecycle!Next, Lifecycle!Report
  <2>4. CASE order[o].state \in {"submitted", "acknowledged"} /\ r.state = "returned"
    <3>1. Lifecycle!Moves(o, {"submitted", "acknowledged"}, "returned")
      BY <1>1, <1>3, <1>t, <2>4, MovesBy
    <3> QED BY <2>1, <3>1 DEF Maps, Lifecycle!Next, Lifecycle!Return
  <2> QED BY <1>3, <2>2, <2>3, <2>4
<1> QED BY <1>2, <1>3, <1>t, ReportEffect

LEMMA ClaimMaps ==
    ASSUME Msgs, Next, UNCHANGED Sent, NEW w \in Workers, Claim(w)
    PROVE  Maps
<1>t. TypeOK /\ Shape BY DEF Msgs, Excl, Shape
<1>1. PICK r, o : o \in Orders /\ Claimable(o) /\ Wrote(o, r) /\ r.state = "submitting"
  BY <1>t, ClaimEffect
<1>2. UNCHANGED replays BY DEF Claim
<1>3. CASE order[o].state = "accepted"
  <2>1. Lifecycle!Moves(o, {"accepted"}, "submitting")
    BY <1>1, <1>2, <1>3, <1>t, MovesBy
  <2> QED BY <1>1, <2>1 DEF Maps, Lifecycle!Next, Lifecycle!Claim
<1>4. CASE order[o].state = "submitting"
  BY <1>1, <1>2, <1>4, <1>t, RowStands DEF Maps
<1> QED BY <1>1, <1>3, <1>4 DEF Claimable

LEMMA StepMaps == ASSUME Msgs, Next PROVE Maps
<1>t. TypeOK /\ Shape BY DEF Msgs, Excl, Shape
<1>1. CASE \E w \in Workers : SendAll(w)
  BY <1>1, SendMaps DEF Maps
<1>2. CASE \A w \in Workers : ~SendAll(w)
  <2>s. UNCHANGED Sent BY <1>2, <1>t, SentStands
  <2>1. ASSUME NEW w \in Workers, Claim(w) PROVE Maps
    BY <2>1, <2>s, ClaimMaps
  <2>2. ASSUME NEW w \in Workers, OnlyWorker(w) PROVE Maps
    BY <2>2, <2>s, <1>t, OnlyWorkerEffect, SameRows DEF Maps
  <2>3. ASSUME NEW w \in Workers, Opened(w) PROVE Maps
    <3>1. UNCHANGED replays BY <2>3 DEF Opened
    <3> QED BY <2>3, <3>1, <2>s, <1>t, OpenedEffect, RowStands DEF Maps, Owns
  <2>4. ASSUME NEW w \in Workers,
               Submitted(w) \/ GiveUp(w) \/ Refused(w) \/ RetryLater(w) \/ FallBack(w)
        PROVE  Maps
    <3>1. UNCHANGED replays
      BY <2>4 DEF Submitted, GiveUp, Refused, RetryLater, FallBack, Settle
    <3> QED BY <2>4, <3>1, <2>s, EndMaps DEF Maps
  <2>5. ASSUME NEW o \in Orders, LeaseExpires(o) \/ BackoffEnds(o) PROVE Maps
    <3>1. UNCHANGED replays BY <2>5 DEF LeaseExpires, BackoffEnds
    <3> QED BY <2>5, <3>1, <2>s, <1>t, TimeEffect, RowStands DEF Maps
  <2>6. ASSUME NEW p \in Operators, Replay(p) PROVE Maps
    BY <2>6, <2>s, ReplayMaps DEF Maps
  <2>7. ASSUME NEW o \in Orders, NEW m \in Schemes,
               (\E v \in Verdicts : StatusReport(o, m, v)) \/ ReturnBooked(o, m)
        PROVE  Maps
    BY <2>7, <2>s, ReadMaps
  <2>8. ASSUME \/ RecordMove \/ ReaderLost
               \/ \E p \in Operators : RecordReplay(p) \/ \E q \in Orders : CheckReplay(p, q)
        PROVE  Maps
    <3>1. UNCHANGED <<order, replays>>
      BY <2>8 DEF RecordMove, ReaderLost, RecordReplay, CheckReplay
    <3> QED BY <3>1, <2>s, SameRows DEF Maps
  <2> QED
    BY <2>1, <2>2, <2>3, <2>4, <2>5, <2>6, <2>7, <2>8 DEF Next, Works, OnlyWorker
<1> QED BY <1>1, <1>2

LEMMA InitMaps == Init => Lifecycle!Init
<1> SUFFICES ASSUME Init PROVE Lifecycle!Init OBVIOUS
<1>1. \A o \in Orders : order[o].state = "accepted" /\ replays[o] = 0
  BY DEF Init
<1>2. \A o \in Orders : {m \in Schemes : bank[o][m] # "unseen"} = {}
  BY DEF Init
<1>3. \A o \in Orders : (replays[o] > 0) = FALSE BY <1>1
<1> QED BY <1>1, <1>2, <1>3 DEF Lifecycle!Init

\* Claims, leases, retries, the fallback, replays and lost workers never show as a
\* step PaymentLifecycle does not have: what a client reads of an order, and what
\* the bank has of it, is always what that short promise allows.
THEOREM KeepsLifecycle ==
    ASSUME LeaseOutlivesUpload, SingleOperator
    PROVE  Spec => ImplementsLifecycle
<1>1. Msgs /\ [Next]_vars => [Lifecycle!Next]_(Lifecycle!vars)
  <2> SUFFICES ASSUME Msgs, [Next]_vars PROVE Maps
    BY DEF Maps, Stutters
  <2>1. CASE Next BY <2>1, StepMaps
  <2>2. CASE UNCHANGED vars
    BY <2>2 DEF vars, Maps, Stutters, Lifecycle!vars
  <2> QED BY <2>1, <2>2
<1> QED BY <1>1, InitMaps, MsgsHolds, PTL DEF Spec, ImplementsLifecycle, Lifecycle!Spec

-----------------------------------------------------------------------------
(* The answers.                                                             *)

Fits(w) ==
    /\ worker[w].pc \in Uploading \ {"done", "refused"} => worker[w].answer = NoCode
    /\ worker[w].pc \in {"done", "refused"} =>
        /\ worker[w].sends = order[worker[w].order].scheme
        /\ worker[w].answer \in said[worker[w].order][order[worker[w].order].scheme]
    /\ worker[w].pc = "answered" =>
        \/ replays[worker[w].order] > 0
        \/ /\ order[worker[w].order].state \in Settled
           /\ worker[w].answer \in
                {NoCode} \cup said[worker[w].order][order[worker[w].order].scheme]

LEMMA FitsAll == AnswerInHand <=> \A w \in Workers : Fits(w)
BY DEF AnswerInHand, Fits

Answers == Msgs /\ AnswerInHand /\ AnswerOnItsAttempt

LEMMA SaidGrows ==
    ASSUME Shape, Next, NEW o \in Orders, NEW m \in Schemes
    PROVE  said[o][m] \subseteq said'[o][m]
<1>t. said \in [Orders -> [Schemes -> SUBSET Codes]] BY DEF Shape, TypeOK
<1>1. ASSUME NEW q, NEW n, NEW c,
             said' = [said EXCEPT ![q][n] = said[q][n] \cup {c}]
      PROVE  said[o][m] \subseteq said'[o][m]
  BY <1>1, <1>t
<1>2. ASSUME NEW w \in Workers, SendAll(w) \/ BankRefuses(w)
      PROVE  said[o][m] \subseteq said'[o][m]
  <2>1. \/ UNCHANGED said
        \/ \E c : said' = [said EXCEPT ![worker[w].order][worker[w].sends] = @ \cup {c}]
    BY <1>2 DEF SendAll, BankRefuses
  <2> QED BY <2>1, <1>1, <1>t
<1>3. ASSUME \A w \in Workers : ~SendAll(w) /\ ~BankRefuses(w) PROVE UNCHANGED said
  BY <1>3 DEF Next, Works, Claim, ReadAttempt, Fails, Announce, Opened,
     Submitted, RetryLater, GiveUp, FallBack, Refused, RecordAnswer, RecordEvent, Settle,
     WorkerLost, LeaseExpires, BackoffEnds, CheckReplay, Replay, RecordReplay,
     StatusReport, ReturnBooked, RecordMove, ReaderLost
<1> QED BY <1>2, <1>3

\* Nothing but a replay puts an order back in the queue.
LEMMA StaysSettled ==
    ASSUME Msgs, Next, NEW o \in Orders, order[o].state \in Settled
    PROVE  order'[o].state \in Settled \/ replays'[o] > 0
<1>t. order[o].state \notin {"accepted", "submitting"} BY DEF Settled
<1>s. {"submitted", "acknowledged", "rejected", "failed", "returned"} = Settled
  BY DEF Settled, OrderStates
<1> DEFINE st == [q \in Orders |-> order[q].state]
<1>1. CASE st' = st
  <2>1. st'[o] = st[o] BY <1>1
  <2> QED BY <2>1
<1>2. ASSUME NEW q \in Orders, NEW from, NEW to, Lifecycle!Moves(q, from, to),
             to \in Settled \/ from \subseteq {"accepted", "submitting"}
      PROVE  order'[o].state \in Settled
  <2>1. st[q] \in from /\ st' = [st EXCEPT ![q] = to] BY <1>2 DEF Lifecycle!Moves
  <2>2. st'[o] = IF q = o THEN to ELSE st[o] BY <2>1
  <2> QED BY <1>2, <2>1, <2>2, <1>t
<1>3. ASSUME NEW q \in Orders, Lifecycle!Replay(q)
      PROVE  order'[o].state \in Settled \/ replays'[o] > 0
  <2> DEFINE again == [p \in Orders |-> replays[p] > 0]
  <2>1. st' = [st EXCEPT ![q] = "accepted"] /\ again' = [again EXCEPT ![q] = TRUE]
    BY <1>3 DEF Lifecycle!Replay
  <2>2. CASE q = o
    <3>1. again'[o] = TRUE BY <2>1, <2>2
    <3> QED BY <3>1
  <2>3. CASE q # o
    <3>1. st'[o] = st[o] BY <2>1, <2>3
    <3> QED BY <3>1
  <2> QED BY <2>2, <2>3
<1>4. Maps BY StepMaps
<1>5. CASE Stutters BY <1>1, <1>5 DEF Stutters, Lifecycle!vars
<1>6. CASE Lifecycle!Next
  <2>1. PICK q \in Orders :
            \/ Lifecycle!Claim(q) \/ Lifecycle!PutBack(q) \/ Lifecycle!GiveUp(q)
            \/ Lifecycle!Refuse(q) \/ Lifecycle!Submit(q)
            \/ \E m \in Schemes : Lifecycle!Deliver(q, m)
            \/ Lifecycle!Report(q) \/ Lifecycle!Return(q) \/ Lifecycle!Replay(q)
    BY <1>6 DEF Lifecycle!Next
  <2>2. CASE Lifecycle!Claim(q) \/ Lifecycle!PutBack(q)
    BY <2>2, <1>2 DEF Lifecycle!Claim, Lifecycle!PutBack
  <2>3. CASE Lifecycle!GiveUp(q) \/ Lifecycle!Refuse(q) \/ Lifecycle!Submit(q)
    BY <2>3, <1>2, <1>s DEF Lifecycle!GiveUp, Lifecycle!Refuse, Lifecycle!Submit
  <2>4. CASE Lifecycle!Report(q) \/ Lifecycle!Return(q)
    BY <2>4, <1>2, <1>s DEF Lifecycle!Report, Lifecycle!Return
  <2>5. CASE \E m \in Schemes : Lifecycle!Deliver(q, m)
    BY <2>5, <1>1 DEF Lifecycle!Deliver
  <2> QED BY <2>1, <2>2, <2>3, <2>4, <2>5, <1>3
<1> QED BY <1>4, <1>5, <1>6 DEF Maps

\* An answer in hand stands while others work.
LEMMA FitsStands ==
    ASSUME Msgs, Next, NEW w \in Workers, Fits(w), worker'[w] = worker[w]
    PROVE  Fits(w)'
<1>s. Excl /\ Shape BY DEF Msgs, Excl
<1>t. order \in [Orders -> OrderRow] /\ replays \in [Orders -> Nat]
  BY <1>s DEF Shape, TypeOK
<1>i. worker[w].pc # "idle" => worker[w].order \in Orders BY <1>s DEF Shape, InHand
<1>d. "idle" \notin Uploading /\ "answered" \notin Uploading BY DEF Uploading
<1>1. CASE worker[w].pc \in Uploading
  <2>1. worker[w].order \in Orders /\ Holds(w, worker[w].order)
    BY <1>1, <1>i, <1>d DEF Holds
  <2>2. order'[worker[w].order].scheme = order[worker[w].order].scheme
    BY <2>1, <1>s, HeldStands DEF Alike
  <2>3. order[worker[w].order].scheme \in Schemes BY <2>1, <1>t DEF OrderRow
  <2>4. said[worker[w].order][order[worker[w].order].scheme]
            \subseteq said'[worker[w].order][order[worker[w].order].scheme]
    BY <2>1, <2>3, <1>s, SaidGrows
  <2> QED BY <1>1, <1>d, <2>2, <2>4 DEF Fits
<1>2. CASE worker[w].pc = "answered"
  <2>o. PICK o \in Orders : o = worker[w].order BY <1>2, <1>i
  <2>1. order[o].scheme \in Schemes /\ replays[o] \in Nat BY <1>t DEF OrderRow
  <2>2. CASE replays'[o] > 0 BY <1>2, <1>d, <2>o, <2>2 DEF Fits
  <2>3. CASE ~(replays'[o] > 0)
    <3>1. ~(replays[o] > 0) BY <2>3, <1>s, RowEffect DEF Alike
    <3>2. order[o].state \in Settled /\ worker[w].answer \in {NoCode} \cup said[o][order[o].scheme]
      BY <1>2, <2>o, <3>1 DEF Fits
    <3>3. \A v \in Workers : ~Holds(v, o)
      BY <3>2, <1>s DEF Excl, ClaimIsOurs, Settled
    <3>4. order'[o].scheme = order[o].scheme
      BY <2>3, <3>3, <1>s, RowEffect DEF Alike
    <3>5. order'[o].state \in Settled BY <2>3, <3>2, StaysSettled
    <3>6. said[o][order[o].scheme] \subseteq said'[o][order[o].scheme]
      BY <2>1, <1>s, SaidGrows
    <3> QED BY <1>2, <1>d, <2>o, <3>2, <3>4, <3>5, <3>6 DEF Fits
  <2> QED BY <2>2, <2>3
<1>3. CASE worker[w].pc \notin Uploading \cup {"answered"}
  BY <1>3 DEF Fits, Uploading
<1> QED BY <1>1, <1>2, <1>3

\* The bank said c about the message worker w sends.
Heard(w, c) ==
    said' = [said EXCEPT ![worker[w].order][worker[w].sends] = @ \cup {c}]

LEMMA FitsNext ==
    ASSUME Msgs, AnswerInHand, Next, NEW w \in Workers
    PROVE  Fits(w)'
<1>s. Excl /\ Shape BY DEF Msgs, Excl
<1>t. /\ order \in [Orders -> OrderRow] /\ worker \in [Workers -> WorkerState]
      /\ said \in [Orders -> [Schemes -> SUBSET Codes]]
  BY <1>s DEF Shape, TypeOK
<1>f. \A v \in Workers : Fits(v) BY FitsAll
<1>i. \A v \in Workers : worker[v].pc # "idle" => worker[v].order \in Orders
  BY <1>s DEF Shape, InHand
<1>k. ASSUME worker'[w] = worker[w] PROVE Fits(w)'
  BY <1>k, <1>f, FitsStands
<1>o. ASSUME NEW v \in Workers, NEW c, Became(v, c), v # w PROVE Fits(w)'
  BY <1>o, <1>t, <1>k DEF Became
\* In the middle of an upload no answer is in hand.
<1>m. ASSUME NEW v \in Workers, NEW c, Became(v, c), c.answer = NoCode,
             c.pc \in Uploading \ {"done", "refused"}
      PROVE  Fits(w)'
  <2>1. CASE v = w
    <3>1. worker'[w] = c BY <1>m, <2>1, <1>t DEF Became
    <3> QED BY <1>m, <3>1 DEF Fits, Uploading
  <2> QED BY <2>1, <1>m, <1>o
<1>z. ASSUME NEW v \in Workers, NEW c, Became(v, c), c.pc \in {"idle", "settled"}
      PROVE  Fits(w)'
  <2>1. CASE v = w
    <3>1. worker'[w] = c BY <1>z, <2>1, <1>t DEF Became
    <3> QED BY <1>z, <3>1 DEF Fits, Uploading
  <2> QED BY <2>1, <1>z, <1>o
\* The bank's answer to the message the worker sends.
<1>a. ASSUME NEW v \in Workers, NEW c, Became(v, c), Heard(v, c.answer),
             worker[v].pc \in {"announcing", "sending"},
             c.pc \in {"done", "refused"}, c.order = worker[v].order,
             c.sends = worker[v].sends, UNCHANGED order
      PROVE  Fits(w)'
  <2>1. CASE v = w
    <3>1. worker'[w] = c BY <1>a, <2>1, <1>t DEF Became
    <3>2. worker[w].order \in Orders BY <1>a, <2>1, <1>i
    <3>3. worker[w].sends = order[worker[w].order].scheme
      BY <1>a, <2>1 DEF Msgs, SendsTheOrders
    <3>4. worker[w].sends \in Schemes BY <3>2, <3>3, <1>t DEF OrderRow
    <3>5. c.answer \in said'[worker[w].order][worker[w].sends]
      BY <1>a, <2>1, <3>2, <3>4, <1>t DEF Heard
    <3> QED BY <1>a, <2>1, <3>1, <3>3, <3>5 DEF Fits, Uploading
  <2> QED BY <2>1, <1>a, <1>o
<1>1. ASSUME NEW v \in Workers, Claim(v) PROVE Fits(w)'
  <2>1. PICK c : Became(v, c) /\ c.pc = "claimed" /\ c.answer = NoCode
    BY <1>1, <1>s, ClaimEffect
  <2>2. c.pc \in Uploading \ {"done", "refused"} BY <2>1 DEF Uploading
  <2> QED BY <2>1, <2>2, <1>m
<1>2. ASSUME NEW v \in Workers, ReadAttempt(v) \/ Fails(v) \/ Announce(v) \/ Opened(v)
      PROVE  Fits(w)'
  <2>1. worker[v].answer = NoCode
    <3>1. worker[v].pc \in Uploading \ {"done", "refused"}
      BY <1>2 DEF ReadAttempt, Fails, Announce, Opened, Uploading
    <3> QED BY <3>1, <1>f DEF Fits
  <2>2. PICK me \in WorkerState : me = worker[v] BY <1>t
  <2>3. ASSUME NEW pc, NEW m, NEW n,
               Became(v, [me EXCEPT !.pc = pc, !.sends = m, !.named = n])
        PROVE  \E c : Became(v, c) /\ c.answer = NoCode /\ c.pc = pc
    <3>1. PICK c : c = [me EXCEPT !.pc = pc, !.sends = m, !.named = n] OBVIOUS
    <3>2. c.answer = me.answer /\ c.pc = pc BY <3>1 DEF WorkerState
    <3> QED BY <2>1, <2>2, <2>3, <3>1, <3>2
  <2>4. \E m, n, pc :
            /\ Became(v, [me EXCEPT !.pc = pc, !.sends = m, !.named = n])
            /\ pc \in {"announcing", "unknown", "opened", "sending"}
    <3>e. \A pc, m, n :
            /\ [me EXCEPT !.pc = pc, !.sends = m]
                    = [me EXCEPT !.pc = pc, !.sends = m, !.named = me.named]
            /\ [me EXCEPT !.pc = pc, !.named = n]
                    = [me EXCEPT !.pc = pc, !.sends = me.sends, !.named = n]
            /\ [me EXCEPT !.pc = pc]
                    = [me EXCEPT !.pc = pc, !.sends = me.sends, !.named = me.named]
      BY DEF WorkerState
    <3>1. CASE ReadAttempt(v)
      <4>1. PICK m : Became(v, [me EXCEPT !.pc = "announcing", !.sends = m])
        BY <3>1, <2>2, <1>t DEF ReadAttempt, Became
      <4>2. Became(v, [me EXCEPT !.pc = "announcing", !.sends = m, !.named = me.named])
        BY <4>1, <3>e
      <4> QED BY <4>1, <4>2
    <3>2. CASE Announce(v)
      <4>1. PICK n : Became(v, [me EXCEPT !.pc = "opened", !.named = n])
        BY <3>2, <2>2, <1>t DEF Announce, Became
      <4>2. Became(v, [me EXCEPT !.pc = "opened", !.sends = me.sends, !.named = n])
        BY <4>1, <3>e
      <4> QED BY <4>1, <4>2
    <3>3. CASE Fails(v) \/ Opened(v)
      <4>1. PICK pc \in {"unknown", "sending"} : Became(v, [me EXCEPT !.pc = pc])
        BY <3>3, <2>2, <1>t DEF Fails, Opened, Step, Became
      <4>2. Became(v, [me EXCEPT !.pc = pc, !.sends = me.sends, !.named = me.named])
        BY <4>1, <3>e
      <4> QED BY <4>1, <4>2
    <3> QED BY <1>2, <3>1, <3>2, <3>3
  <2>5. {"announcing", "unknown", "opened", "sending"} \subseteq Uploading \ {"done", "refused"}
    BY DEF Uploading
  <2>6. PICK c : /\ Became(v, c) /\ c.answer = NoCode
                 /\ c.pc \in {"announcing", "unknown", "opened", "sending"}
    BY <2>3, <2>4
  <2> QED BY <2>5, <2>6, <1>m
<1>3. ASSUME NEW v \in Workers, SendAll(v) PROVE Fits(w)'
  <2>1. CASE Step(v, "unknown")
    <3>1. Became(v, [worker[v] EXCEPT !.pc = "unknown"]) BY <2>1, <1>t DEF Step, Became
    <3>2. /\ [worker[v] EXCEPT !.pc = "unknown"].pc = "unknown"
          /\ [worker[v] EXCEPT !.pc = "unknown"].answer = worker[v].answer
      BY <1>t DEF WorkerState
    <3>3. worker[v].answer = NoCode BY <1>3, <1>f DEF SendAll, Fits, Uploading
    <3>4. "unknown" \in Uploading \ {"done", "refused"} BY DEF Uploading
    <3> QED BY <3>1, <3>2, <3>3, <3>4, <1>m
  <2>2. ASSUME NEW n, Heard(v, OkCode),
               worker' = [worker EXCEPT ![v].pc = "done", ![v].answer = OkCode,
                                        ![v].named = @ \/ n]
        PROVE  Fits(w)'
    <3>1. PICK x : Became(v, [worker[v] EXCEPT !.pc = "done", !.answer = OkCode, !.named = x])
      BY <2>2, <1>t DEF Became
    <3>2. PICK c : c = [worker[v] EXCEPT !.pc = "done", !.answer = OkCode, !.named = x]
      OBVIOUS
    <3>3. /\ c.pc = "done" /\ c.answer = OkCode
          /\ c.order = worker[v].order /\ c.sends = worker[v].sends
      BY <3>2, <1>t DEF WorkerState
    <3>4. UNCHANGED order /\ worker[v].pc = "sending" BY <1>3 DEF SendAll
    <3>5. Became(v, c) /\ Heard(v, c.answer) BY <2>2, <3>1, <3>2, <3>3
    <3> QED BY <3>3, <3>4, <3>5, <1>a
  <2> QED BY <2>1, <2>2, <1>3 DEF SendAll, Heard
<1>4. ASSUME NEW v \in Workers, BankRefuses(v) PROVE Fits(w)'
  <2>1. PICK x : /\ Became(v, [worker[v] EXCEPT !.pc = "refused", !.answer = x])
                 /\ Heard(v, x)
    BY <1>4, <1>t DEF BankRefuses, Became, Heard
  <2>2. PICK c : c = [worker[v] EXCEPT !.pc = "refused", !.answer = x] OBVIOUS
  <2>3. /\ c.pc = "refused" /\ c.answer = x
        /\ c.order = worker[v].order /\ c.sends = worker[v].sends
    BY <2>2, <1>t DEF WorkerState
  <2>4. UNCHANGED order /\ worker[v].pc \in {"announcing", "sending"} BY <1>4 DEF BankRefuses
  <2>5. Became(v, c) /\ Heard(v, c.answer) BY <2>1, <2>2, <2>3
  <2> QED BY <2>3, <2>4, <2>5, <1>a
<1>5. ASSUME NEW v \in Workers, Submitted(v) \/ GiveUp(v) \/ Refused(v) PROVE Fits(w)'
  <2>1. PICK r, e :
            /\ worker[v].order \in Orders /\ Holds(v, worker[v].order)
            /\ Wrote(worker[v].order, r) /\ Keeps(r, order[worker[v].order])
            /\ r.state \in {"submitted", "failed", "rejected"}
            /\ Became(v, [worker[v] EXCEPT !.pc = "answered", !.event = e])
            /\ UNCHANGED said
    BY <1>5, <1>s, SettleEffect
  <2>2. CASE v = w
    <3>1. /\ worker'[w].pc = "answered" /\ worker'[w].order = worker[w].order
          /\ worker'[w].answer = worker[w].answer
      BY <2>1, <2>2, <1>t DEF Became, WorkerState
    <3>2. order'[worker[w].order] = r BY <2>1, <2>2, <1>t DEF Wrote
    <3>3. r.state \in Settled /\ r.scheme = order[worker[w].order].scheme
      BY <2>1, <2>2 DEF Keeps, Settled, OrderStates
    <3>4. worker[w].answer \in
            {NoCode} \cup said[worker[w].order][order[worker[w].order].scheme]
      BY <2>1, <2>2, <1>f DEF Fits, Holds
    <3> QED BY <2>1, <3>1, <3>2, <3>3, <3>4 DEF Fits, Uploading
  <2> QED BY <2>1, <2>2, <1>o
<1>6. ASSUME NEW v \in Workers, RetryLater(v) \/ RecordEvent(v) \/ WorkerLost(v) PROVE Fits(w)'
  <2>1. Became(v, Idle) BY <1>6 DEF RetryLater, RecordEvent, WorkerLost, Became
  <2>2. Idle.pc = "idle" BY DEF Idle
  <2> QED BY <2>1, <2>2, <1>z
<1>7. ASSUME NEW v \in Workers, FallBack(v) PROVE Fits(w)'
  <2>1. PICK c : Became(v, c) /\ c.pc = "settled" BY <1>7, <1>s, FallBackEffect
  <2> QED BY <2>1, <1>z
<1>8. ASSUME NEW v \in Workers, RecordAnswer(v) PROVE Fits(w)'
  <2>1. Became(v, [worker[v] EXCEPT !.pc = "settled"])
    BY <1>8, <1>t DEF RecordAnswer, Step, Became
  <2>2. [worker[v] EXCEPT !.pc = "settled"].pc = "settled" BY <1>t DEF WorkerState
  <2> QED BY <2>1, <2>2, <1>z
<1>9. ASSUME UNCHANGED worker PROVE Fits(w)'
  BY <1>9, <1>k
<1>10. ASSUME NEW q \in Orders,
              \/ LeaseExpires(q) \/ BackoffEnds(q)
              \/ \E m \in Schemes : (\E x \in Verdicts : StatusReport(q, m, x)) \/ ReturnBooked(q, m)
       PROVE  UNCHANGED worker
  BY <1>10 DEF LeaseExpires, BackoffEnds, StatusReport, ReturnBooked
<1>11. ASSUME NEW p \in Operators,
              Replay(p) \/ RecordReplay(p) \/ \E q \in Orders : CheckReplay(p, q)
       PROVE  UNCHANGED worker
  BY <1>11 DEF Replay, RecordReplay, CheckReplay
<1>12. ASSUME RecordMove \/ ReaderLost PROVE UNCHANGED worker
  BY <1>12 DEF RecordMove, ReaderLost
<1> QED
  BY <1>1, <1>2, <1>3, <1>4, <1>5, <1>6, <1>7, <1>8, <1>9, <1>10, <1>11, <1>12
  DEF Next, Works

\* The two steps that write a code put it on the live attempt, which is the one
\* whose message the worker in hand sent, or the order was replayed meanwhile.
LEMMA CodesNext ==
    ASSUME Answers, Next
    PROVE  AnswerOnItsAttempt'
<1> SUFFICES ASSUME NEW o \in Orders, NEW s \in Schemes, ~(replays'[o] > 0)
             PROVE  attempt'[o][s].code \in {NoCode} \cup said'[o][s]
  BY DEF AnswerOnItsAttempt
<1>s. Excl /\ Shape BY DEF Answers, Msgs, Excl
<1>t. /\ attempt \in [Orders -> [Schemes -> AttemptRow]]
      /\ worker \in [Workers -> WorkerState] /\ replays \in [Orders -> Nat]
  BY <1>s DEF Shape, TypeOK
<1>r. ~(replays[o] > 0) BY <1>s, RowEffect DEF Alike
<1>i. attempt[o][s].code \in {NoCode} \cup said[o][s]
  BY <1>r DEF Answers, AnswerOnItsAttempt
<1>g. said[o][s] \subseteq said'[o][s] BY <1>s, SaidGrows
<1>l. attempt[o][s].state = "live" => s = order[o].scheme
  BY <1>s DEF Shape, LiveAttemptIsTheOrders, Those
<1>f. \A w \in Workers : Fits(w) BY FitsAll DEF Answers
<1>1. ASSUME NEW w \in Workers, NEW rows, worker[w].order \in Orders,
             attempt' = [attempt EXCEPT ![worker[w].order] = rows],
             \A n \in Schemes :
                \/ rows[n].code = attempt[worker[w].order][n].code
                \/ /\ attempt[worker[w].order][n].state = "live"
                   /\ rows[n].code = worker[w].answer,
             worker[w].order = o =>
                worker[w].answer \in {NoCode} \cup said[o][order[o].scheme]
      PROVE  attempt'[o][s].code \in {NoCode} \cup said'[o][s]
  <2>1. CASE worker[w].order = o
    <3>1. attempt'[o] = rows BY <1>1, <2>1, <1>t
    <3> QED BY <1>1, <2>1, <3>1, <1>i, <1>g, <1>l
  <2>2. CASE worker[w].order # o
    <3>1. attempt'[o] = attempt[o] BY <1>1, <2>2, <1>t
    <3> QED BY <3>1, <1>i, <1>g
  <2> QED BY <2>1, <2>2
<1>2. ASSUME NEW w \in Workers, FallBack(w)
      PROVE  attempt'[o][s].code \in {NoCode} \cup said'[o][s]
  <2>1. worker[w].order \in Orders BY <1>2, <1>s, FallBackEffect
  <2>2. PICK rows : /\ attempt' = [attempt EXCEPT ![worker[w].order] = rows]
                    /\ rows = Promoted(attempt[worker[w].order],
                                       One(worker[w].order, "planned"), worker[w].answer)
    BY <1>2, <2>1, <1>t DEF FallBack
  <2>3. \A n \in Schemes :
            \/ rows[n].code = attempt[worker[w].order][n].code
            \/ /\ attempt[worker[w].order][n].state = "live"
               /\ rows[n].code = worker[w].answer
    BY <2>1, <2>2, <1>t DEF Promoted, AttemptRow
  <2>4. worker[w].answer \in said[worker[w].order][order[worker[w].order].scheme]
    BY <1>2, <1>f DEF FallBack, IsFinal, Fits
  <2> QED BY <2>1, <2>2, <2>3, <2>4, <1>1
<1>3. ASSUME NEW w \in Workers, RecordAnswer(w)
      PROVE  attempt'[o][s].code \in {NoCode} \cup said'[o][s]
  <2>1. worker[w].order \in Orders BY <1>3, <1>s DEF RecordAnswer, Shape, InHand
  <2>2. PICK rows : /\ attempt' = [attempt EXCEPT ![worker[w].order] = rows]
                    /\ rows = Answered(attempt[worker[w].order], worker[w].answer)
    BY <1>3, <2>1, <1>t DEF RecordAnswer
  <2>3. \A n \in Schemes :
            \/ rows[n].code = attempt[worker[w].order][n].code
            \/ /\ attempt[worker[w].order][n].state = "live"
               /\ rows[n].code = worker[w].answer
    BY <2>1, <2>2, <1>t DEF Answered, AttemptRow
  <2>4. worker[w].order = o => worker[w].answer \in {NoCode} \cup said[o][order[o].scheme]
    BY <1>3, <1>r, <1>f DEF RecordAnswer, Fits
  <2> QED BY <2>1, <2>2, <2>3, <2>4, <1>1
<1>4. ASSUME \A w \in Workers : ~FallBack(w) /\ ~RecordAnswer(w) PROVE UNCHANGED attempt
  BY <1>4 DEF Next, Works, Claim, ReadAttempt, Fails, Announce, Opened, SendAll, BankRefuses,
     Submitted, RetryLater, GiveUp, Refused, RecordEvent, Settle,
     WorkerLost, LeaseExpires, BackoffEnds, CheckReplay, Replay, RecordReplay,
     StatusReport, ReturnBooked, RecordMove, ReaderLost
<1>5. ASSUME UNCHANGED attempt PROVE attempt'[o][s].code \in {NoCode} \cup said'[o][s]
  BY <1>5, <1>i, <1>g
<1> QED BY <1>2, <1>3, <1>4, <1>5

\* A return code stands on the attempt whose message provoked it, although it is
\* written to whichever attempt is live in a transaction after the settlement:
\* until somebody replays the order, no other message can have become live.
THEOREM AnswerStaysWithItsMessage ==
    ASSUME LeaseOutlivesUpload, SingleOperator
    PROVE  Spec => []AnswerOnItsAttempt
<1>1. Init => AnswerInHand /\ AnswerOnItsAttempt
  <2> SUFFICES ASSUME Init PROVE AnswerInHand /\ AnswerOnItsAttempt OBVIOUS
  <2>1. \A w \in Workers : Fits(w) BY DEF Init, Fits, Idle, Uploading
  <2>2. ASSUME NEW o \in Orders, NEW s \in Schemes PROVE attempt[o][s].code = NoCode
    <3>1. PICK r \in Requests : attempt[o] = FirstAttempts(r) BY DEF Init
    <3> QED BY <3>1 DEF FirstAttempts
  <2> QED BY <2>1, <2>2, FitsAll DEF AnswerOnItsAttempt
<1>2. Answers /\ [Next]_vars => (AnswerInHand /\ AnswerOnItsAttempt)'
  <2> SUFFICES ASSUME Answers, [Next]_vars PROVE AnswerInHand' /\ AnswerOnItsAttempt'
    OBVIOUS
  <2>1. CASE Next
    <3>1. \A w \in Workers : Fits(w)' BY <2>1, FitsNext DEF Answers
    <3>2. AnswerInHand' BY <3>1 DEF AnswerInHand, Fits
    <3> QED BY <2>1, <3>2, CodesNext
  <2>2. CASE UNCHANGED vars
    BY <2>2 DEF vars, Answers, AnswerInHand, AnswerOnItsAttempt
  <2> QED BY <2>1, <2>2
<1>3. Msgs /\ AnswerInHand /\ AnswerOnItsAttempt <=> Answers BY DEF Answers
<1> QED BY <1>1, <1>2, <1>3, MsgsHolds, PTL DEF Spec

=============================================================================
