----------------------- MODULE StatementStore_proofs -----------------------
(***************************************************************************)
(* The statement store, as it is filled and as it is read.  The first part *)
(* is about DownloadSchedule: what a download stores, however long it      *)
(* takes and whoever else runs (StorageInv), and what the schedule asks    *)
(* for, while no download outlives its lease and nobody asks for days far  *)
(* ahead (WindowStands, NoGap), for any number of documents, workers,      *)
(* operators and days.  The second is about StatusReports: an order moves  *)
(* as BankVerdict allows, a person confirms what is suspected, and a       *)
(* re-reading leaves nothing to do, for any documents, readers and orders. *)
(*                                                                         *)
(* The actions change one worker, one reader or one order at a time.  The  *)
(* lemmas at the head of each part say what each change does to the fields *)
(* of its record, so that the invariants never look into a record again.   *)
(***************************************************************************)
EXTENDS DownloadSchedule, StatusReports, FiniteSetTheorems, TLAPS

\* Only w changes, into r.
Only(w, r) ==
    /\ worker' \in [Workers -> WorkerState]
    /\ worker'[w] = r
    /\ \A v \in Workers : v # w => worker'[v] = worker[v]

LEMMA Update ==
    ASSUME NEW w \in Workers, NEW r \in WorkerState,
           worker \in [Workers -> WorkerState], worker' = [worker EXCEPT ![w] = r]
    PROVE  Only(w, r)
BY DEF Only

\* A worker is idle when it rests.
LEMMA RestsOnly ==
    ASSUME NEW w \in Workers, TypeOK, Rests(w)
    PROVE  Only(w, Idle)
<1>1. Idle \in WorkerState
  BY DaysAssumption DEF Idle, WorkerState, Outcomes, Days
<1> QED BY <1>1, Update DEF TypeOK, Rests

\* What an action does to the record of a worker that stays busy: the window
\* is what it was.
Goes(w, pc, served, todo, outcome) ==
    /\ worker' \in [Workers -> WorkerState]
    /\ worker'[w].pc = pc
    /\ worker'[w].start = worker[w].start /\ worker'[w].end = worker[w].end
    /\ worker'[w].served = served /\ worker'[w].todo = todo
    /\ worker'[w].outcome = outcome
    /\ \A v \in Workers : v # w => worker'[v] = worker[v]

\* A run ends with an outcome.
LEMMA EndsGoes ==
    ASSUME NEW w \in Workers, NEW outcome \in Outcomes, TypeOK, Ends(w, outcome)
    PROVE  Goes(w, "ending", worker[w].served, worker[w].todo, outcome)
<1> DEFINE r == [worker[w] EXCEPT !.pc = "ending", !.outcome = outcome]
<1>1. worker[w] \in WorkerState
  BY DEF TypeOK
<1>2. /\ r \in WorkerState /\ r.pc = "ending" /\ r.outcome = outcome
      /\ r.start = worker[w].start /\ r.end = worker[w].end
      /\ r.served = worker[w].served /\ r.todo = worker[w].todo
  BY <1>1 DEF WorkerState
<1>3. worker' = [worker EXCEPT ![w] = r]
  BY DEF Ends
<1> HIDE DEF r
<1>4. Only(w, r)
  BY <1>2, <1>3, Update DEF TypeOK
<1> QED BY <1>2, <1>4 DEF Only, Goes

\* A run is opened for a claim of a schedule that is still there.
LEMMA OpenRunGoes ==
    ASSUME NEW w \in Workers, TypeOK, OpenRun(w), schedule.is = "row"
    PROVE  Goes(w, "running", worker[w].served, worker[w].todo, worker[w].outcome)
<1> DEFINE r == [worker[w] EXCEPT !.pc = "running"]
<1>1. worker[w] \in WorkerState
  BY DEF TypeOK
<1>2. /\ r \in WorkerState /\ r.pc = "running" /\ r.outcome = worker[w].outcome
      /\ r.start = worker[w].start /\ r.end = worker[w].end
      /\ r.served = worker[w].served /\ r.todo = worker[w].todo
  BY <1>1 DEF WorkerState
<1>3. worker' = [worker EXCEPT ![w] = r]
  BY DEF OpenRun
<1> HIDE DEF r
<1>4. Only(w, r)
  BY <1>2, <1>3, Update DEF TypeOK
<1> QED BY <1>2, <1>4 DEF Only, Goes

\* The bank serves something.
LEMMA AskGoes ==
    ASSUME NEW w \in Workers, TypeOK, Ask(w), Serves(w) # {}
    PROVE  Goes(w, "storing", Serves(w), Serves(w), worker[w].outcome)
<1>0. Serves(w) \in SUBSET Documents
  BY DEF Serves
<1> DEFINE s == Serves(w)
           r == [worker[w] EXCEPT !.pc = "storing", !.served = s, !.todo = s]
<1>3. worker' = [worker EXCEPT ![w] = r]
  BY DEF Ask
<1> HIDE DEF s
<1>1. worker[w] \in WorkerState /\ s \in SUBSET Documents
  BY <1>0 DEF TypeOK, s
<1>2. /\ r \in WorkerState /\ r.pc = "storing" /\ r.outcome = worker[w].outcome
      /\ r.start = worker[w].start /\ r.end = worker[w].end
      /\ r.served = s /\ r.todo = s
  BY <1>1 DEF WorkerState
<1> HIDE DEF r
<1>4. Only(w, r)
  BY <1>2, <1>3, Update DEF TypeOK
<1> QED BY <1>2, <1>4 DEF Only, Goes, s

\* One document is stored, or passed over.
LEMMA StoreGoes ==
    ASSUME NEW w \in Workers, NEW doc \in Documents, TypeOK, Store(w, doc)
    PROVE  Goes(w, "storing", worker[w].served, worker[w].todo \ {doc}, worker[w].outcome)
<1> DEFINE r == [worker[w] EXCEPT !.todo = worker[w].todo \ {doc}]
<1>1. worker[w] \in WorkerState /\ worker[w].pc = "storing"
  BY DEF TypeOK, Store
<1>2. /\ r \in WorkerState /\ r.pc = "storing" /\ r.outcome = worker[w].outcome
      /\ r.start = worker[w].start /\ r.end = worker[w].end
      /\ r.served = worker[w].served /\ r.todo = worker[w].todo \ {doc}
  BY <1>1 DEF WorkerState
<1>3. worker' = [worker EXCEPT ![w] = r]
  BY DEF Store
<1> HIDE DEF r
<1>4. Only(w, r)
  BY <1>2, <1>3, Update DEF TypeOK
<1> QED BY <1>2, <1>4 DEF Only, Goes

\* A schedule is claimed: its worker starts out with an empty hand and the
\* window of the day.
LEMMA ClaimOnly ==
    ASSUME NEW w \in Workers, TypeOK, Claim(w)
    PROVE  /\ worker' \in [Workers -> WorkerState]
           /\ worker[w].pc = "idle" /\ worker'[w].pc = "claimed"
           /\ worker'[w].served = {} /\ worker'[w].todo = {}
           /\ worker'[w].outcome = "none"
           /\ schedule.dated => worker'[w].start = Start /\ worker'[w].end = today
           /\ ~schedule.dated => worker'[w].start = 1 /\ worker'[w].end = 0
           /\ \A v \in Workers : v # w => worker'[v] = worker[v]
<1> DEFINE start == IF schedule.dated THEN Start ELSE 1
           end == IF schedule.dated THEN today ELSE 0
           r == [Idle EXCEPT !.pc = "claimed", !.start = start, !.end = end]
<1>1. schedule.mark \in 0..LastDay \cup {NoMark} /\ today \in (WindowDays + 1)..LastDay
  BY DEF TypeOK, ScheduleRow
<1>2. start \in Days /\ end \in 0..LastDay
  BY <1>1, DaysAssumption DEF Start, NoMark, Days
<1>3. worker' = [worker EXCEPT ![w] = r]
  BY DEF Claim
<1>4. /\ schedule.dated => start = Start /\ end = today
      /\ ~schedule.dated => start = 1 /\ end = 0
  OBVIOUS
<1> HIDE DEF start, end
<1>5. /\ r \in WorkerState /\ r.pc = "claimed" /\ r.served = {} /\ r.todo = {}
      /\ r.outcome = "none" /\ r.start = start /\ r.end = end
  BY <1>2 DEF WorkerState, Idle, Outcomes
<1> HIDE DEF r
<1>6. Only(w, r)
  BY <1>3, <1>5, Update DEF TypeOK
<1> QED BY <1>4, <1>5, <1>6 DEF Only, Claim

\* What an action does to the row of the schedule.
Row(is, claim, mark) ==
    /\ schedule' \in ScheduleRow
    /\ schedule'.dated = schedule.dated
    /\ schedule'.is = is /\ schedule'.claim = claim /\ schedule'.mark = mark

LEMMA ClaimRow ==
    ASSUME NEW w \in Workers, TypeOK, Claim(w)
    PROVE  Row("row", "held", schedule.mark)
BY DEF TypeOK, Claim, Claimable, Row, ScheduleRow

LEMMA ExpiresRow ==
    ASSUME TypeOK, LeaseExpires
    PROVE  Row(schedule.is, "expired", schedule.mark)
BY DEF TypeOK, LeaseExpires, Row, ScheduleRow

\* Where a run that finished leaves the mark.
NewMark(w) ==
    IF ~MovedOn(w) THEN schedule.mark ELSE IF worker[w].end # 0 THEN worker[w].end ELSE today

LEMMA FinishRow ==
    ASSUME NEW w \in Workers, TypeOK, Finish(w), schedule.is = "row"
    PROVE  Row("row", "none", NewMark(w))
<1>1. worker[w] \in WorkerState /\ today \in 0..LastDay /\ schedule \in ScheduleRow
  BY DaysAssumption DEF TypeOK
<1>2. worker[w].end \in 0..LastDay /\ schedule.mark \in 0..LastDay \cup {NoMark}
  BY <1>1 DEF WorkerState, ScheduleRow
<1>3. NewMark(w) \in 0..LastDay \cup {NoMark}
  BY <1>1, <1>2 DEF NewMark
<1> DEFINE m == NewMark(w)
<1>4. schedule' = [schedule EXCEPT !.claim = "none", !.due = FALSE, !.mark = m]
  BY DEF Finish, NewMark
<1> HIDE DEF m
<1>5. m \in 0..LastDay \cup {NoMark}
  BY <1>3 DEF m
<1>6. Row("row", "none", m)
  BY <1>1, <1>4, <1>5 DEF Row, ScheduleRow
<1> QED BY <1>6 DEF m

\* What an operator writes.
LEMMA WriteRow ==
    ASSUME NEW p \in Operators, TypeOK, Write(p)
    PROVE  \/ Row(schedule.is, schedule.claim, schedule.mark)
           \/ /\ operator[p].pc = "refetching" /\ schedule.is = "row"
              /\ Row("row", schedule.claim, operator[p].since - 1)
<1>1. operator[p] \in OperatorState /\ schedule \in ScheduleRow
  BY DEF TypeOK
<1>2. CASE schedule.is # "row"
  BY <1>1, <1>2 DEF Write, Row
<1>3. CASE schedule.is = "row" /\ operator[p].pc = "running"
  <2>1. schedule' = [schedule EXCEPT !.due = TRUE]
    BY <1>3 DEF Write
  <2> QED BY <1>1, <2>1 DEF Row, ScheduleRow
<1>4. CASE schedule.is = "row" /\ operator[p].pc = "refetching"
  <2> DEFINE m == operator[p].since - 1
  <2>1. schedule' = [schedule EXCEPT !.due = TRUE, !.mark = m]
    BY <1>4 DEF Write
  <2>2. operator[p].since \in 0..LastDay
    BY <1>1, DaysAssumption DEF OperatorState, Days
  <2>3. m \in 0..LastDay \cup {NoMark}
    BY <2>2, DaysAssumption DEF NoMark
  <2> HIDE DEF m
  <2>4. Row("row", schedule.claim, m)
    BY <1>1, <1>4, <2>1, <2>3 DEF Row, ScheduleRow
  <2> QED BY <1>4, <2>4 DEF m
<1>5. operator[p].pc \in {"running", "refetching"}
  BY <1>1 DEF Write, OperatorState
<1> QED BY <1>2, <1>3, <1>4, <1>5

LEMMA EnabledRow ==
    ASSUME NEW enabled \in BOOLEAN, TypeOK, SetEnabled(enabled)
    PROVE  Row(schedule.is, schedule.claim, schedule.mark)
BY DEF TypeOK, SetEnabled, Row, ScheduleRow

LEMMA DeleteRow ==
    ASSUME TypeOK, Delete
    PROVE  Row("gone", "none", NoMark)
BY DEF TypeOK, Delete, Row, ScheduleRow

LEMMA DueRow ==
    ASSUME TypeOK, BecomesDue
    PROVE  Row(schedule.is, schedule.claim, schedule.mark)
BY DEF TypeOK, BecomesDue, Row, ScheduleRow

-----------------------------------------------------------------------------
(* What is stored, however long a download takes. *)

USE DEF bank, documents, ledger, bounds

\* What the steps of operators, of leases and of time leave alone.
Calm ==
    /\ worker' = worker /\ schedule'.dated = schedule.dated
    /\ answered' \in {answered, {}} /\ closed' \in {closed, {}}
    /\ documents' = documents /\ published' = published
    /\ today' >= today

LEMMA TypeInit == Init => TypeOK
BY DaysAssumption DEF Init, TypeOK, ScheduleRow, WorkerState, Idle, Outcomes,
   OperatorState, AtRest, Days, NoMark

\* An operator who looked, or wrote, is still an operator.
LEMMA CheckType ==
    ASSUME NEW p \in Operators, NEW what \in OperatorState, TypeOK, Check(p, what)
    PROVE  TypeOK' /\ Calm
<1>1. operator' \in [Operators -> OperatorState]
  BY DEF TypeOK, Check
<1>2. operations' \in Nat
  BY DEF TypeOK, Check, Operates
<1>3. today \in Int
  BY DaysAssumption DEF TypeOK
<1> QED BY <1>1, <1>2, <1>3 DEF TypeOK, Check, Calm

LEMMA CalmType ==
    ASSUME TypeOK,
           \/ \E p \in Operators :
                RunNow(p) \/ Write(p) \/ \E since \in Days : Refetch(p, since)
           \/ \E enabled \in BOOLEAN : SetEnabled(enabled)
           \/ Delete \/ LeaseExpires \/ BecomesDue \/ NextDay
    PROVE  TypeOK' /\ Calm
<1>0. today \in (WindowDays + 1)..LastDay /\ schedule \in ScheduleRow
  BY DEF TypeOK
<1>1. ASSUME NEW p \in Operators, RunNow(p) PROVE TypeOK' /\ Calm
  <2>1. [pc |-> "running", since |-> 1] \in OperatorState
    BY DaysAssumption DEF OperatorState, Days
  <2> QED BY <1>1, <2>1, CheckType DEF RunNow
<1>2. ASSUME NEW p \in Operators, NEW since \in Days, Refetch(p, since) PROVE TypeOK' /\ Calm
  <2>1. [pc |-> "refetching", since |-> since] \in OperatorState
    BY DEF OperatorState
  <2> QED BY <1>2, <2>1, CheckType DEF Refetch
<1>3. ASSUME NEW p \in Operators, Write(p) PROVE TypeOK' /\ Calm
  <2>1. schedule' \in ScheduleRow /\ schedule'.dated = schedule.dated
    BY <1>3, WriteRow DEF Row
  <2>2. AtRest \in OperatorState
    BY DaysAssumption DEF AtRest, OperatorState, Days
  <2>3. operator' \in [Operators -> OperatorState]
    BY <1>3, <2>2 DEF TypeOK, Write
  <2>4. UNCHANGED <<worker, bank, documents, ledger, bounds>>
    BY <1>3 DEF Write
  <2> QED BY <1>0, <2>1, <2>3, <2>4, DaysAssumption DEF TypeOK, Calm
<1>4. ASSUME NEW enabled \in BOOLEAN, SetEnabled(enabled) PROVE TypeOK' /\ Calm
  <2>1. schedule' \in ScheduleRow /\ schedule'.dated = schedule.dated
    BY <1>4, EnabledRow DEF Row
  <2> QED BY <1>0, <1>4, <2>1, DaysAssumption DEF TypeOK, SetEnabled, Operates, Calm
<1>5. CASE Delete
  <2>1. schedule' \in ScheduleRow /\ schedule'.dated = schedule.dated
    BY <1>5, DeleteRow DEF Row
  <2> QED BY <1>0, <1>5, <2>1, DaysAssumption DEF TypeOK, Delete, Operates, Calm
<1>6. CASE LeaseExpires
  <2>1. schedule' \in ScheduleRow /\ schedule'.dated = schedule.dated
    BY <1>6, ExpiresRow DEF Row
  <2> QED BY <1>0, <1>6, <2>1, DaysAssumption DEF TypeOK, LeaseExpires, Calm
<1>7. CASE BecomesDue
  <2>1. schedule' \in ScheduleRow /\ schedule'.dated = schedule.dated
    BY <1>7, DueRow DEF Row
  <2> QED BY <1>0, <1>7, <2>1, DaysAssumption DEF TypeOK, BecomesDue, Calm
<1>8. CASE NextDay
  BY <1>0, <1>8, DaysAssumption DEF TypeOK, NextDay, Calm
<1> QED BY <1>1, <1>2, <1>3, <1>4, <1>5, <1>6, <1>7, <1>8

LEMMA PublishType ==
    ASSUME NEW doc \in Documents, TypeOK, Publish(doc)
    PROVE  TypeOK'
<1>1. today \in Days
  BY DaysAssumption DEF TypeOK, Days
<1> QED BY <1>1 DEF TypeOK, Publish

LEMMA WorksType ==
    ASSUME NEW w \in Workers, TypeOK, Claim(w) \/ Works(w) \/ WorkerLost(w)
    PROVE  TypeOK'
<1>0. worker[w] \in WorkerState
  BY DEF TypeOK
<1>1. CASE Claim(w)
  BY <1>1, ClaimOnly, ClaimRow DEF TypeOK, Claim, Row
<1>2. CASE OpenRun(w)
  <2>1. worker' \in [Workers -> WorkerState]
    BY <1>2, OpenRunGoes, RestsOnly DEF OpenRun, Goes, Only
  <2> QED BY <1>2, <2>1 DEF TypeOK, OpenRun
<1>3. CASE Ask(w)
  <2>1. worker' \in [Workers -> WorkerState]
    BY <1>3, AskGoes, EndsGoes DEF Ask, Goes, Outcomes
  <2> QED BY <1>3, <2>1 DEF TypeOK, Ask
<1>4. CASE Stores(w)
  <2>1. PICK doc \in Documents : Store(w, doc)
    BY <1>4 DEF Stores
  <2>2. worker' \in [Workers -> WorkerState]
    BY <2>1, StoreGoes DEF Goes
  <2> QED BY <2>1, <2>2 DEF TypeOK, Store
<1>5. CASE Receipt(w)
  <2>1. worker' \in [Workers -> WorkerState]
    BY <1>5, EndsGoes DEF Receipt, Goes, Outcomes
  <2>2. worker[w].served \subseteq Documents
    BY <1>0 DEF WorkerState
  <2> QED BY <1>5, <2>1, <2>2 DEF TypeOK, Receipt
<1>6. CASE Fails(w)
  <2>1. worker' \in [Workers -> WorkerState]
    BY <1>6, EndsGoes DEF Fails, Goes, Outcomes
  <2>2. worker[w].served \subseteq Documents
    BY <1>0 DEF WorkerState
  <2> QED BY <1>6, <2>1, <2>2 DEF TypeOK, Fails
<1>7. CASE Finish(w)
  <2>1. worker' \in [Workers -> WorkerState]
    BY <1>7, RestsOnly DEF Finish, Only
  <2>2. CASE schedule.is # "row"
    BY <1>7, <2>1, <2>2 DEF TypeOK, Finish
  <2>3. CASE schedule.is = "row"
    <3>1. schedule' \in ScheduleRow
      BY <1>7, <2>3, FinishRow DEF Row
    <3>2. worker[w].start \in Days /\ worker[w].end \in 0..LastDay
      BY <1>0 DEF WorkerState
    <3>3. /\ answered' \in {answered, answered \cup worker[w].start..worker[w].end}
          /\ closed' \in {closed, closed \cup worker[w].start..(worker[w].end - 1)}
      BY <1>7, <2>3 DEF Finish
    <3>4. UNCHANGED <<operator, bank, documents, bounds>>
      BY <1>7 DEF Finish
    <3>5. answered' \subseteq Days /\ closed' \subseteq Days
      BY <3>2, <3>3, DaysAssumption DEF TypeOK, Days
    <3> QED BY <2>1, <3>1, <3>4, <3>5 DEF TypeOK
  <2> QED BY <2>2, <2>3
<1>8. CASE WorkerLost(w)
  <2>1. worker' \in [Workers -> WorkerState]
    BY <1>8, RestsOnly DEF WorkerLost, Only
  <2> QED BY <1>8, <2>1 DEF TypeOK, WorkerLost
<1> QED BY <1>1, <1>2, <1>3, <1>4, <1>5, <1>6, <1>7, <1>8 DEF Works

\* The window of a run, and the days answered for, in every step of a worker.
LEMMA WorksWindow ==
    ASSUME NEW w \in Workers, TypeOK, TypeOK', WindowShape,
           Claim(w) \/ Works(w) \/ WorkerLost(w)
    PROVE  WindowShape'
<1>0. /\ worker[w] \in WorkerState /\ schedule \in ScheduleRow
      /\ today \in Nat /\ today > WindowDays /\ today' = today
      /\ schedule'.dated = schedule.dated
  <2>1. schedule'.dated = schedule.dated
    BY ClaimRow, FinishRow DEF Row, Works, OpenRun, Ask, Stores, Store, Receipt, Fails, Finish,
       WorkerLost
  <2>2. today' = today
    BY DEF Claim, Works, OpenRun, Ask, Stores, Store, Receipt, Fails, Finish, WorkerLost
  <2> QED BY <2>1, <2>2, DaysAssumption DEF TypeOK
\* Whoever is busy afterwards was busy with this window, or claimed now.
<1>1. ASSUME NEW v \in Workers, Busy(v)'
      PROVE  IF schedule.dated
             THEN worker'[v].start \in 1..worker'[v].end /\ worker'[v].end <= today
             ELSE worker'[v].start = 1 /\ worker'[v].end = 0
  <2>1. CASE Claim(w)
    <3>1. CASE v # w
      BY <1>1, <2>1, <3>1, ClaimOnly DEF Busy, WindowShape
    <3>2. CASE v = w /\ schedule.dated
      <4>1. worker'[w].start = Start /\ worker'[w].end = today
        BY <2>1, <3>2, ClaimOnly
      <4>2. schedule.mark \in 0..LastDay \cup {NoMark}
        BY <1>0 DEF ScheduleRow
      <4>3. Start \in 1..today
        BY <1>0, <4>2, DaysAssumption DEF Start, NoMark
      <4> QED BY <1>0, <3>2, <4>1, <4>3
    <3>3. CASE v = w /\ ~schedule.dated
      BY <2>1, <3>3, ClaimOnly
    <3> QED BY <3>1, <3>2, <3>3
  <2>2. CASE Works(w) \/ WorkerLost(w)
    <3>1. /\ Busy(v)
          /\ worker'[v].start = worker[v].start /\ worker'[v].end = worker[v].end
      <4>1. CASE Rests(w)
        BY <1>1, <4>1, RestsOnly DEF Only, Idle, Busy
      <4>2. CASE OpenRun(w) /\ ~Rests(w)
        BY <1>1, <4>2, OpenRunGoes DEF Goes, Busy, OpenRun
      <4>3. CASE Ask(w)
        BY <1>1, <4>3, AskGoes, EndsGoes DEF Goes, Busy, Ask, Outcomes
      <4>4. CASE Stores(w)
        BY <1>1, <4>4, StoreGoes DEF Goes, Busy, Store, Stores
      <4>5. CASE Receipt(w)
        BY <1>1, <4>5, EndsGoes DEF Goes, Busy, Receipt, Outcomes
      <4>6. CASE Fails(w)
        BY <1>1, <4>6, EndsGoes DEF Goes, Busy, Fails, Outcomes
      <4> QED BY <2>2, <4>1, <4>2, <4>3, <4>4, <4>5, <4>6 DEF Works, Finish, WorkerLost
    <3> QED BY <3>1 DEF WindowShape
  <2> QED BY <2>1, <2>2
\* The days answered for.
<1>2. (~schedule.dated => answered' = {}) /\ closed' \subseteq 1..(today - 1)
  <2>1. CASE Finish(w) /\ schedule.is = "row" /\ MovedOn(w)
    <3>1. worker[w].start \in Nat /\ worker[w].end \in Nat
      BY <1>0, DaysAssumption DEF WorkerState, Days
    <3>2. /\ answered' = answered \cup worker[w].start..worker[w].end
          /\ closed' = closed \cup worker[w].start..(worker[w].end - 1)
      BY <2>1 DEF Finish
    <3>3. IF schedule.dated
          THEN worker[w].start \in 1..worker[w].end /\ worker[w].end <= today
          ELSE worker[w].start = 1 /\ worker[w].end = 0
      BY <2>1 DEF WindowShape, Finish, Busy
    <3>4. worker[w].start..(worker[w].end - 1) \subseteq 1..(today - 1)
      BY <1>0, <3>1, <3>3
    <3>5. ~schedule.dated => worker[w].start..worker[w].end = {}
      BY <3>3
    <3> QED BY <3>2, <3>4, <3>5 DEF WindowShape
  <2>2. CASE ~(Finish(w) /\ schedule.is = "row" /\ MovedOn(w))
    <3>1. answered' = answered /\ closed' = closed
      BY <2>2 DEF Claim, Works, OpenRun, Ask, Stores, Store, Receipt, Fails, Finish, WorkerLost
    <3> QED BY <3>1 DEF WindowShape
  <2> QED BY <2>1, <2>2
<1> QED BY <1>0, <1>1, <1>2 DEF WindowShape, Busy

\* What a worker holds, stores and acknowledges.
LEMMA WorksStored ==
    ASSUME NEW w \in Workers, TypeOK, WindowShape, StoredFirst, AnswerStands,
           AckedIsStored, AnsweredIsStored, Claim(w) \/ Works(w) \/ WorkerLost(w)
    PROVE  StoredFirst' /\ AnswerStands' /\ AckedIsStored' /\ AnsweredIsStored'
<1>0. worker[w] \in WorkerState
  BY DEF TypeOK
<1> USE DEF Busy, HasAnswer, FINISHED
<1>1. CASE Claim(w)
  <2>1. UNCHANGED <<bank, documents, ledger>>
    BY <1>1 DEF Claim
  <2>2. StoredFirst'
    BY <1>1, <2>1, ClaimOnly DEF StoredFirst
  <2>3. AnswerStands'
    BY <1>1, <2>1, ClaimOnly DEF AnswerStands
  <2> QED BY <2>1, <2>2, <2>3 DEF AckedIsStored, AnsweredIsStored
<1>2. CASE Rests(w) /\ UNCHANGED <<bank, documents, ledger>>
  <2>1. Only(w, Idle) /\ Idle.pc = "idle"
    BY <1>2, RestsOnly DEF Idle
  <2>2. StoredFirst'
    BY <1>2, <2>1 DEF StoredFirst, Only
  <2>3. AnswerStands'
    BY <1>2, <2>1 DEF AnswerStands, Only
  <2> QED BY <1>2, <2>2, <2>3 DEF AckedIsStored, AnsweredIsStored
<1>3. CASE OpenRun(w) /\ schedule.is = "row"
  <2>1. Goes(w, "running", worker[w].served, worker[w].todo, worker[w].outcome)
    BY <1>3, OpenRunGoes
  <2>2. UNCHANGED <<bank, documents, ledger>> /\ worker[w].pc = "claimed"
    BY <1>3 DEF OpenRun
  <2>3. StoredFirst'
    BY <2>1, <2>2 DEF StoredFirst, Goes
  <2>4. AnswerStands'
    BY <2>1, <2>2 DEF AnswerStands, Goes
  <2> QED BY <2>2, <2>3, <2>4 DEF AckedIsStored, AnsweredIsStored
<1>4. CASE Ask(w) /\ Serves(w) # {}
  <2>1. Goes(w, "storing", Serves(w), Serves(w), worker[w].outcome)
    BY <1>4, AskGoes
  <2>2. UNCHANGED <<bank, documents, ledger>> /\ worker[w].pc = "running"
    BY <1>4 DEF Ask
  <2>3. StoredFirst'
    BY <2>1, <2>2 DEF StoredFirst, Goes
  <2>4. ASSUME NEW doc \in Documents \ Unreadable,
               published[doc] \in worker[w].start..(worker[w].end - 1)
        PROVE  doc \in Serves(w)
    <3>1. worker[w].start \in Nat /\ worker[w].end \in Nat /\ worker[w].start >= 1
      BY <1>0, DaysAssumption DEF WorkerState, Days
    <3>2. schedule.dated
      BY <2>2, <2>4, <3>1 DEF WindowShape
    <3> QED BY <2>4, <3>1, <3>2 DEF Serves
  <2>5. AnswerStands'
    BY <2>1, <2>2, <2>4 DEF AnswerStands, Goes
  <2> QED BY <2>2, <2>3, <2>5 DEF AckedIsStored, AnsweredIsStored
<1>5. CASE Ask(w) /\ Serves(w) = {}
  <2>1. Goes(w, "ending", worker[w].served, worker[w].todo, "empty")
    BY <1>5, EndsGoes DEF Ask, Outcomes
  <2>2. UNCHANGED <<bank, documents, ledger>> /\ worker[w].pc = "running"
    BY <1>5 DEF Ask
  <2>3. StoredFirst'
    BY <2>1, <2>2 DEF StoredFirst, Goes
  <2>4. ASSUME NEW doc \in Documents \ Unreadable,
               published[doc] \in worker[w].start..(worker[w].end - 1)
        PROVE  FALSE
    <3>1. worker[w].start \in Nat /\ worker[w].end \in Nat /\ worker[w].start >= 1
      BY <1>0, DaysAssumption DEF WorkerState, Days
    <3>2. schedule.dated
      BY <2>2, <2>4, <3>1 DEF WindowShape
    <3>3. doc \in Serves(w)
      BY <2>4, <3>1, <3>2 DEF Serves
    <3> QED BY <1>5, <3>3
  <2>5. AnswerStands'
    BY <2>1, <2>2, <2>4 DEF AnswerStands, Goes
  <2> QED BY <2>2, <2>3, <2>5 DEF AckedIsStored, AnsweredIsStored
<1>6. ASSUME NEW doc \in Documents, Store(w, doc)
      PROVE  StoredFirst' /\ AnswerStands' /\ AckedIsStored' /\ AnsweredIsStored'
  <2>1. Goes(w, "storing", worker[w].served, worker[w].todo \ {doc}, worker[w].outcome)
    BY <1>6, StoreGoes
  <2>2. /\ UNCHANGED <<bank, acked, ledger>> /\ worker[w].pc = "storing"
        /\ stored \subseteq stored' /\ doc \in stored' \cup Unreadable
    BY <1>6 DEF Store
  <2>3. StoredFirst'
    BY <2>1, <2>2 DEF StoredFirst, Goes
  <2>4. AnswerStands'
    BY <2>1, <2>2 DEF AnswerStands, Goes
  <2> QED BY <2>2, <2>3, <2>4 DEF AckedIsStored, AnsweredIsStored
<1>7. CASE Receipt(w)
  <2>1. Goes(w, "ending", worker[w].served, worker[w].todo, "complete")
    BY <1>7, EndsGoes DEF Receipt, Outcomes
  <2>2. /\ UNCHANGED <<bank, stored, ledger>> /\ worker[w].pc = "storing"
        /\ worker[w].todo = {} /\ acked' \subseteq acked \cup worker[w].served
    BY <1>7 DEF Receipt
  <2>3. StoredFirst'
    BY <2>1, <2>2 DEF StoredFirst, Goes
  <2>4. AnswerStands'
    BY <2>1, <2>2 DEF AnswerStands, Goes
  <2>5. AckedIsStored'
    BY <2>2 DEF AckedIsStored, StoredFirst
  <2> QED BY <2>2, <2>3, <2>4, <2>5 DEF AnsweredIsStored
<1>8. CASE Fails(w)
  <2>1. Goes(w, "ending", worker[w].served, worker[w].todo, "failed")
    BY <1>8, EndsGoes DEF Fails, Outcomes
  <2>2. /\ UNCHANGED <<bank, stored, ledger>> /\ worker[w].pc \in {"running", "storing"}
        /\ \/ acked' = acked
           \/ worker[w].todo = {} /\ acked' = acked \cup worker[w].served
    BY <1>8 DEF Fails
  <2>3. StoredFirst'
    BY <2>1, <2>2 DEF StoredFirst, Goes
  <2>4. AnswerStands'
    BY <2>1, <2>2 DEF AnswerStands, Goes
  <2>5. AckedIsStored'
    BY <2>2 DEF AckedIsStored, StoredFirst
  <2> QED BY <2>2, <2>3, <2>4, <2>5 DEF AnsweredIsStored
<1>9. CASE Finish(w) /\ ~UNCHANGED ledger
  <2>1. Only(w, Idle) /\ Idle.pc = "idle"
    BY <1>9, RestsOnly DEF Idle, Finish
  <2>2. /\ UNCHANGED <<bank, documents>> /\ worker[w].pc = "ending"
        /\ worker[w].outcome \in FINISHED
        /\ closed' = closed \cup worker[w].start..(worker[w].end - 1)
    BY <1>9 DEF Finish, MovedOn
  <2>3. StoredFirst'
    BY <2>1, <2>2 DEF StoredFirst, Only
  <2>4. AnswerStands'
    BY <2>1, <2>2 DEF AnswerStands, Only
  <2>5. worker[w].todo = {}
    BY <2>2 DEF AnswerStands
  <2>6. AnsweredIsStored'
    BY <2>2, <2>5 DEF AnsweredIsStored, AnswerStands
  <2> QED BY <2>2, <2>3, <2>4, <2>6 DEF AckedIsStored
<1>10. ASSUME OpenRun(w) \/ Finish(w) \/ WorkerLost(w),
              ~(OpenRun(w) /\ schedule.is = "row"), ~(Finish(w) /\ ~UNCHANGED ledger)
       PROVE  Rests(w) /\ UNCHANGED <<bank, documents, ledger>>
  BY <1>10 DEF OpenRun, Finish, WorkerLost
<1>11. CASE OpenRun(w) \/ Finish(w) \/ WorkerLost(w)
  BY <1>2, <1>3, <1>9, <1>10, <1>11
<1>12. CASE Ask(w)
  BY <1>4, <1>5, <1>12
<1>13. CASE Stores(w)
  BY <1>6, <1>13 DEF Stores
<1> QED BY <1>1, <1>7, <1>8, <1>11, <1>12, <1>13 DEF Works

\* Time, leases and operators leave it as it is.
LEMMA CalmStored ==
    ASSUME StorageInv, TypeOK', Calm
    PROVE  StorageInv'
<1>0. TypeOK /\ today \in Nat /\ today' \in Nat /\ today' >= today
  BY DaysAssumption DEF TypeOK, StorageInv, Calm
<1>1. WindowShape'
  <2>1. \A w \in Workers : worker[w].end \in Nat
    BY <1>0, DaysAssumption DEF TypeOK, WorkerState
  <2>2. closed' \subseteq 1..(today' - 1)
    BY <1>0 DEF StorageInv, WindowShape, Calm
  <2>3. \A w \in Workers : worker[w].end <= today => worker[w].end <= today'
    BY <1>0, <2>1
  <2> QED BY <2>2, <2>3 DEF StorageInv, WindowShape, Calm, Busy
<1>2. StoredFirst' /\ AnswerStands'
  BY DEF StorageInv, Calm, StoredFirst, AnswerStands, Busy, HasAnswer
<1>3. AckedIsStored' /\ AnsweredIsStored'
  BY DEF StorageInv, Calm, AckedIsStored, AnsweredIsStored
<1> QED BY <1>1, <1>2, <1>3 DEF StorageInv

\* What is published now is of no day that was over when anybody asked.
LEMMA PublishStored ==
    ASSUME NEW doc \in Documents, StorageInv, TypeOK', Publish(doc)
    PROVE  StorageInv'
<1>0. /\ TypeOK /\ today \in Nat /\ published' = [published EXCEPT ![doc] = today]
      /\ UNCHANGED <<schedule, worker, operator, today, documents, ledger, bounds>>
      /\ \A d \in Documents : d # doc => published'[d] = published[d]
      /\ published'[doc] = today
  BY DaysAssumption DEF TypeOK, StorageInv, Publish
<1>1. WindowShape' /\ StoredFirst' /\ AckedIsStored'
  BY <1>0 DEF StorageInv, WindowShape, StoredFirst, AckedIsStored, Busy
<1>2. AnsweredIsStored'
  BY <1>0 DEF StorageInv, WindowShape, AnsweredIsStored
<1>3. ASSUME NEW w \in Workers, Busy(w)
      PROVE  today \notin worker[w].start..(worker[w].end - 1)
  <2>1. worker[w].start \in Nat /\ worker[w].end \in Nat
    BY <1>0, DaysAssumption DEF TypeOK, WorkerState, Days
  <2> QED BY <1>0, <1>3, <2>1 DEF StorageInv, WindowShape
<1>4. AnswerStands'
  BY <1>0, <1>3 DEF StorageInv, AnswerStands, Busy, HasAnswer
<1> QED BY <1>1, <1>2, <1>4 DEF StorageInv

\* Every step is one of a worker, of the bank, or a calm one.
LEMMA Steps ==
    ASSUME StorageInv, [Next]_vars
    PROVE  /\ TypeOK'
           /\ \/ \E w \in Workers : Claim(w) \/ Works(w) \/ WorkerLost(w)
              \/ \E doc \in Documents : Publish(doc)
              \/ Calm
<1>0. TypeOK
  BY DEF StorageInv
<1>1. CASE \E w \in Workers : Claim(w) \/ Works(w) \/ WorkerLost(w)
  BY <1>0, <1>1, WorksType
<1>2. CASE \E doc \in Documents : Publish(doc)
  BY <1>0, <1>2, PublishType
<1>3. CASE \/ \E p \in Operators :
                RunNow(p) \/ Write(p) \/ \E since \in Days : Refetch(p, since)
           \/ \E enabled \in BOOLEAN : SetEnabled(enabled)
           \/ Delete \/ LeaseExpires \/ BecomesDue \/ NextDay
  BY <1>0, <1>3, CalmType
<1>4. CASE UNCHANGED vars
  <2>1. today \in Int
    BY <1>0, DaysAssumption DEF TypeOK
  <2> QED BY <1>0, <1>4, <2>1 DEF vars, TypeOK, Calm
<1> QED BY <1>1, <1>2, <1>3, <1>4 DEF Next

LEMMA StorageInit == Init => StorageInv
<1> SUFFICES ASSUME Init PROVE StorageInv
  OBVIOUS
<1>1. \A w \in Workers : ~Busy(w)
  BY DEF Init, Busy, Idle
<1>2. schedule.dated \in BOOLEAN /\ answered = {} /\ closed = {} /\ acked = {}
  BY DEF Init
<1> QED BY <1>1, <1>2, TypeInit
        DEF StorageInv, WindowShape, StoredFirst, AnswerStands, AckedIsStored, AnsweredIsStored

LEMMA StorageNext == StorageInv /\ [Next]_vars => StorageInv'
<1> SUFFICES ASSUME StorageInv, [Next]_vars PROVE StorageInv'
  OBVIOUS
<1>1. TypeOK'
  BY Steps
<1>2. ASSUME NEW w \in Workers, Claim(w) \/ Works(w) \/ WorkerLost(w) PROVE StorageInv'
  BY <1>1, <1>2, WorksWindow, WorksStored DEF StorageInv
<1>3. ASSUME NEW doc \in Documents, Publish(doc) PROVE StorageInv'
  BY <1>1, <1>3, PublishStored
<1>4. CASE Calm
  BY <1>1, <1>4, CalmStored
<1> QED BY <1>2, <1>3, <1>4, Steps

\* The rows have their types, windows end by today, and workers hold what the
\* bank served them, whoever runs and for how long.
THEOREM StorageHolds == Spec => []StorageInv
<1>1. StorageInv /\ [Next]_vars => StorageInv'
  BY StorageNext
<1> QED BY <1>1, StorageInit, PTL DEF Spec

\* No document is acknowledged before it is stored: a receipt follows the
\* storing in DownloadWorker._download, also of two workers on one schedule.
THEOREM AckedIsStoredHolds == Spec => []AckedIsStored
<1>1. StorageInv => AckedIsStored
  BY DEF StorageInv
<1> QED BY <1>1, StorageHolds, PTL

\* A day that was over when the bank answered for it is a day whose documents
\* are stored, whatever failed, crashed or was done twice.
THEOREM AnsweredIsStoredHolds == Spec => []AnsweredIsStored
<1>1. StorageInv => AnsweredIsStored
  BY DEF StorageInv
<1> QED BY <1>1, StorageHolds, PTL

-----------------------------------------------------------------------------
(* What is asked for, while no download outlives its lease and nobody asks *)
(* for days ahead of the mark.                                             *)

LEMMA Nearer ==
    ASSUME TypeOK, NEW day \in Int, NEW nearer \in Int, nearer <= day, AnsweredTo(day)
    PROVE  AnsweredTo(nearer)
<1>1. answered \subseteq Int
  BY DaysAssumption DEF TypeOK, Days
<1> QED BY <1>1 DEF AnsweredTo

\* Nothing that matters to the windows changes.
Same ==
    /\ Row(schedule.is, schedule.claim, schedule.mark)
    /\ UNCHANGED <<operator, today, answered>>

\* Every worker is where it was, or has come to rest.
LEMMA SameWindow ==
    ASSUME DownloadInv, Same,
           \A w \in Workers : Busy(w)' =>
                Busy(w) /\ worker'[w].start = worker[w].start /\ worker'[w].end = worker[w].end
    PROVE  ClaimStands' /\ WindowStands' /\ NoGap'
<1>1. ClaimStands'
  BY DEF DownloadInv, ClaimStands, Same, Row
<1>2. WindowStands'
  BY DEF DownloadInv, WindowStands, Same, Row, AnsweredTo
<1>3. NoGap'
  BY DEF DownloadInv, NoGap, Same, Row, AnsweredTo
<1> QED BY <1>1, <1>2, <1>3

\* A run starts on the day after the mark at the latest.
LEMMA ClaimWindow ==
    ASSUME NEW w \in Workers, DownloadInv, Claim(w)
    PROVE  ClaimStands' /\ WindowStands' /\ NoGap'
<1>0. /\ TypeOK /\ WindowShape /\ schedule \in ScheduleRow /\ today \in Nat
      /\ schedule.is = "row" /\ schedule.claim # "held"
      /\ UNCHANGED <<operator, today, answered>>
      /\ Row("row", "held", schedule.mark)
  <2>1. TypeOK /\ WindowShape
    BY DEF DownloadInv, StorageInv
  <2>2. Row("row", "held", schedule.mark)
    BY <2>1, ClaimRow
  <2>3. /\ schedule.is = "row" /\ schedule.claim # "held"
        /\ UNCHANGED <<operator, today, answered>>
    BY DEF Claim, Claimable
  <2>4. schedule \in ScheduleRow /\ today \in Nat
    BY <2>1, DaysAssumption DEF TypeOK
  <2> QED BY <2>1, <2>2, <2>3, <2>4
<1>1. \A v \in Workers : ~Busy(v)
  BY <1>0 DEF DownloadInv, ClaimStands
<1>2. \A v \in Workers : Busy(v)' => v = w
  BY <1>0, <1>1, ClaimOnly DEF Busy
<1>3. ClaimStands'
  BY <1>0, <1>2 DEF ClaimStands, Row
<1>4. AnsweredTo(worker'[w].start - 1)
  <2>1. CASE ~schedule.dated \/ schedule.mark = NoMark
    <3>1. answered = {}
      BY <1>0, <2>1 DEF DownloadInv, WindowStands, WindowShape
    <3> QED BY <3>1 DEF AnsweredTo
  <2>2. CASE schedule.dated /\ schedule.mark # NoMark
    <3>1. schedule.mark \in Nat
      BY <1>0, <2>2, DaysAssumption DEF ScheduleRow
    <3>2. worker'[w].start = Start
      BY <1>0, <2>2, ClaimOnly
    <3>3. Start \in Int /\ Start - 1 <= schedule.mark
      BY <1>0, <2>2, <3>1 DEF Start
    <3>4. AnsweredTo(schedule.mark)
      BY <2>2 DEF DownloadInv, NoGap
    <3> QED BY <1>0, <3>1, <3>2, <3>3, <3>4, Nearer
  <2> QED BY <2>1, <2>2
<1>5. \A p \in Operators : operator[p].pc = "refetching" => operator[p].since <= worker'[w].end
  BY <1>0, ClaimOnly DEF DownloadInv, WindowStands
<1>6. WindowStands'
  BY <1>0, <1>2, <1>4, <1>5 DEF DownloadInv, WindowStands, Row, AnsweredTo
<1>7. NoGap'
  BY <1>0 DEF DownloadInv, NoGap, Row, AnsweredTo
<1> QED BY <1>3, <1>6, <1>7

\* A run that finished answered for its window, which goes on from the answers
\* there were; one that did not leaves everything where it was.
LEMMA FinishWindow ==
    ASSUME NEW w \in Workers, DownloadInv, Finish(w), schedule.is = "row"
    PROVE  ClaimStands' /\ WindowStands' /\ NoGap'
<1> DEFINE start == worker[w].start
           end == worker[w].end
<1>0. /\ TypeOK /\ WindowShape /\ schedule \in ScheduleRow /\ today \in Nat
      /\ start \in Nat /\ end \in Nat /\ answered \subseteq Nat /\ Busy(w)
      /\ UNCHANGED <<operator, today>>
      /\ Row("row", "none", NewMark(w))
      /\ \A p \in Operators : operator[p] \in OperatorState
  <2>1. TypeOK /\ WindowShape
    BY DEF DownloadInv, StorageInv
  <2>2. Row("row", "none", NewMark(w))
    BY <2>1, FinishRow
  <2>3. Busy(w) /\ UNCHANGED <<operator, today>>
    BY DEF Finish, Busy
  <2>4. /\ schedule \in ScheduleRow /\ today \in Nat /\ answered \subseteq Nat
        /\ \A p \in Operators : operator[p] \in OperatorState
        /\ worker[w] \in WorkerState
    BY <2>1, DaysAssumption DEF TypeOK, Days
  <2>5. start \in Nat /\ end \in Nat
    BY <2>4, DaysAssumption DEF WorkerState, Days
  <2> QED BY <2>1, <2>2, <2>3, <2>4, <2>5
<1>1. \A v \in Workers : ~Busy(v)'
  <2>1. \A v \in Workers : Busy(v) => v = w
    BY <1>0 DEF DownloadInv, ClaimStands
  <2>2. Only(w, Idle) /\ Idle.pc = "idle"
    BY <1>0, RestsOnly DEF Finish, Idle
  <2> QED BY <2>1, <2>2 DEF Only, Busy
<1>2. ClaimStands'
  BY <1>1 DEF ClaimStands
<1>3. CASE ~MovedOn(w)
  <2>1. answered' = answered /\ schedule'.mark = schedule.mark /\ schedule'.dated = schedule.dated
    BY <1>0, <1>3 DEF Finish, NewMark, Row
  <2> QED BY <1>0, <1>1, <1>2, <2>1 DEF DownloadInv, WindowStands, NoGap, AnsweredTo
<1>4. CASE MovedOn(w) /\ ~schedule.dated
  <2>1. answered = {} /\ start = 1 /\ end = 0
    BY <1>0, <1>4 DEF WindowShape
  <2>2. answered' = answered \cup start..end
    BY <1>4 DEF Finish
  <2>3. answered' = {} /\ schedule'.dated = schedule.dated
    BY <1>0, <2>1, <2>2 DEF Row
  <2> QED BY <1>0, <1>1, <1>2, <1>4, <2>3 DEF DownloadInv, WindowStands, NoGap, AnsweredTo
<1>5. CASE MovedOn(w) /\ schedule.dated
  <2>1. start \in 1..end
    BY <1>0, <1>5 DEF WindowShape
  <2>2. answered' = answered \cup start..end
    BY <1>5 DEF Finish
  <2>3. schedule'.mark = end /\ schedule'.dated = schedule.dated /\ end # NoMark
    BY <1>0, <1>5, <2>1 DEF NewMark, Row, NoMark
  <2>4. AnsweredTo(start - 1)
    BY <1>0 DEF DownloadInv, WindowStands
  \* Days up to the last of the window have been answered for.
  <2>5. ASSUME NEW day \in Int, day <= end, day = end \/ AnsweredTo(day)
        PROVE  AnsweredTo(day)'
    <3> SUFFICES ASSUME NEW first \in answered', NEW d \in first..day PROVE d \in answered'
      BY DEF AnsweredTo
    <3>1. first \in Nat
      BY <1>0, <2>2
    <3>2. CASE first \in start..end
      BY <1>0, <2>2, <2>5, <3>1, <3>2
    <3>3. CASE first \in answered
      <4>1. CASE d < start
        BY <1>0, <2>2, <2>4, <3>1, <3>3, <4>1 DEF AnsweredTo
      <4>2. CASE d >= start
        BY <1>0, <2>2, <2>5, <3>1, <4>2
      <4> QED BY <1>0, <3>1, <4>1, <4>2
    <3> QED BY <2>2, <3>2, <3>3
  <2>6. NoGap'
    BY <1>0, <2>3, <2>5 DEF NoGap, AnsweredTo
  <2>7. ASSUME NEW p \in Operators, operator[p].pc = "refetching"
        PROVE  AnsweredTo(operator[p].since - 1)'
    <3>1. operator[p].since \in Int
      BY <1>0, DaysAssumption DEF OperatorState, Days
    <3>2. AnsweredTo(operator[p].since - 1) /\ operator[p].since <= end
      BY <1>0, <2>7 DEF DownloadInv, WindowStands
    <3> QED BY <1>0, <2>5, <3>1, <3>2 DEF AnsweredTo
  <2>8. WindowStands'
    BY <1>0, <1>1, <2>3, <2>7 DEF DownloadInv, WindowStands
  <2> QED BY <1>2, <2>6, <2>8
<1> QED BY <1>3, <1>4, <1>5

\* The other steps of a worker.
LEMMA WorksWindows ==
    ASSUME NEW w \in Workers, DownloadInv, Claim(w) \/ Works(w) \/ WorkerLost(w)
    PROVE  ClaimStands' /\ WindowStands' /\ NoGap'
<1>0. TypeOK /\ schedule \in ScheduleRow
  BY DEF DownloadInv, StorageInv, TypeOK
<1>1. CASE Claim(w)
  BY <1>1, ClaimWindow
<1>2. CASE Finish(w) /\ schedule.is = "row"
  BY <1>2, FinishWindow
<1>3. CASE ~Claim(w) /\ ~(Finish(w) /\ schedule.is = "row")
  <2>1. UNCHANGED <<schedule, operator, today, answered>>
    BY <1>3 DEF Works, OpenRun, Ask, Stores, Store, Receipt, Fails, Finish, WorkerLost
  <2>2. Same
    BY <1>0, <2>1 DEF Same, Row
  <2>3. ASSUME NEW v \in Workers, Busy(v)'
        PROVE  /\ Busy(v) /\ worker'[v].start = worker[v].start
               /\ worker'[v].end = worker[v].end
    <3>1. CASE Rests(w)
      BY <1>0, <2>3, <3>1, RestsOnly DEF Only, Idle, Busy
    <3>2. CASE OpenRun(w) /\ ~Rests(w)
      BY <1>0, <2>3, <3>2, OpenRunGoes DEF Goes, Busy, OpenRun
    <3>3. CASE Ask(w)
      BY <1>0, <2>3, <3>3, AskGoes, EndsGoes DEF Goes, Busy, Ask, Outcomes
    <3>4. CASE Stores(w)
      BY <1>0, <2>3, <3>4, StoreGoes DEF Goes, Busy, Store, Stores
    <3>5. CASE Receipt(w)
      BY <1>0, <2>3, <3>5, EndsGoes DEF Goes, Busy, Receipt, Outcomes
    <3>6. CASE Fails(w)
      BY <1>0, <2>3, <3>6, EndsGoes DEF Goes, Busy, Fails, Outcomes
    <3> QED BY <1>3, <3>1, <3>2, <3>3, <3>4, <3>5, <3>6 DEF Works, Finish, WorkerLost
  <2> QED BY <2>2, <2>3, SameWindow
<1> QED BY <1>1, <1>2, <1>3

\* An operator who looks finds nobody at work, and the mark he asks behind.
LEMMA CheckWindows ==
    ASSUME RefetchBehindMark, DownloadInv, NEW p \in Operators,
           RunNow(p) \/ \E since \in Days : Refetch(p, since)
    PROVE  ClaimStands' /\ WindowStands' /\ NoGap'
<1>0. /\ schedule.is = "row" /\ schedule.claim = "none"
      /\ UNCHANGED <<schedule, worker, today, answered>>
  BY DEF RunNow, Refetch, Check
<1>1. \A w \in Workers : ~Busy(w)
  BY <1>0 DEF DownloadInv, ClaimStands
<1>2. TypeOK /\ schedule.mark \in Nat \cup {NoMark} /\ operator \in [Operators -> OperatorState]
  BY DaysAssumption DEF DownloadInv, StorageInv, TypeOK, ScheduleRow
<1>3. ClaimStands' /\ NoGap'
  BY <1>0, <1>1 DEF ClaimStands, DownloadInv, NoGap, Busy, AnsweredTo
<1>4. CASE RunNow(p)
  <2>1. operator' = [operator EXCEPT ![p] = [pc |-> "running", since |-> 1]]
    BY <1>4 DEF RunNow, Check
  <2>2. \A q \in Operators : operator'[q].pc = "refetching" => operator'[q] = operator[q]
    BY <1>2, <2>1
  <2>3. WindowStands'
    BY <1>0, <1>1, <2>2 DEF DownloadInv, WindowStands, Busy, AnsweredTo
  <2> QED BY <1>3, <2>3
<1>5. ASSUME NEW since \in Days, Refetch(p, since) PROVE WindowStands'
  <2>1. /\ operator' = [operator EXCEPT ![p] = [pc |-> "refetching", since |-> since]]
        /\ schedule.dated /\ since <= today
        /\ schedule.mark # NoMark => since <= schedule.mark + 1
    BY <1>5 DEF Refetch, Check
  <2>2. AnsweredTo(since - 1)
    <3>1. CASE schedule.mark = NoMark
      <4>1. answered = {}
        BY <3>1 DEF DownloadInv, WindowStands
      <4> QED BY <4>1 DEF AnsweredTo
    <3>2. CASE schedule.mark # NoMark
      <4>1. AnsweredTo(schedule.mark)
        BY <3>2 DEF DownloadInv, NoGap
      <4>2. schedule.mark \in Nat /\ since \in Nat /\ since - 1 <= schedule.mark
        BY <1>2, <2>1, <3>2, DaysAssumption DEF Days
      <4> QED BY <1>2, <4>1, <4>2, Nearer
    <3> QED BY <3>1, <3>2
  <2>3. operator'[p].since = since /\ \A q \in Operators : q # p => operator'[q] = operator[q]
    BY <1>2, <2>1
  <2>4. ASSUME NEW q \in Operators, operator'[q].pc = "refetching"
        PROVE  /\ schedule.dated /\ operator'[q].since <= today
               /\ AnsweredTo(operator'[q].since - 1)
    <3>1. CASE q = p
      BY <2>1, <2>2, <2>3, <3>1
    <3>2. CASE q # p
      BY <2>3, <2>4, <3>2 DEF DownloadInv, WindowStands
    <3> QED BY <3>1, <3>2
  <2> QED BY <1>0, <1>1, <2>4 DEF DownloadInv, WindowStands, Busy, AnsweredTo
<1> QED BY <1>3, <1>4, <1>5

\* What the operator then writes takes the mark to where the answers reach.
LEMMA WriteWindows ==
    ASSUME DownloadInv, NEW p \in Operators, Write(p)
    PROVE  ClaimStands' /\ WindowStands' /\ NoGap'
<1>0. /\ TypeOK /\ operator \in [Operators -> OperatorState]
      /\ operator' = [operator EXCEPT ![p] = AtRest]
      /\ UNCHANGED <<worker, today, answered>>
  BY DEF DownloadInv, StorageInv, TypeOK, Write
<1>1. \A q \in Operators : operator'[q].pc = "refetching" => operator'[q] = operator[q]
  BY <1>0 DEF AtRest
<1>2. CASE Row(schedule.is, schedule.claim, schedule.mark)
  BY <1>0, <1>1, <1>2
     DEF DownloadInv, ClaimStands, WindowStands, NoGap, Row, Busy, AnsweredTo
<1>3. CASE /\ operator[p].pc = "refetching" /\ schedule.is = "row"
           /\ Row("row", schedule.claim, operator[p].since - 1)
  <2>1. AnsweredTo(operator[p].since - 1)
    BY <1>3 DEF DownloadInv, WindowStands
  <2>2. operator[p].since - 1 # NoMark
    BY <1>0, DaysAssumption DEF OperatorState, Days, NoMark
  <2>3. ClaimStands'
    BY <1>0, <1>3 DEF DownloadInv, ClaimStands, Row, Busy
  <2>4. WindowStands'
    BY <1>0, <1>1, <1>3, <2>2 DEF DownloadInv, WindowStands, Row, Busy, AnsweredTo
  <2>5. NoGap'
    BY <1>0, <1>3, <2>1 DEF NoGap, Row, AnsweredTo
  <2> QED BY <2>3, <2>4, <2>5
<1> QED BY <1>0, <1>2, <1>3, WriteRow

\* Leases, time, the bank, and what else operators do.
Others ==
    \/ \E enabled \in BOOLEAN : SetEnabled(enabled)
    \/ Delete \/ LeaseExpires \/ BecomesDue \/ NextDay
    \/ \E doc \in Documents : Publish(doc)
    \/ UNCHANGED vars

LEMMA OtherWindows ==
    ASSUME LeaseOutlivesDownload, DownloadInv, Others
    PROVE  ClaimStands' /\ WindowStands' /\ NoGap'
<1>0. TypeOK /\ schedule \in ScheduleRow
  BY DEF DownloadInv, StorageInv, TypeOK
<1>1. ASSUME Same, worker' = worker PROVE ClaimStands' /\ WindowStands' /\ NoGap'
  BY <1>1, SameWindow DEF Busy
<1>2. ASSUME NEW enabled \in BOOLEAN, SetEnabled(enabled) PROVE Same /\ worker' = worker
  BY <1>0, <1>2, EnabledRow DEF SetEnabled, Same
<1>3. CASE BecomesDue
  BY <1>0, <1>1, <1>3, DueRow DEF BecomesDue, Same
<1>4. ASSUME NEW doc \in Documents, Publish(doc) PROVE Same /\ worker' = worker
  BY <1>0, <1>4 DEF Publish, Same, Row
<1>5. CASE UNCHANGED vars
  BY <1>0, <1>1, <1>5 DEF vars, Same, Row
<1>6. CASE Delete
  <2>1. Row("gone", "none", NoMark) /\ schedule'.dated = schedule.dated
    BY <1>0, <1>6, DeleteRow DEF Row
  <2>2. answered' = {} /\ UNCHANGED <<worker, operator, today>>
    BY <1>6 DEF Delete
  <2>3. ClaimStands'
    BY <2>1, <2>2 DEF DownloadInv, ClaimStands, Row, Busy
  <2>4. WindowStands'
    BY <2>1, <2>2 DEF DownloadInv, WindowStands, Row, Busy, AnsweredTo
  <2> QED BY <2>1, <2>2, <2>3, <2>4 DEF NoGap, Row
<1>7. CASE LeaseExpires
  <2>1. Row(schedule.is, "expired", schedule.mark)
    BY <1>0, <1>7, ExpiresRow
  <2>2. /\ UNCHANGED <<worker, operator, today, answered>>
        /\ \A w \in Workers : ~Busy(w)
    BY <1>7 DEF LeaseExpires, Busy
  <2>3. ClaimStands'
    BY <2>2 DEF ClaimStands, Busy
  <2>4. WindowStands' /\ NoGap'
    BY <2>1, <2>2 DEF DownloadInv, WindowStands, NoGap, Row, Busy, AnsweredTo
  <2> QED BY <2>3, <2>4
<1>8. CASE NextDay
  <2>1. UNCHANGED <<schedule, worker, operator, answered>> /\ today' = today + 1
    BY <1>8 DEF NextDay
  <2>2. \A p \in Operators : operator[p].since <= today => operator[p].since <= today'
    BY <1>0, <2>1, DaysAssumption DEF TypeOK, OperatorState, Days
  <2>3. ClaimStands' /\ NoGap'
    BY <2>1 DEF DownloadInv, ClaimStands, NoGap, Busy, AnsweredTo
  <2>4. WindowStands'
    BY <2>1, <2>2 DEF DownloadInv, WindowStands, Busy, AnsweredTo
  <2> QED BY <2>3, <2>4
<1> QED BY <1>1, <1>2, <1>3, <1>4, <1>5, <1>6, <1>7, <1>8 DEF Others

LEMMA DownloadInit == Init => DownloadInv
<1> SUFFICES ASSUME Init PROVE DownloadInv
  OBVIOUS
<1>1. \A w \in Workers : ~Busy(w)
  BY DEF Init, Busy, Idle
<1>2. schedule.mark = NoMark /\ answered = {}
  BY DEF Init
<1>3. \A p \in Operators : operator[p].pc = "idle"
  BY DEF Init, AtRest
<1> QED BY <1>1, <1>2, <1>3, StorageInit DEF DownloadInv, ClaimStands, WindowStands, NoGap

LEMMA DownloadNext ==
    ASSUME LeaseOutlivesDownload, RefetchBehindMark
    PROVE  DownloadInv /\ [Next]_vars => DownloadInv'
<1> SUFFICES ASSUME DownloadInv, [Next]_vars PROVE DownloadInv'
  OBVIOUS
<1>1. StorageInv'
  BY StorageNext DEF DownloadInv
<1>2. ASSUME NEW w \in Workers, Claim(w) \/ Works(w) \/ WorkerLost(w)
      PROVE  ClaimStands' /\ WindowStands' /\ NoGap'
  BY <1>2, WorksWindows
<1>3. ASSUME NEW p \in Operators, RunNow(p) \/ Write(p) \/ \E since \in Days : Refetch(p, since)
      PROVE  ClaimStands' /\ WindowStands' /\ NoGap'
  BY <1>3, CheckWindows, WriteWindows
<1>4. ASSUME Others PROVE ClaimStands' /\ WindowStands' /\ NoGap'
  BY <1>4, OtherWindows
<1>5. ClaimStands' /\ WindowStands' /\ NoGap'
  BY <1>2, <1>3, <1>4 DEF Next, Others
<1> QED BY <1>1, <1>5 DEF DownloadInv

\* The inductive invariant of claims, windows and the mark, in every reachable
\* state, while no download outlives its lease and nobody asks ahead.
THEOREM DownloadInvHolds ==
    ASSUME LeaseOutlivesDownload, RefetchBehindMark
    PROVE  Spec => []DownloadInv
<1>1. DownloadInv /\ [Next]_vars => DownloadInv'
  BY DownloadNext
<1> QED BY <1>1, DownloadInit, PTL DEF Spec

\* The mark of DownloadSchedules.finished never passes a day the bank did not
\* answer for, over any number of days, failures, crashes and refetches.
THEOREM NoGapHolds ==
    ASSUME LeaseOutlivesDownload, RefetchBehindMark
    PROVE  Spec => []NoGap
<1>1. DownloadInv => NoGap
  BY DEF DownloadInv
<1> QED BY <1>1, DownloadInvHolds, PTL

\* DownloadSchedules.claim gives a schedule to one worker at a time.
THEOREM OneDownloadHolds ==
    ASSUME LeaseOutlivesDownload, RefetchBehindMark
    PROVE  Spec => []OneDownload
<1>1. DownloadInv => OneDownload
  BY DEF DownloadInv, ClaimStands, OneDownload
<1> QED BY <1>1, DownloadInvHolds, PTL


-----------------------------------------------------------------------------
(* What an action does to the record of one reader, and to one order.      *)

ReaderSteps == {"idle", "stored", "read", "decide", "moved", "booked", "like", "raised"}

\* Reader r goes on with the document it has.
GoesTo(r, pc, o, word) ==
    /\ reader' \in [Readers -> ReaderState]
    /\ reader'[r].pc = pc /\ reader'[r].order = o /\ reader'[r].revoked = word
    /\ reader'[r].doc = reader[r].doc /\ reader'[r].rest = reader[r].rest
    /\ reader'[r].again = reader[r].again
    /\ \A q \in Readers : q # r => reader'[q] = reader[q]

\* Reader r leaves it: to rest, or a re-reading to the next.
Leaves(r) ==
    /\ reader' \in [Readers -> ReaderState]
    /\ \/ /\ reader'[r].pc = "idle" /\ ~reader'[r].again
          /\ reader[r].again => reader[r].rest = {}
       \/ /\ reader[r].again
          /\ reader'[r].pc = "read" /\ reader'[r].again
          /\ reader'[r].doc \in reader[r].rest
          /\ reader'[r].rest = reader[r].rest \ {reader'[r].doc}
    /\ \A q \in Readers : q # r => reader'[q] = reader[q]

\* Order o gets this row.
Gets(o, state, verdict, dated) ==
    /\ order' \in [Orders -> OrderRow]
    /\ order'[o].state = state /\ order'[o].verdict = verdict
    /\ order'[o].dated = dated
    /\ \A p \in Orders : p # o => order'[p] = order[p]

KeepsDoubt(o) ==
    order'[o].suspect = order[o].suspect /\ order'[o].doubt = order[o].doubt

KeepsReturn(o) ==
    order'[o].returned = order[o].returned /\ order'[o].matched = order[o].matched

LEMMA NobodyTyped == Nobody \in ReaderState
BY StatementsAssumption DEF Nobody, ReaderState, Words

LEMMA ReaderFields ==
    ASSUME StatusTypeOK, NEW r \in Readers
    PROVE  /\ reader[r] \in ReaderState
           /\ reader[r].pc \in ReaderSteps /\ reader[r].doc \in Statements
           /\ reader[r].rest \subseteq Statements /\ reader[r].again \in BOOLEAN
           /\ reader[r].order \in Orders \cup {NoOrder} /\ reader[r].revoked \in Words
BY DEF StatusTypeOK, ReaderState, ReaderSteps

LEMMA OrderFields ==
    ASSUME StatusTypeOK, NEW o \in Orders
    PROVE  /\ order[o] \in OrderRow
           /\ order[o].state \in OrderStates /\ order[o].verdict \in Words
           /\ order[o].dated \in Nat /\ order[o].suspect \in Bookings
           /\ order[o].live \in {1, 2}
           /\ order[o].doubt \in {"none", "open", "dismissed"}
           /\ order[o].returned \in Bookings
           /\ order[o].matched \in {"none", "bank", "operator"}
BY DEF StatusTypeOK, OrderRow

LEMMA StepGoes ==
    ASSUME StatusTypeOK, NEW r \in Readers, NEW pc \in ReaderSteps, Step(r, pc)
    PROVE  GoesTo(r, pc, reader[r].order, reader[r].revoked)
<1>1. reader[r] \in ReaderState
  BY ReaderFields
<1>2. [reader[r] EXCEPT !.pc = pc] \in ReaderState
  BY <1>1 DEF ReaderState, ReaderSteps
<1>3. reader' = [reader EXCEPT ![r] = [reader[r] EXCEPT !.pc = pc]]
  BY DEF Step, StatusTypeOK
<1> QED BY <1>1, <1>2, <1>3 DEF StatusTypeOK, GoesTo, ReaderState

LEMMA FindsGoes ==
    ASSUME StatusTypeOK, NEW r \in Readers, NEW pc \in ReaderSteps, NEW o \in Orders,
           Finds(r, o, pc)
    PROVE  GoesTo(r, pc, o, reader[r].revoked)
<1>1. reader[r] \in ReaderState
  BY ReaderFields
<1>2. [reader[r] EXCEPT !.pc = pc, !.order = o] \in ReaderState
  BY <1>1 DEF ReaderState, ReaderSteps
<1>3. reader' = [reader EXCEPT ![r] = [reader[r] EXCEPT !.pc = pc, !.order = o]]
  BY DEF Finds, StatusTypeOK
<1> QED BY <1>1, <1>2, <1>3 DEF StatusTypeOK, GoesTo, ReaderState

\* ReadReport writes the order and what it may overturn.
LEMMA DecidesGoes ==
    ASSUME StatusTypeOK, NEW r \in Readers, NEW o \in Orders, NEW word \in Words,
           reader' = [reader EXCEPT ![r].pc = "decide", ![r].order = o, ![r].revoked = word]
    PROVE  GoesTo(r, "decide", o, word)
<1>1. reader[r] \in ReaderState
  BY ReaderFields
<1>2. [reader[r] EXCEPT !.pc = "decide", !.order = o, !.revoked = word] \in ReaderState
  BY <1>1 DEF ReaderState
<1>3. reader' = [reader EXCEPT ![r] = [reader[r] EXCEPT !.pc = "decide", !.order = o, !.revoked = word]]
  BY DEF StatusTypeOK
<1> QED BY <1>1, <1>2, <1>3 DEF StatusTypeOK, GoesTo, ReaderState

\* What a re-reading turns to next.
LEMMA ReadingNext ==
    ASSUME NEW docs \in SUBSET Statements, NEW next \in Reading(docs)
    PROVE  /\ next \in ReaderState
           /\ \/ docs = {} /\ next = Nobody
              \/ /\ next.pc = "read" /\ next.again /\ next.doc \in docs
                 /\ next.rest = docs \ {next.doc}
<1>1. CASE docs = {}
  BY <1>1, NobodyTyped DEF Reading
<1>2. CASE docs # {}
  <2>1. PICK d \in Firsts(docs) :
           next = [Nobody EXCEPT !.pc = "read", !.again = TRUE, !.doc = d, !.rest = docs \ {d}]
    BY <1>2 DEF Reading
  <2>2. d \in docs
    BY <2>1 DEF Firsts
  <2> QED BY <2>1, <2>2, NobodyTyped DEF Nobody, ReaderState
<1> QED BY <1>1, <1>2

LEMMA GoesOnLeaves ==
    ASSUME StatusTypeOK, NEW r \in Readers, GoesOn(r)
    PROVE  Leaves(r)
<1>1. PICK next \in (IF reader[r].again THEN Reading(reader[r].rest) ELSE {Nobody}) :
        reader' = [reader EXCEPT ![r] = next]
  BY DEF GoesOn
<1>2. reader[r].rest \in SUBSET Statements /\ reader[r].again \in BOOLEAN
  BY ReaderFields
<1>3. Nobody \in ReaderState /\ Nobody.pc = "idle" /\ ~Nobody.again
  BY NobodyTyped DEF Nobody
<1>4. CASE reader[r].again
  <2>1. next \in Reading(reader[r].rest)
    BY <1>1, <1>4
  <2>2. /\ next \in ReaderState
        /\ \/ reader[r].rest = {} /\ next = Nobody
           \/ /\ next.pc = "read" /\ next.again /\ next.doc \in reader[r].rest
              /\ next.rest = reader[r].rest \ {next.doc}
    BY <1>2, <2>1, ReadingNext
  <2> QED BY <1>1, <1>3, <1>4, <2>2 DEF StatusTypeOK, Leaves
<1>5. CASE ~reader[r].again
  BY <1>1, <1>3, <1>5 DEF StatusTypeOK, Leaves
<1> QED BY <1>4, <1>5

-----------------------------------------------------------------------------
(* What documents say. *)

LEMMA DecidedWord ==
    ASSUME NEW d \in Statements, Decides(d)
    PROVE  /\ Resolve(d) \in Words
           /\ \/ Resolve(d) \in Accepts /\ StateOf(d) = "acknowledged"
              \/ Resolve(d) = "refused" /\ StateOf(d) = "rejected"
BY DEF Decides, Disposition, Words, StateOf, Accepts

LEMMA WrittenTyped ==
    ASSUME NEW d \in Statements
    PROVE  Says[d].written \in Nat
BY StatementsAssumption DEF Document, Report, Booking

LEMMA OrderForTyped ==
    ASSUME NEW d \in Statements, OrderFor(d) # NoOrder
    PROVE  OrderFor(d) \in Orders
BY DEF OrderFor, Messages

LEMMA NamedTyped ==
    ASSUME NEW d \in Statements
    PROVE  Named(d) \subseteq Orders
BY DEF Named, Open, Messages

LEMMA BookingTyped ==
    ASSUME NEW d \in Statements, Says[d].kind # "report"
    PROVE  Says[d].booking \in Bookings
BY DEF Bookings

-----------------------------------------------------------------------------
(* What each action does, in these words.                                  *)

\* What a reader has found out when it comes to write, and what a person has.
Sound(r) ==
    LET d == reader[r].doc
        o == reader[r].order IN
    /\ reader[r].pc = "decide" =>
           /\ Says[d].kind = "report" /\ Decides(d)
           /\ o = OrderFor(d) /\ o \in Orders
           /\ reader[r].revoked # "none" =>
                  reader[r].revoked = "checked" /\ Resolve(d) = "refused"
    /\ reader[r].pc = "booked" => Says[d].kind = "marked" /\ o \in Orders
    /\ reader[r].pc = "like" => Says[d].kind = "unmarked" /\ o \in Orders

AllSound ==
    /\ \A r \in Readers : Sound(r)
    /\ \A p \in People : person[p].pc = "confirming" => person[p].order \in Orders

LEMMA MoveDoes ==
    ASSUME StatusTypeOK, AllSound, NEW r \in Readers, Move(r)
    PROVE  LET d == reader[r].doc
               o == reader[r].order IN
           /\ o \in Orders /\ Decides(d) /\ Movable(r, order[o])
           /\ Gets(o, StateOf(d), Resolve(d), Says[d].written)
           /\ KeepsDoubt(o) /\ KeepsReturn(o)
           /\ GoesTo(r, "moved", o, reader[r].revoked)
<1> DEFINE d == reader[r].doc
           o == reader[r].order
           row == [order[o] EXCEPT !.state = StateOf(d), !.verdict = Resolve(d),
                                   !.dated = Says[d].written]
<1>1. o \in Orders /\ d \in Statements /\ Decides(d)
  BY ReaderFields DEF Move, AllSound, Sound
<1>2. order[o] \in OrderRow
  BY <1>1, OrderFields
<1>3. StateOf(d) \in OrderStates /\ Resolve(d) \in Words /\ Says[d].written \in Nat
  BY <1>1, DecidedWord, WrittenTyped DEF OrderStates
<1>4. /\ row \in OrderRow
      /\ row.state = StateOf(d) /\ row.verdict = Resolve(d) /\ row.dated = Says[d].written
      /\ row.suspect = order[o].suspect /\ row.doubt = order[o].doubt
      /\ row.returned = order[o].returned /\ row.matched = order[o].matched
  BY <1>2, <1>3 DEF OrderRow
<1>5. order' = [order EXCEPT ![o] = row]
  BY DEF Move, StatusTypeOK
<1> HIDE DEF row
<1>6. Gets(o, StateOf(d), Resolve(d), Says[d].written) /\ KeepsDoubt(o) /\ KeepsReturn(o)
  BY <1>1, <1>4, <1>5 DEF StatusTypeOK, Gets, KeepsDoubt, KeepsReturn
<1>7. GoesTo(r, "moved", o, reader[r].revoked)
  BY StepGoes DEF Move, ReaderSteps
<1> QED BY <1>1, <1>6, <1>7 DEF Move

LEMMA ReturnDoes ==
    ASSUME StatusTypeOK, AllSound, NEW r \in Readers, Return(r)
    PROVE  LET o == reader[r].order IN
           /\ o \in Orders
           /\ \/ /\ order[o].state \in ReturnsFrom
                 /\ Gets(o, "returned", order[o].verdict, order[o].dated)
                 /\ KeepsDoubt(o) /\ order'[o].matched = "bank"
                 /\ GoesTo(r, "moved", o, reader[r].revoked)
              \/ order[o].state \notin ReturnsFrom /\ order' = order /\ Leaves(r)
<1> DEFINE b == Says[reader[r].doc].booking
           o == reader[r].order
           row == [order[o] EXCEPT !.state = "returned", !.matched = "bank", !.returned = b]
<1>1. o \in Orders /\ b \in Bookings
  BY ReaderFields, BookingTyped DEF Return, AllSound, Sound
<1>2. order[o] \in OrderRow
  BY <1>1, OrderFields
<1>4. /\ row \in OrderRow
      /\ row.state = "returned" /\ row.matched = "bank"
      /\ row.verdict = order[o].verdict /\ row.dated = order[o].dated
      /\ row.suspect = order[o].suspect /\ row.doubt = order[o].doubt
  BY <1>1, <1>2 DEF OrderRow, OrderStates
<1>5. CASE order[o].state \in ReturnsFrom
  <2>1. order' = [order EXCEPT ![o] = row]
    BY <1>5 DEF Return, StatusTypeOK
  <2> HIDE DEF row
  <2>2. /\ Gets(o, "returned", order[o].verdict, order[o].dated) /\ KeepsDoubt(o)
        /\ order'[o].matched = "bank"
    BY <1>1, <1>4, <2>1 DEF StatusTypeOK, Gets, KeepsDoubt
  <2>3. GoesTo(r, "moved", o, reader[r].revoked)
    BY <1>5, StepGoes DEF Return, ReaderSteps
  <2> QED BY <1>1, <1>5, <2>2, <2>3
<1>6. CASE order[o].state \notin ReturnsFrom
  <2>1. GoesOn(r) /\ order' = order
    BY <1>6 DEF Return
  <2> QED BY <1>1, <1>6, <2>1, GoesOnLeaves
<1> QED BY <1>5, <1>6

LEMMA SuspectDoes ==
    ASSUME StatusTypeOK, AllSound, NEW r \in Readers, Suspect(r)
    PROVE  LET o == reader[r].order
               b == Says[reader[r].doc].booking IN
           /\ o \in Orders
           /\ \/ /\ order[o].state \in ReturnsFrom /\ Fresh(order[o], b)
                 /\ Gets(o, order[o].state, order[o].verdict, order[o].dated)
                 /\ order'[o].suspect = b /\ order'[o].doubt = "open" /\ KeepsReturn(o)
                 /\ GoesTo(r, "raised", o, reader[r].revoked)
              \/ /\ ~(order[o].state \in ReturnsFrom /\ Fresh(order[o], b))
                 /\ order' = order /\ Leaves(r)
<1> DEFINE b == Says[reader[r].doc].booking
           o == reader[r].order
           row == [order[o] EXCEPT !.suspect = b, !.doubt = "open"]
<1>1. o \in Orders /\ b \in Bookings
  BY ReaderFields, BookingTyped DEF Suspect, AllSound, Sound
<1>2. order[o] \in OrderRow
  BY <1>1, OrderFields
<1>4. /\ row \in OrderRow
      /\ row.state = order[o].state /\ row.suspect = b /\ row.doubt = "open"
      /\ row.verdict = order[o].verdict /\ row.dated = order[o].dated
      /\ row.returned = order[o].returned /\ row.matched = order[o].matched
  BY <1>1, <1>2 DEF OrderRow
<1>5. CASE order[o].state \in ReturnsFrom /\ Fresh(order[o], b)
  <2>1. order' = [order EXCEPT ![o] = row]
    BY <1>5 DEF Suspect, StatusTypeOK
  <2> HIDE DEF row
  <2>2. /\ Gets(o, order[o].state, order[o].verdict, order[o].dated) /\ KeepsReturn(o)
        /\ order'[o].suspect = b /\ order'[o].doubt = "open"
    BY <1>1, <1>4, <2>1 DEF StatusTypeOK, Gets, KeepsReturn
  <2>3. GoesTo(r, "raised", o, reader[r].revoked)
    BY <1>5, StepGoes DEF Suspect, ReaderSteps
  <2> QED BY <1>1, <1>5, <2>2, <2>3
<1>6. CASE ~(order[o].state \in ReturnsFrom /\ Fresh(order[o], b))
  <2>1. GoesOn(r) /\ order' = order
    BY <1>6 DEF Suspect
  <2> QED BY <1>1, <1>6, <2>1, GoesOnLeaves
<1> QED BY <1>5, <1>6

\* The upload, and the replay.
Uploaded(o) ==
    /\ \E to \in OrderStates :
          /\ <<order[o].state, to>> \in
                 {<<"accepted", "submitting">>, <<"submitting", "submitted">>,
                  <<"submitting", "accepted">>, <<"submitting", "rejected">>}
          /\ Gets(o, to, order[o].verdict, order[o].dated)
    /\ KeepsDoubt(o) /\ KeepsReturn(o) /\ UNCHANGED <<reader, person, replays>>

Replayed(o) ==
    /\ order[o].state = "rejected"
    /\ Gets(o, "accepted", order[o].verdict, order[o].dated)
    /\ KeepsDoubt(o) /\ KeepsReturn(o) /\ UNCHANGED <<reader, person>>
    /\ replays' = [replays EXCEPT ![o] = replays[o] + 1]

LEMMA RowPut ==
    ASSUME StatusTypeOK, NEW o \in Orders, NEW to \in OrderStates, NEW live \in {1, 2},
           order' = [order EXCEPT ![o] = [order[o] EXCEPT !.state = to, !.live = live]]
    PROVE  /\ Gets(o, to, order[o].verdict, order[o].dated)
           /\ KeepsDoubt(o) /\ KeepsReturn(o)
<1> DEFINE row == [order[o] EXCEPT !.state = to, !.live = live]
<1>1. order[o] \in OrderRow
  BY OrderFields
<1>2. /\ row \in OrderRow /\ row.state = to
      /\ row.verdict = order[o].verdict /\ row.dated = order[o].dated
      /\ row.suspect = order[o].suspect /\ row.doubt = order[o].doubt
      /\ row.returned = order[o].returned /\ row.matched = order[o].matched
  BY <1>1 DEF OrderRow
<1>3. order' = [order EXCEPT ![o] = row]
  OBVIOUS
<1> HIDE DEF row
<1> QED BY <1>2, <1>3 DEF StatusTypeOK, Gets, KeepsDoubt, KeepsReturn

LEMMA RowKeepsLive ==
    ASSUME StatusTypeOK, NEW o \in Orders, NEW to \in OrderStates
    PROVE  /\ order[o].live \in {1, 2}
           /\ [order[o] EXCEPT !.state = to]
                  = [order[o] EXCEPT !.state = to, !.live = order[o].live]
<1>1. order[o] \in OrderRow
  BY OrderFields
<1> QED BY <1>1 DEF OrderRow

LEMMA UploadDoes ==
    ASSUME StatusTypeOK, NEW o \in Orders,
           ClaimOrder(o) \/ Submit(o) \/ RetryLater(o) \/ Refuse(o) \/ FallBack(o)
    PROVE  Uploaded(o)
<1>1. ASSUME NEW from \in OrderStates, NEW to \in OrderStates,
             Uploads(o, from, [order[o] EXCEPT !.state = to]),
             <<from, to>> \in {<<"accepted", "submitting">>, <<"submitting", "submitted">>,
                               <<"submitting", "accepted">>, <<"submitting", "rejected">>}
      PROVE  Uploaded(o)
  <2>1. order' = [order EXCEPT ![o] = [order[o] EXCEPT !.state = to, !.live = order[o].live]]
    BY <1>1, RowKeepsLive DEF Uploads
  <2>2. order[o].live \in {1, 2}
    BY OrderFields
  <2>3. Gets(o, to, order[o].verdict, order[o].dated) /\ KeepsDoubt(o) /\ KeepsReturn(o)
    BY <2>1, <2>2, RowPut
  <2> QED BY <1>1, <2>3 DEF Uploads, Uploaded
<1>2. CASE FallBack(o)
  <2>1. Gets(o, "accepted", order[o].verdict, order[o].dated) /\ KeepsDoubt(o) /\ KeepsReturn(o)
    BY <1>2, RowPut DEF FallBack, Uploads, OrderStates
  <2> QED BY <1>2, <2>1 DEF FallBack, Uploads, Uploaded, OrderStates
<1>3. CASE ClaimOrder(o)
  BY <1>1, <1>3 DEF ClaimOrder, OrderStates
<1>4. CASE Submit(o)
  BY <1>1, <1>4 DEF Submit, OrderStates
<1>5. CASE RetryLater(o)
  BY <1>1, <1>5 DEF RetryLater, OrderStates
<1>6. CASE Refuse(o)
  BY <1>1, <1>6 DEF Refuse, OrderStates
<1> QED BY <1>2, <1>3, <1>4, <1>5, <1>6

LEMMA ReplayDoes ==
    ASSUME StatusTypeOK, NEW o \in Orders, Replay(o)
    PROVE  Replayed(o)
<1>1. order' = [order EXCEPT ![o] = [order[o] EXCEPT !.state = "accepted", !.live = order[o].live]]
  BY RowKeepsLive DEF Replay, OrderStates, StatusTypeOK
<1>2. /\ Gets(o, "accepted", order[o].verdict, order[o].dated)
      /\ KeepsDoubt(o) /\ KeepsReturn(o)
  BY <1>1, OrderFields, RowPut DEF OrderStates
<1> QED BY <1>2 DEF Replay, Replayed

\* What readers do that writes no order.
Arrives(r, pc, again) ==
    /\ reader' \in [Readers -> ReaderState]
    /\ reader'[r].pc = pc /\ reader'[r].again = again
    /\ \A q \in Readers : q # r => reader'[q] = reader[q]

LEMMA StoreDoes ==
    ASSUME StatusTypeOK, NEW r \in Readers, NEW d \in Statements, StoreStatement(r, d)
    PROVE  Arrives(r, "stored", FALSE) /\ order' = order
<1>1. /\ [Nobody EXCEPT !.pc = "stored", !.doc = d] \in ReaderState
      /\ [Nobody EXCEPT !.pc = "stored", !.doc = d].pc = "stored"
      /\ [Nobody EXCEPT !.pc = "stored", !.doc = d].again = FALSE
  BY NobodyTyped DEF Nobody, ReaderState
<1> QED BY <1>1 DEF StoreStatement, StatusTypeOK, Arrives

LEMMA RereadDoes ==
    ASSUME StatusTypeOK, NEW r \in Readers, Reread(r)
    PROVE  LET docs == {d \in kept : Rereads(d)} IN
           /\ Arrives(r, "read", TRUE) /\ order' = order
           /\ reader'[r].doc \in docs /\ reader'[r].rest = docs \ {reader'[r].doc}
           /\ \A q \in Readers : ~reader[q].again
<1> DEFINE docs == {d \in kept : Rereads(d)}
<1>1. PICK next \in Reading(docs) : reader' = [reader EXCEPT ![r] = next]
  BY DEF Reread
<1>2. docs \in SUBSET Statements /\ docs # {} /\ order' = order
      /\ \A q \in Readers : ~reader[q].again
  BY DEF Reread, StatusTypeOK
<1> HIDE DEF docs
<1>3. /\ next \in ReaderState /\ next.pc = "read" /\ next.again
      /\ next.doc \in docs /\ next.rest = docs \ {next.doc}
  BY <1>2, ReadingNext
<1>4. next.again = TRUE
  BY <1>3 DEF ReaderState
<1>5. Arrives(r, "read", TRUE) /\ reader'[r] = next
  BY <1>1, <1>3, <1>4 DEF StatusTypeOK, Arrives
<1> QED BY <1>2, <1>3, <1>5 DEF docs

LEMMA AnnounceDoes ==
    ASSUME StatusTypeOK, NEW r \in Readers, Announce(r)
    PROVE  GoesTo(r, "read", reader[r].order, reader[r].revoked) /\ order' = order
BY StepGoes DEF Announce, ReaderSteps

LEMMA LosesDoes ==
    ASSUME StatusTypeOK, NEW r \in Readers, LosesApplication(r)
    PROVE  Arrives(r, "idle", FALSE) /\ order' = order
<1>1. Nobody \in ReaderState /\ Nobody.pc = "idle" /\ Nobody.again = FALSE
  BY NobodyTyped DEF Nobody
<1> QED BY <1>1 DEF LosesApplication, StatusTypeOK, Arrives

\* The reads: a reader is done with the document, or has found an order.
LEMMA ReadReportDoes ==
    ASSUME StatusTypeOK, NEW r \in Readers, ReadReport(r)
    PROVE  LET d == reader[r].doc
               o == OrderFor(d)
               word == IF Overturns(d, order[o]) THEN order[o].verdict ELSE "none" IN
           /\ order' = order /\ Says[d].kind = "report"
           /\ \/ Leaves(r) /\ (o = NoOrder \/ ~Decides(d))
              \/ o \in Orders /\ Decides(d) /\ GoesTo(r, "decide", o, word)
<1> DEFINE d == reader[r].doc
           o == OrderFor(d)
           word == IF Overturns(d, order[o]) THEN order[o].verdict ELSE "none"
<1>1. d \in Statements /\ order' = order /\ Says[d].kind = "report"
  BY ReaderFields DEF ReadReport
<1>2. CASE (o = NoOrder \/ ~Decides(d)) /\ GoesOn(r)
  BY <1>1, <1>2, GoesOnLeaves
<1>3. CASE /\ o # NoOrder /\ Decides(d)
           /\ reader' = [reader EXCEPT ![r].pc = "decide", ![r].order = o, ![r].revoked = word]
  <2>1. o \in Orders
    BY <1>1, <1>3, OrderForTyped
  <2>2. word \in Words
    BY <2>1, OrderFields DEF Words
  <2>3. GoesTo(r, "decide", o, word)
    BY <1>3, <2>1, <2>2, DecidesGoes
  <2> QED BY <1>1, <1>3, <2>1, <2>3
<1>4. \/ (o = NoOrder \/ ~Decides(d)) /\ GoesOn(r)
      \/ /\ o # NoOrder /\ Decides(d)
         /\ reader' = [reader EXCEPT ![r].pc = "decide", ![r].order = o, ![r].revoked = word]
  BY DEF ReadReport, Telling, Silently
<1> QED BY <1>2, <1>3, <1>4

LEMMA ReadBookingDoes ==
    ASSUME StatusTypeOK, NEW r \in Readers, ReadBooking(r)
    PROVE  LET d == reader[r].doc IN
           /\ order' = order /\ Says[d].kind = "marked"
           /\ \/ Leaves(r) /\ (Named(d) = {} \/ ~Says[d].whole)
              \/ \E o \in Named(d) : /\ o \in Orders /\ Says[d].whole
                                     /\ GoesTo(r, "booked", o, reader[r].revoked)
<1> DEFINE d == reader[r].doc
<1>1. d \in Statements /\ order' = order /\ Says[d].kind = "marked"
  BY ReaderFields DEF ReadBooking
<1>2. \/ (Named(d) = {} \/ ~Says[d].whole) /\ GoesOn(r)
      \/ \E o \in Named(d) : Says[d].whole /\ Finds(r, o, "booked")
  BY DEF ReadBooking, Telling, Silently
<1>3. CASE (Named(d) = {} \/ ~Says[d].whole) /\ GoesOn(r)
  BY <1>1, <1>3, GoesOnLeaves
<1>4. CASE \E o \in Named(d) : Says[d].whole /\ Finds(r, o, "booked")
  <2>1. PICK o \in Named(d) : Says[d].whole /\ Finds(r, o, "booked")
    BY <1>4
  <2>2. o \in Orders
    BY <1>1, <2>1, NamedTyped
  <2>3. GoesTo(r, "booked", o, reader[r].revoked)
    BY <2>1, <2>2, FindsGoes DEF ReaderSteps
  <2> QED BY <1>1, <2>1, <2>2, <2>3
<1> QED BY <1>2, <1>3, <1>4

LEMMA ReadCreditDoes ==
    ASSUME StatusTypeOK, NEW r \in Readers, ReadCredit(r)
    PROVE  LET d == reader[r].doc
               like == Open(Says[d].reference) IN
           /\ order' = order /\ Says[d].kind = "unmarked"
           /\ \/ Leaves(r) /\ Cardinality(like) # 1
              \/ \E o \in like : o \in Orders /\ GoesTo(r, "like", o, reader[r].revoked)
<1> DEFINE d == reader[r].doc
           like == Open(Says[d].reference)
<1>1. order' = order /\ Says[d].kind = "unmarked"
  BY DEF ReadCredit
<1>2. \/ Cardinality(like) # 1 /\ GoesOn(r)
      \/ \E o \in like : Finds(r, o, "like")
  BY DEF ReadCredit, Silently
<1>3. CASE Cardinality(like) # 1 /\ GoesOn(r)
  BY <1>1, <1>3, GoesOnLeaves
<1>4. CASE \E o \in like : Finds(r, o, "like")
  <2>1. PICK o \in like : Finds(r, o, "like")
    BY <1>4
  <2>2. o \in Orders
    BY <2>1 DEF Open
  <2>3. GoesTo(r, "like", o, reader[r].revoked)
    BY <2>1, <2>2, FindsGoes DEF ReaderSteps
  <2> QED BY <1>1, <2>1, <2>2, <2>3
<1> QED BY <1>2, <1>3, <1>4

\* The rows of the audit log that follow a write, and a report that moves nothing.
LEMMA RecordsDoes ==
    ASSUME StatusTypeOK, NEW r \in Readers, Ignore(r) \/ RecordMove(r) \/ RecordSuspicion(r)
    PROVE  Leaves(r) /\ order' = order
BY GoesOnLeaves DEF Ignore, RecordMove, RecordSuspicion, Silently, Telling

\* The people.
LEMMA ConfirmDoes ==
    ASSUME StatusTypeOK, AllSound, NEW p \in People, Confirm(p)
    PROVE  LET o == person[p].order IN
           /\ o \in Orders /\ UNCHANGED <<reader, replays>>
           /\ person' = [person EXCEPT ![p] = NoDecision]
           /\ \/ /\ order[o].state \in ReturnsFrom /\ order[o].doubt = "open"
                 /\ Gets(o, "returned", order[o].verdict, order[o].dated)
                 /\ KeepsDoubt(o) /\ order'[o].matched = "operator"
                 /\ order'[o].returned = person[p].booking
              \/ order' = order
<1> DEFINE o == person[p].order
           b == person[p].booking
           row == [order[o] EXCEPT !.state = "returned", !.matched = "operator", !.returned = b]
<1>1. o \in Orders /\ b \in Bookings
  BY DEF Confirm, AllSound, StatusTypeOK, PersonState
<1>2. order[o] \in OrderRow
  BY <1>1, OrderFields
<1>3. /\ row \in OrderRow
      /\ row.state = "returned" /\ row.matched = "operator" /\ row.returned = b
      /\ row.verdict = order[o].verdict /\ row.dated = order[o].dated
      /\ row.suspect = order[o].suspect /\ row.doubt = order[o].doubt
  BY <1>1, <1>2 DEF OrderRow, OrderStates
<1>4. UNCHANGED <<reader, replays>> /\ person' = [person EXCEPT ![p] = NoDecision]
  BY DEF Confirm
<1>5. CASE order[o].state \in ReturnsFrom /\ order[o].doubt = "open"
  <2>1. order' = [order EXCEPT ![o] = row]
    BY <1>5 DEF Confirm, StatusTypeOK
  <2> HIDE DEF row
  <2>2. /\ Gets(o, "returned", order[o].verdict, order[o].dated) /\ KeepsDoubt(o)
        /\ order'[o].matched = "operator" /\ order'[o].returned = b
    BY <1>1, <1>3, <2>1 DEF StatusTypeOK, Gets, KeepsDoubt
  <2> QED BY <1>1, <1>4, <1>5, <2>2
<1>6. CASE ~(order[o].state \in ReturnsFrom /\ order[o].doubt = "open")
  BY <1>1, <1>4, <1>6 DEF Confirm
<1> QED BY <1>5, <1>6

LEMMA DismissDoes ==
    ASSUME StatusTypeOK, NEW p \in People, NEW o \in Orders, Dismiss(p, o)
    PROVE  /\ order[o].doubt = "open" /\ order[o].state # "returned"
           /\ Gets(o, order[o].state, order[o].verdict, order[o].dated)
           /\ order'[o].suspect = order[o].suspect /\ order'[o].doubt = "dismissed"
           /\ KeepsReturn(o) /\ UNCHANGED <<reader, person, replays>>
           /\ person[p] = NoDecision
<1> DEFINE row == [order[o] EXCEPT !.doubt = "dismissed"]
<1>1. order[o] \in OrderRow
  BY OrderFields
<1>2. /\ row \in OrderRow /\ row.state = order[o].state /\ row.doubt = "dismissed"
      /\ row.verdict = order[o].verdict /\ row.dated = order[o].dated
      /\ row.suspect = order[o].suspect
      /\ row.returned = order[o].returned /\ row.matched = order[o].matched
  BY <1>1 DEF OrderRow
<1>3. order' = [order EXCEPT ![o] = row]
  BY DEF Dismiss, StatusTypeOK
<1> HIDE DEF row
<1> QED BY <1>2, <1>3 DEF Dismiss, StatusTypeOK, Gets, KeepsReturn

-----------------------------------------------------------------------------
(* Types, and what a reader knows when it writes.                          *)

StatusIInv == StatusTypeOK /\ AllSound

LEMMA OneReaderSound ==
    ASSUME AllSound, NEW r \in Readers, Sound(r)', UNCHANGED person,
           \A q \in Readers : q # r => reader'[q] = reader[q]
    PROVE  AllSound'
<1>1. ASSUME NEW q \in Readers
      PROVE  Sound(q)'
  <2>1. CASE q = r
    BY <2>1
  <2>2. CASE q # r
    <3>1. reader'[q] = reader[q] /\ Sound(q)
      BY <2>2 DEF AllSound
    <3> QED BY <3>1 DEF Sound
  <2> QED BY <2>1, <2>2
<1> QED BY <1>1 DEF AllSound

LEMMA LeavesSound ==
    ASSUME AllSound, NEW r \in Readers, Leaves(r), UNCHANGED person
    PROVE  AllSound'
<1>1. Sound(r)'
  BY DEF Leaves, Sound
<1> QED BY <1>1, OneReaderSound DEF Leaves

LEMMA ArrivesSound ==
    ASSUME AllSound, NEW r \in Readers, NEW pc \in {"idle", "stored", "read"},
           NEW again \in BOOLEAN, Arrives(r, pc, again), UNCHANGED person
    PROVE  AllSound'
<1>1. Sound(r)'
  BY DEF Arrives, Sound
<1> QED BY <1>1, OneReaderSound DEF Arrives

LEMMA GoesSound ==
    ASSUME AllSound, NEW r \in Readers, NEW pc \in {"read", "moved", "raised"},
           NEW o, NEW word, GoesTo(r, pc, o, word), UNCHANGED person
    PROVE  AllSound'
<1>1. Sound(r)'
  BY DEF GoesTo, Sound
<1> QED BY <1>1, OneReaderSound DEF GoesTo

LEMMA ToldTyped ==
    ASSUME StatusTypeOK, NEW r \in Readers, NEW what \in Endings,
           Tell(r, what) \/ UNCHANGED told
    PROVE  told' \in [Statements -> SUBSET Endings]
<1>1. CASE UNCHANGED told
  BY <1>1 DEF StatusTypeOK
<1>2. CASE Tell(r, what)
  <2>1. reader[r].doc \in Statements /\ told[reader[r].doc] \cup {what} \in SUBSET Endings
    BY ReaderFields DEF StatusTypeOK
  <2> QED BY <1>2, <2>1 DEF Tell, StatusTypeOK
<1> QED BY <1>1, <1>2

CalmTyped == calm \in {"no", "reading", "settled"}

LEMMA ReaderStepsKeep ==
    ASSUME StatusIInv, CalmTyped', NEW r \in Readers, Applies(r)
    PROVE  StatusIInv'
<1> USE DEF StatusIInv
<1>1. /\ fate' = fate /\ kept' = kept /\ person' = person
      /\ replays' = replays /\ faults' = faults
  BY DEF Applies, ReadReport, Move, Ignore, RecordMove, ReadBooking, Return,
         ReadCredit, Suspect, RecordSuspicion
<1>2. told' \in [Statements -> SUBSET Endings]
  <2>1. reader[r].doc \in Statements
    BY ReaderFields
  <2>2. (IF Says[reader[r].doc].kind = "report" THEN StateOf(reader[r].doc) ELSE "returned") \in Endings
    BY DEF StateOf, Endings
  <2>3. \E what \in Endings : Tell(r, what) \/ UNCHANGED told
    BY <2>2 DEF Applies, ReadReport, Move, Ignore, RecordMove, ReadBooking, Return,
         ReadCredit, Suspect, RecordSuspicion, Telling, Silently, Endings
  <2> QED BY <2>3, ToldTyped
<1>3. ASSUME order' \in [Orders -> OrderRow], reader' \in [Readers -> ReaderState]
      PROVE  StatusTypeOK'
  BY <1>1, <1>2, <1>3 DEF StatusTypeOK, CalmTyped
<1>4. StatusTypeOK
  OBVIOUS
<1>5. order \in [Orders -> OrderRow]
  BY DEF StatusTypeOK
<1>6. CASE ReadReport(r)
  <2> DEFINE d == reader[r].doc
             o == OrderFor(d)
             word == IF Overturns(d, order[o]) THEN order[o].verdict ELSE "none"
  <2>1. order' = order /\ Says[d].kind = "report"
    BY <1>6, ReadReportDoes
  <2>2. CASE Leaves(r)
    BY <1>1, <1>3, <1>5, <2>1, <2>2, LeavesSound DEF Leaves
  <2>3. CASE o \in Orders /\ Decides(d) /\ GoesTo(r, "decide", o, word)
    <3>1. word # "none" => word = "checked" /\ Resolve(d) = "refused"
      BY DEF Overturns, Revocable
    <3>2. /\ reader'[r].pc = "decide" /\ reader'[r].doc = d
          /\ reader'[r].order = o /\ reader'[r].revoked = word
      BY <2>3 DEF GoesTo
    <3>3. Sound(r)'
      BY <2>1, <2>3, <3>1, <3>2 DEF Sound
    <3> QED BY <1>1, <1>3, <1>5, <2>1, <2>3, <3>3, OneReaderSound DEF GoesTo
  <2> QED BY <1>6, <2>2, <2>3, ReadReportDoes
<1>7. CASE Move(r)
  BY <1>1, <1>3, <1>7, MoveDoes, GoesSound DEF Gets, GoesTo
<1>8. CASE Ignore(r) \/ RecordMove(r) \/ RecordSuspicion(r)
  BY <1>1, <1>3, <1>5, <1>8, RecordsDoes, LeavesSound DEF Leaves
<1>9. CASE ReadBooking(r)
  <2> DEFINE d == reader[r].doc
  <2>1. order' = order /\ Says[d].kind = "marked"
    BY <1>9, ReadBookingDoes
  <2>2. CASE Leaves(r)
    BY <1>1, <1>3, <1>5, <2>1, <2>2, LeavesSound DEF Leaves
  <2>3. CASE \E o \in Named(d) : o \in Orders /\ GoesTo(r, "booked", o, reader[r].revoked)
    <3>1. Sound(r)'
      BY <2>1, <2>3 DEF GoesTo, Sound
    <3> QED BY <1>1, <1>3, <1>5, <2>1, <2>3, <3>1, OneReaderSound DEF GoesTo
  <2> QED BY <1>9, <2>2, <2>3, ReadBookingDoes
<1>10. CASE Return(r)
  BY <1>1, <1>3, <1>5, <1>10, ReturnDoes, GoesSound, LeavesSound DEF Gets, GoesTo, Leaves
<1>11. CASE ReadCredit(r)
  <2> DEFINE d == reader[r].doc
             like == Open(Says[d].reference)
  <2>1. order' = order /\ Says[d].kind = "unmarked"
    BY <1>11, ReadCreditDoes
  <2>2. CASE Leaves(r)
    BY <1>1, <1>3, <1>5, <2>1, <2>2, LeavesSound DEF Leaves
  <2>3. CASE \E o \in like : o \in Orders /\ GoesTo(r, "like", o, reader[r].revoked)
    <3>1. Sound(r)'
      BY <2>1, <2>3 DEF GoesTo, Sound
    <3> QED BY <1>1, <1>3, <1>5, <2>1, <2>3, <3>1, OneReaderSound DEF GoesTo
  <2> QED BY <1>11, <2>2, <2>3, ReadCreditDoes
<1>12. CASE Suspect(r)
  BY <1>1, <1>3, <1>5, <1>12, SuspectDoes, GoesSound, LeavesSound DEF Gets, GoesTo, Leaves
<1> QED BY <1>6, <1>7, <1>8, <1>9, <1>10, <1>11, <1>12 DEF Applies

LEMMA UploadsKeep ==
    ASSUME StatusIInv, CalmTyped', NEW o \in Orders,
           \/ ClaimOrder(o) \/ Submit(o) \/ RetryLater(o) \/ Refuse(o) \/ FallBack(o)
           \/ Replay(o)
    PROVE  StatusIInv'
<1> USE DEF StatusIInv
<1>1. /\ order' \in [Orders -> OrderRow] /\ reader' = reader /\ person' = person
      /\ replays' \in [Orders -> Nat]
  <2>1. CASE Replay(o)
    BY <2>1, ReplayDoes DEF Replayed, Gets, StatusTypeOK
  <2>2. CASE ClaimOrder(o) \/ Submit(o) \/ RetryLater(o) \/ Refuse(o) \/ FallBack(o)
    BY <2>2, UploadDoes DEF Uploaded, Gets, StatusTypeOK
  <2> QED BY <2>1, <2>2
<1>2. /\ kept' = kept /\ told' = told /\ faults' = faults
      /\ fate' \in [Messages -> {"unseen", "taken", "refused"}]
  <2>1. CASE ClaimOrder(o) \/ Replay(o)
    BY <2>1 DEF ClaimOrder, Uploads, Replay, StatusTypeOK
  <2>2. CASE Submit(o) \/ RetryLater(o)
    BY <2>2 DEF Submit, RetryLater, Uploads, Take, StatusTypeOK
  <2>3. CASE Refuse(o)
    BY <2>3 DEF Refuse, Uploads, BankRefuses, StatusTypeOK
  <2>4. CASE FallBack(o)
    BY <2>4 DEF FallBack, Uploads, StatusTypeOK
  <2> QED BY <2>1, <2>2, <2>3, <2>4
<1>3. StatusTypeOK'
  BY <1>1, <1>2 DEF StatusTypeOK, CalmTyped
<1>4. AllSound'
  BY <1>1 DEF AllSound, Sound
<1> QED BY <1>3, <1>4

LEMMA ArrivalsKeep ==
    ASSUME StatusIInv, CalmTyped', NEW r \in Readers,
           \/ \E d \in Statements : StoreStatement(r, d)
           \/ Announce(r) \/ LosesApplication(r) \/ Reread(r)
    PROVE  StatusIInv'
<1> USE DEF StatusIInv
<1>1. order' = order /\ reader' \in [Readers -> ReaderState]
  BY StoreDoes, AnnounceDoes, LosesDoes, RereadDoes DEF Arrives, GoesTo
<1>2. /\ fate' = fate /\ person' = person /\ replays' = replays
      /\ kept' \in SUBSET Statements /\ faults' \in Nat
  <2>1. kept \in SUBSET Statements /\ faults \in Nat
    BY DEF StatusTypeOK
  <2>2. CASE \E d \in Statements : StoreStatement(r, d)
    BY <2>1, <2>2 DEF StoreStatement
  <2>3. CASE Announce(r)
    BY <2>1, <2>3 DEF Announce
  <2>4. CASE LosesApplication(r)
    BY <2>1, <2>4 DEF LosesApplication
  <2>5. CASE Reread(r)
    BY <2>1, <2>5 DEF Reread
  <2> QED BY <2>2, <2>3, <2>4, <2>5
<1>3. told' \in [Statements -> SUBSET Endings]
  BY ToldTyped DEF StoreStatement, Announce, LosesApplication, Reread, Endings
<1>4. StatusTypeOK'
  BY <1>1, <1>2, <1>3 DEF StatusTypeOK, CalmTyped
<1>5. \/ \E pc \in {"idle", "stored", "read"}, again \in BOOLEAN : Arrives(r, pc, again)
      \/ GoesTo(r, "read", reader[r].order, reader[r].revoked)
  BY StoreDoes, AnnounceDoes, LosesDoes, RereadDoes
<1>6. AllSound'
  BY <1>2, <1>5, ArrivesSound, GoesSound
<1> QED BY <1>4, <1>6

LEMMA PeopleKeep ==
    ASSUME StatusIInv, CalmTyped', NEW p \in People,
           \/ \E o \in Orders : ReadConfirm(p, o) \/ Dismiss(p, o)
           \/ Confirm(p)
    PROVE  StatusIInv'
<1> USE DEF StatusIInv
<1>1. /\ reader' = reader /\ fate' = fate /\ kept' = kept /\ told' = told
      /\ replays' = replays /\ faults' = faults
  BY DEF ReadConfirm, Dismiss, Confirm
<1>2. NoDecision \in PersonState /\ NoDecision.pc = "idle"
  BY DEF NoDecision, PersonState, Bookings
<1>3. /\ order' \in [Orders -> OrderRow] /\ person' \in [People -> PersonState]
      /\ \A q \in People : person'[q].pc = "confirming" => person'[q].order \in Orders
  <2>1. CASE \E o \in Orders : ReadConfirm(p, o)
    <3>1. PICK o \in Orders : ReadConfirm(p, o)
      BY <2>1
    <3> DEFINE s == [pc |-> "confirming", order |-> o, booking |-> order[o].suspect]
    <3>2. s \in PersonState /\ s.order = o
      BY OrderFields DEF PersonState
    <3>3. person' = [person EXCEPT ![p] = s] /\ order' = order
      BY <3>1 DEF ReadConfirm
    <3> HIDE DEF s
    <3> QED BY <3>2, <3>3 DEF StatusTypeOK, AllSound
  <2>2. CASE \E o \in Orders : Dismiss(p, o)
    BY <2>2, DismissDoes DEF Gets, StatusTypeOK, AllSound
  <2>3. CASE Confirm(p)
    <3>1. person' = [person EXCEPT ![p] = NoDecision] /\ order' \in [Orders -> OrderRow]
      BY <2>3, ConfirmDoes DEF Gets, StatusTypeOK
    <3> QED BY <1>2, <3>1 DEF StatusTypeOK, AllSound
  <2> QED BY <2>1, <2>2, <2>3
<1>4. StatusTypeOK'
  BY <1>1, <1>3 DEF StatusTypeOK, CalmTyped
<1>5. AllSound'
  BY <1>1, <1>3 DEF AllSound, Sound
<1> QED BY <1>4, <1>5

LEMMA StatusInitial == StatusInit => StatusIInv
<1> SUFFICES ASSUME StatusInit PROVE StatusIInv
  OBVIOUS
<1>1. NewOrder \in OrderRow
  BY DEF NewOrder, OrderRow, OrderStates, Words, Bookings
<1>2. NoDecision \in PersonState /\ NoDecision.pc = "idle"
  BY DEF NoDecision, PersonState, Bookings
<1>3. StatusTypeOK
  BY <1>1, <1>2, NobodyTyped DEF StatusInit, StatusTypeOK
<1>4. AllSound
  BY <1>2 DEF StatusInit, AllSound, Sound, Nobody
<1> QED BY <1>3, <1>4 DEF StatusIInv

LEMMA CalmStays ==
    ASSUME CalmTyped, [StatusNext]_statusVars
    PROVE  CalmTyped'
BY DEF CalmTyped, StatusNext, statusVars, Begins, Passes

LEMMA StatusInductive ==
    ASSUME StatusIInv, [StatusNext]_statusVars
    PROVE  StatusIInv'
<1>1. CalmTyped'
  BY CalmStays DEF StatusIInv, StatusTypeOK, CalmTyped
<1>2. ASSUME NEW r \in Rereadings, Reread(r) PROVE StatusIInv'
  BY <1>1, <1>2, ArrivalsKeep DEF Readers
<1>3. ASSUME NEW r \in Readers, Applies(r) PROVE StatusIInv'
  BY <1>1, <1>3, ReaderStepsKeep
<1>4. ASSUME NEW o \in Orders,
             \/ ClaimOrder(o) \/ Submit(o) \/ RetryLater(o) \/ Refuse(o) \/ FallBack(o)
             \/ Replay(o)
      PROVE  StatusIInv'
  BY <1>1, <1>4, UploadsKeep
<1>5. ASSUME NEW r \in Downloads, NEW d \in Statements, StoreStatement(r, d)
      PROVE  StatusIInv'
  BY <1>1, <1>5, ArrivalsKeep DEF Readers
<1>6. ASSUME NEW r \in Readers, Announce(r) \/ LosesApplication(r)
      PROVE  StatusIInv'
  BY <1>1, <1>6, ArrivalsKeep
<1>7. ASSUME NEW p \in People,
             (\E o \in Orders : ReadConfirm(p, o) \/ Dismiss(p, o)) \/ Confirm(p)
      PROVE  StatusIInv'
  BY <1>1, <1>7, PeopleKeep
<1>8. CASE UNCHANGED statusVars
  BY <1>8 DEF statusVars, StatusIInv, StatusTypeOK, AllSound, Sound
<1> QED BY <1>2, <1>3, <1>4, <1>5, <1>6, <1>7, <1>8 DEF StatusNext, Elsewhere

\* Every variable holds values of its type.
THEOREM StatusTypeOKHolds == StatusSpec => []StatusTypeOK
<1>1. StatusIInv => StatusTypeOK
  BY DEF StatusIInv
<1> QED BY <1>1, StatusInitial, StatusInductive, PTL DEF StatusSpec

-----------------------------------------------------------------------------
(* The bank's word on an order, step by step, and BankVerdict.             *)

\* Whatever else happens to o, a refusal d read when it might overturn the
\* acknowledgement of o is later than the one there is, or finds o elsewhere,
\* or o was replayed since.
Standing(o, d) ==
    \/ replays[o] > 0
    \/ order[o].state \in {"rejected", "returned"}
    \/ /\ order[o].state = "acknowledged" /\ order[o].verdict = "checked"
       /\ 0 < order[o].dated /\ order[o].dated < Says[d].written

RefusalsStand == \A r \in Readers :
    reader[r].pc = "decide" /\ reader[r].revoked = "checked" =>
        Standing(reader[r].order, reader[r].doc)

SameWord(o) ==
    /\ order'[o].state = order[o].state /\ order'[o].verdict = order[o].verdict
    /\ order'[o].dated = order[o].dated /\ replays'[o] = replays[o]

Carries(o, to) ==
    /\ order'[o].state = to /\ order'[o].verdict = order[o].verdict
    /\ order'[o].dated = order[o].dated

Hears(o, d) ==
    /\ order'[o].state = StateOf(d) /\ order'[o].verdict = Resolve(d)
    /\ order'[o].dated = Says[d].written /\ replays'[o] = replays[o]

\* What one step may do to the word on o: an upload, a replay, an answer, an
\* acknowledgement overturned, a return.
WordStep(o) ==
    \/ /\ \E to \in OrderStates :
             /\ <<order[o].state, to>> \in
                    {<<"accepted", "submitting">>, <<"submitting", "submitted">>,
                     <<"submitting", "accepted">>, <<"submitting", "rejected">>}
             /\ Carries(o, to)
       /\ replays'[o] = replays[o]
    \/ /\ order[o].state = "rejected" /\ Carries(o, "accepted")
       /\ replays'[o] = replays[o] + 1
    \/ /\ order[o].state \in ReconcilesFrom
       /\ \E d \in Statements : Decides(d) /\ Hears(o, d)
    \/ /\ order[o].state = "acknowledged" /\ order[o].verdict = "checked"
       /\ \E d \in Statements :
             Decides(d) /\ Resolve(d) = "refused" /\ Hears(o, d) /\ Standing(o, d)
    \/ /\ order[o].state \in ReturnsFrom /\ Carries(o, "returned")
       /\ replays'[o] = replays[o]

\* No order's word changes, or one does.
OneWord ==
    \/ \A o \in Orders : SameWord(o)
    \/ \E o \in Orders : WordStep(o) /\ \A p \in Orders : p # o => SameWord(p)

LEMMA ReaderStepWord ==
    ASSUME StatusIInv, RefusalsStand, NEW r \in Readers, Applies(r)
    PROVE  OneWord
<1> USE DEF StatusIInv
<1>1. StatusTypeOK /\ AllSound
  OBVIOUS
<1>2. replays' = replays
  BY DEF Applies, ReadReport, Move, Ignore, RecordMove, ReadBooking, Return,
         ReadCredit, Suspect, RecordSuspicion
<1>3. CASE order' = order
  BY <1>2, <1>3 DEF OneWord, SameWord
<1>4. CASE Move(r)
  <2> DEFINE d == reader[r].doc
             o == reader[r].order
  <2>1. /\ o \in Orders /\ Decides(d) /\ Movable(r, order[o])
        /\ Gets(o, StateOf(d), Resolve(d), Says[d].written)
    BY <1>1, <1>4, MoveDoes
  <2>2. d \in Statements /\ Sound(r) /\ reader[r].pc = "decide"
    BY <1>1, <1>4, ReaderFields DEF AllSound, Move
  <2>3. Hears(o, d) /\ \A p \in Orders : p # o => SameWord(p)
    BY <1>2, <2>1 DEF Gets, Hears, SameWord
  <2>4. WordStep(o)
    <3>1. CASE reader[r].revoked = "none"
      <4>1. order[o].state \in ReconcilesFrom
        BY <2>1, <3>1 DEF Movable
      <4> QED BY <2>1, <2>2, <2>3, <4>1 DEF WordStep
    <3>2. CASE reader[r].revoked # "none"
      <4>1. reader[r].revoked = "checked" /\ Resolve(d) = "refused"
        BY <2>2, <3>2 DEF Sound
      <4>2. order[o].state = "acknowledged" /\ order[o].verdict = "checked"
        BY <2>1, <4>1 DEF Movable
      <4>3. Standing(o, d)
        BY <2>2, <4>1 DEF RefusalsStand
      <4> QED BY <2>1, <2>2, <2>3, <4>1, <4>2, <4>3 DEF WordStep
    <3> QED BY <3>1, <3>2
  <2> QED BY <2>1, <2>3, <2>4 DEF OneWord
<1>5. CASE Return(r)
  <2> DEFINE o == reader[r].order
  <2>1. CASE /\ order[o].state \in ReturnsFrom
             /\ Gets(o, "returned", order[o].verdict, order[o].dated)
    <3>1. o \in Orders
      BY <1>1, <1>5, ReturnDoes
    <3>2. WordStep(o) /\ \A p \in Orders : p # o => SameWord(p)
      BY <1>2, <2>1, <3>1 DEF Gets, WordStep, Carries, SameWord
    <3> QED BY <3>1, <3>2 DEF OneWord
  <2> QED BY <1>1, <1>3, <1>5, <2>1, ReturnDoes
<1>6. CASE Suspect(r)
  <2> DEFINE o == reader[r].order
  <2>1. CASE Gets(o, order[o].state, order[o].verdict, order[o].dated)
    BY <1>2, <2>1 DEF Gets, SameWord, OneWord
  <2> QED BY <1>1, <1>3, <1>6, <2>1, SuspectDoes
<1> QED BY <1>1, <1>3, <1>4, <1>5, <1>6, ReadReportDoes, RecordsDoes, ReadBookingDoes,
           ReadCreditDoes DEF Applies

LEMMA StatusStepWord ==
    ASSUME StatusIInv, RefusalsStand, [StatusNext]_statusVars
    PROVE  OneWord
<1>1. StatusTypeOK /\ AllSound
  BY DEF StatusIInv
<1>2. CASE order' = order /\ replays' = replays
  BY <1>2 DEF OneWord, SameWord
<1>3. ASSUME NEW o \in Orders,
             ClaimOrder(o) \/ Submit(o) \/ RetryLater(o) \/ Refuse(o) \/ FallBack(o)
      PROVE  OneWord
  <2>1. Uploaded(o)
    BY <1>1, <1>3, UploadDoes
  <2>2. WordStep(o) /\ \A p \in Orders : p # o => SameWord(p)
    BY <2>1 DEF Uploaded, Gets, WordStep, Carries, SameWord
  <2> QED BY <2>2 DEF OneWord
<1>4. ASSUME NEW o \in Orders, Replay(o) PROVE OneWord
  <2>1. Replayed(o)
    BY <1>1, <1>4, ReplayDoes
  <2>2. WordStep(o) /\ \A p \in Orders : p # o => SameWord(p)
    BY <1>1, <2>1 DEF Replayed, Gets, WordStep, Carries, SameWord, StatusTypeOK
  <2> QED BY <2>2 DEF OneWord
<1>5. ASSUME NEW p \in People, Confirm(p) PROVE OneWord
  <2> DEFINE o == person[p].order
  <2>1. o \in Orders /\ replays' = replays
    BY <1>1, <1>5, ConfirmDoes
  <2>2. CASE order' = order
    BY <1>2, <2>1, <2>2
  <2>3. CASE order[o].state \in ReturnsFrom /\ Gets(o, "returned", order[o].verdict, order[o].dated)
    <3>1. WordStep(o) /\ \A q \in Orders : q # o => SameWord(q)
      BY <2>1, <2>3 DEF Gets, WordStep, Carries, SameWord
    <3> QED BY <2>1, <3>1 DEF OneWord
  <2> QED BY <1>1, <1>5, <2>2, <2>3, ConfirmDoes
<1>6. ASSUME NEW p \in People, NEW o \in Orders, Dismiss(p, o) PROVE OneWord
  <2>1. Gets(o, order[o].state, order[o].verdict, order[o].dated) /\ replays' = replays
    BY <1>1, <1>6, DismissDoes
  <2> QED BY <2>1 DEF Gets, SameWord, OneWord
<1>7. ASSUME NEW p \in People, NEW o \in Orders, ReadConfirm(p, o) PROVE OneWord
  BY <1>2, <1>7 DEF ReadConfirm
<1>8. ASSUME NEW r \in Readers, Applies(r) PROVE OneWord
  BY <1>8, ReaderStepWord
<1>9. ASSUME NEW r \in Readers,
             \/ \E d \in Statements : StoreStatement(r, d)
             \/ Announce(r) \/ LosesApplication(r) \/ Reread(r)
      PROVE  OneWord
  BY <1>2, <1>9 DEF StoreStatement, Announce, LosesApplication, Reread
<1>10. CASE UNCHANGED statusVars
  BY <1>2, <1>10 DEF statusVars
<1> QED BY <1>3, <1>4, <1>5, <1>6, <1>7, <1>8, <1>9, <1>10
        DEF StatusNext, Elsewhere, Readers

LEMMA StandingStays ==
    ASSUME StatusTypeOK, OneWord, NEW o \in Orders, NEW d \in Statements, Standing(o, d)
    PROVE  Standing(o, d)'
<1>1. CASE SameWord(o)
  BY <1>1 DEF SameWord, Standing
<1>2. CASE WordStep(o)
  <2>1. replays[o] \in Nat
    BY DEF StatusTypeOK
  <2>2. CASE order[o].state = "rejected" /\ replays'[o] = replays[o] + 1
    BY <2>1, <2>2 DEF Standing
  <2>3. CASE order[o].state \in ReturnsFrom /\ Carries(o, "returned")
    BY <2>3 DEF Standing, Carries
  <2>4. CASE /\ order[o].state = "acknowledged" /\ order[o].verdict = "checked"
             /\ \E e \in Statements : Decides(e) /\ Resolve(e) = "refused" /\ Hears(o, e)
    BY <2>4, DecidedWord DEF Standing, Hears, Accepts
  <2>5. CASE /\ order[o].state \in {"accepted", "submitting", "submitted"}
             /\ replays'[o] = replays[o]
    BY <2>5 DEF Standing
  <2> QED BY <1>2, <2>2, <2>3, <2>4, <2>5 DEF WordStep, Hears, ReconcilesFrom
<1> QED BY <1>1, <1>2 DEF OneWord

\* Who is about to write a decision was about to before, or has just read.
Deciding(q) ==
    \/ reader'[q].pc # "decide"
    \/ reader'[q] = reader[q]
    \/ /\ order' = order /\ replays' = replays
       /\ reader'[q].revoked = "checked" =>
              Overturns(reader'[q].doc, order[reader'[q].order])

LEMMA StatusStepDeciding ==
    ASSUME StatusIInv, [StatusNext]_statusVars, NEW q \in Readers
    PROVE  Deciding(q)
<1>1. StatusTypeOK /\ AllSound
  BY DEF StatusIInv
<1>2. ASSUME reader' = reader PROVE Deciding(q)
  BY <1>2 DEF Deciding
<1>3. ASSUME NEW r \in Readers, Leaves(r) PROVE Deciding(q)
  BY <1>3 DEF Leaves, Deciding
<1>4. ASSUME NEW r \in Readers, NEW pc, NEW again, Arrives(r, pc, again), pc # "decide"
      PROVE  Deciding(q)
  BY <1>4 DEF Arrives, Deciding
<1>5. ASSUME NEW r \in Readers, NEW pc, NEW o, NEW word, GoesTo(r, pc, o, word), pc # "decide"
      PROVE  Deciding(q)
  BY <1>5 DEF GoesTo, Deciding
<1>6. ASSUME NEW r \in Readers, ReadReport(r) PROVE Deciding(q)
  <2> DEFINE d == reader[r].doc
             o == OrderFor(d)
             word == IF Overturns(d, order[o]) THEN order[o].verdict ELSE "none"
  <2>1. CASE Leaves(r)
    BY <1>3, <2>1
  <2>2. CASE GoesTo(r, "decide", o, word)
    <3>1. order' = order /\ replays' = replays
      BY <1>6 DEF ReadReport
    <3> QED BY <2>2, <3>1 DEF GoesTo, Deciding
  <2> QED BY <1>1, <1>6, <2>1, <2>2, ReadReportDoes
<1>7. ASSUME NEW r \in Readers, Applies(r) PROVE Deciding(q)
  BY <1>1, <1>3, <1>5, <1>6, <1>7, MoveDoes, ReturnDoes, SuspectDoes, RecordsDoes,
     ReadBookingDoes, ReadCreditDoes DEF Applies
<1>8. ASSUME NEW r \in Readers,
             \/ \E d \in Statements : StoreStatement(r, d)
             \/ Announce(r) \/ LosesApplication(r) \/ Reread(r)
      PROVE  Deciding(q)
  BY <1>1, <1>4, <1>5, <1>8, StoreDoes, AnnounceDoes, LosesDoes, RereadDoes
<1>9. ASSUME NEW o \in Orders,
             \/ ClaimOrder(o) \/ Submit(o) \/ RetryLater(o) \/ Refuse(o) \/ FallBack(o)
             \/ Replay(o)
      PROVE  Deciding(q)
  BY <1>1, <1>2, <1>9, UploadDoes, ReplayDoes DEF Uploaded, Replayed
<1>10. ASSUME NEW p \in People,
             (\E o \in Orders : ReadConfirm(p, o) \/ Dismiss(p, o)) \/ Confirm(p)
      PROVE  Deciding(q)
  BY <1>2, <1>10 DEF ReadConfirm, Dismiss, Confirm
<1>11. CASE UNCHANGED statusVars
  BY <1>2, <1>11 DEF statusVars
<1> QED BY <1>7, <1>8, <1>9, <1>10, <1>11 DEF StatusNext, Elsewhere, Readers

LEMMA RefusalsStay ==
    ASSUME StatusIInv, RefusalsStand, [StatusNext]_statusVars
    PROVE  RefusalsStand'
<1>1. OneWord /\ StatusTypeOK /\ AllSound
  BY StatusStepWord DEF StatusIInv
<1>2. StatusTypeOK' /\ AllSound'
  BY StatusInductive DEF StatusIInv
<1>3. SUFFICES ASSUME NEW q \in Readers, reader'[q].pc = "decide",
                      reader'[q].revoked = "checked"
               PROVE  Standing(reader[q].order, reader[q].doc)'
  BY DEF RefusalsStand
<1>4. reader'[q].doc \in Statements /\ reader'[q].order \in Orders
  BY <1>2, <1>3 DEF AllSound, Sound, StatusTypeOK, ReaderState
<1>5. CASE reader'[q] = reader[q]
  <2>1. Standing(reader[q].order, reader[q].doc)
    BY <1>3, <1>5 DEF RefusalsStand
  <2>2. \A o \in Orders, d \in Statements : Standing(o, d) => Standing(o, d)'
    BY <1>1, StandingStays
  <2>3. PICK o \in Orders, d \in Statements : o = reader[q].order /\ d = reader[q].doc
    BY <1>4, <1>5
  <2> QED BY <1>5, <2>1, <2>2, <2>3 DEF Standing
<1>6. CASE /\ order' = order /\ replays' = replays
           /\ Overturns(reader'[q].doc, order[reader'[q].order])
  <2>1. order[reader'[q].order].dated \in Nat
    BY <1>1, <1>4, OrderFields
  <2> QED BY <1>6, <2>1 DEF Standing, Overturns, Revocable
<1> QED BY <1>3, <1>5, <1>6, StatusStepDeciding DEF Deciding

RefusalsIInv == StatusIInv /\ RefusalsStand

LEMMA RefusalsInductive ==
    /\ StatusInit => RefusalsIInv
    /\ RefusalsIInv /\ [StatusNext]_statusVars => RefusalsIInv'
<1>1. StatusInit => RefusalsStand
  BY DEF StatusInit, RefusalsStand, Nobody
<1> QED BY <1>1, StatusInitial, StatusInductive, RefusalsStay DEF RefusalsIInv

\* The mapped variables, as BankVerdict sees them.
States == [o \in Orders |-> order[o].state]
Verdicts == [o \in Orders |-> order[o].verdict]
DatesOf == [o \in Orders |-> order[o].dated]
Again == [o \in Orders |-> replays[o] > 0]

LEMMA SameIsStutter ==
    ASSUME StatusTypeOK, \A o \in Orders : SameWord(o)
    PROVE  UNCHANGED <<States, Verdicts, DatesOf, Again>>
BY DEF SameWord, States, Verdicts, DatesOf, Again

LEMMA WordIsVerdict ==
    ASSUME StatusTypeOK, NEW o \in Orders, WordStep(o),
           \A p \in Orders : p # o => SameWord(p)
    PROVE  Verdict!Next
<1>1. ASSUME NEW to, Carries(o, to)
      PROVE  /\ States' = [States EXCEPT ![o] = to]
             /\ Verdicts' = Verdicts /\ DatesOf' = DatesOf
  BY <1>1 DEF Carries, SameWord, States, Verdicts, DatesOf
<1>2. ASSUME NEW d \in Statements, Hears(o, d)
      PROVE  /\ States' = [States EXCEPT ![o] = StateOf(d)]
             /\ Verdicts' = [Verdicts EXCEPT ![o] = Resolve(d)]
             /\ DatesOf' = [DatesOf EXCEPT ![o] = Says[d].written]
             /\ Again' = Again
  BY <1>2 DEF Hears, SameWord, States, Verdicts, DatesOf, Again
<1>3. ASSUME replays'[o] = replays[o] PROVE Again' = Again
  BY <1>3 DEF Again, SameWord
<1>4. ASSUME replays'[o] = replays[o] + 1 PROVE Again' = [Again EXCEPT ![o] = TRUE]
  <2>1. replays[o] \in Nat
    BY DEF StatusTypeOK
  <2>2. (replays'[o] > 0) = TRUE
    BY <1>4, <2>1
  <2>3. \A p \in Orders : p # o => replays'[p] = replays[p]
    BY DEF SameWord
  <2>4. \A p \in Orders : (replays'[p] > 0) = (IF p = o THEN TRUE ELSE Again[p])
    BY <2>2, <2>3 DEF Again
  <2>5. [Again EXCEPT ![o] = TRUE] = [p \in Orders |-> IF p = o THEN TRUE ELSE Again[p]]
    BY DEF Again
  <2>6. Again' = [p \in Orders |-> replays'[p] > 0]
    BY DEF Again
  <2> QED BY <2>4, <2>5, <2>6
<1>5. States[o] = order[o].state /\ Verdicts[o] = order[o].verdict
      /\ DatesOf[o] = order[o].dated /\ Again[o] = (replays[o] > 0)
  BY DEF States, Verdicts, DatesOf, Again
<1>6. \A d \in Statements : Says[d].written \in {Says[e].written : e \in Statements}
  OBVIOUS
<1>7. ASSUME NEW from \in OrderStates, NEW to \in OrderStates, order[o].state = from,
             Carries(o, to), replays'[o] = replays[o],
             <<from, to>> \in {<<"accepted", "submitting">>, <<"submitting", "submitted">>,
                               <<"submitting", "accepted">>, <<"submitting", "rejected">>}
      PROVE  Verdict!Upload(o)
  <2>1. /\ States' = [States EXCEPT ![o] = to] /\ States[o] = from
        /\ Verdicts' = Verdicts /\ DatesOf' = DatesOf /\ Again' = Again
    BY <1>1, <1>3, <1>5, <1>7
  <2> QED BY <1>7, <2>1 DEF Verdict!Upload, Verdict!Moves, States, Verdicts, DatesOf, Again
<1>8. CASE order[o].state = "rejected" /\ Carries(o, "accepted") /\ replays'[o] = replays[o] + 1
  <2>1. Verdict!Replay(o)
    BY <1>1, <1>4, <1>5, <1>8 DEF Verdict!Replay, States, Verdicts, DatesOf, Again
  <2> QED BY <2>1 DEF Verdict!Next
<1>9. ASSUME NEW d \in Statements, Decides(d), Hears(o, d), order[o].state \in ReconcilesFrom
      PROVE  Verdict!Next
  <2>1. Verdict!Answer(o, Says[d].written)
    <3>1. CASE Resolve(d) \in Accepts /\ StateOf(d) = "acknowledged"
      <4>1. Verdict!Heard(o, "acknowledged", Resolve(d), Says[d].written)
        BY <1>2, <1>9, <3>1 DEF Verdict!Heard, States, Verdicts, DatesOf, Again
      <4> QED BY <1>5, <1>9, <3>1, <4>1 DEF Verdict!Answer, Accepts, ReconcilesFrom, States
    <3>2. CASE Resolve(d) = "refused" /\ StateOf(d) = "rejected"
      <4>1. Verdict!Heard(o, "rejected", "refused", Says[d].written)
        BY <1>2, <1>9, <3>2 DEF Verdict!Heard, States, Verdicts, DatesOf, Again
      <4> QED BY <1>5, <1>9, <4>1 DEF Verdict!Answer, ReconcilesFrom, States
    <3> QED BY <1>9, <3>1, <3>2, DecidedWord
  <2> QED BY <1>6, <2>1 DEF Verdict!Next
<1>10. ASSUME NEW d \in Statements, Decides(d), Resolve(d) = "refused", Hears(o, d),
              Standing(o, d), order[o].state = "acknowledged", order[o].verdict = "checked"
       PROVE  Verdict!Next
  <2>1. StateOf(d) = "rejected"
    BY <1>10 DEF StateOf
  <2>2. Verdict!Heard(o, "rejected", "refused", Says[d].written)
    BY <1>2, <1>10, <2>1 DEF Verdict!Heard, States, Verdicts, DatesOf, Again
  <2>3. \/ 0 < DatesOf[o] /\ DatesOf[o] < Says[d].written
        \/ Again[o]
    BY <1>5, <1>10 DEF Standing
  <2>4. Verdict!Overturn(o, Says[d].written)
    BY <1>5, <1>10, <2>2, <2>3 DEF Verdict!Overturn, States, Verdicts, DatesOf, Again
  <2> QED BY <1>6, <2>4 DEF Verdict!Next
<1>11. CASE order[o].state \in ReturnsFrom /\ Carries(o, "returned") /\ replays'[o] = replays[o]
  <2>1. /\ States' = [States EXCEPT ![o] = "returned"] /\ States[o] \in ReturnsFrom
        /\ Verdicts' = Verdicts /\ DatesOf' = DatesOf /\ Again' = Again
    BY <1>1, <1>3, <1>5, <1>11
  <2>2. Verdict!Return(o)
    BY <2>1 DEF Verdict!Return, Verdict!Moves, ReturnsFrom, States, Verdicts, DatesOf, Again
  <2> QED BY <2>2 DEF Verdict!Next
<1>12. order[o].state \in OrderStates
  BY OrderFields
<1>13. ASSUME Verdict!Upload(o) PROVE Verdict!Next
  BY <1>13 DEF Verdict!Next
<1> QED BY <1>7, <1>8, <1>9, <1>10, <1>11, <1>12, <1>13 DEF WordStep

\* The order moves only the way BankVerdict allows: not from under a worker, not
\* back from a return, and not from an acknowledgement by a refusal, unless that
\* is later, or the order was replayed in between (_move, _revocable).
THEOREM ImplementsVerdictHolds == StatusSpec => ImplementsVerdict
<1>1. StatusInit => Verdict!Init
  <2> SUFFICES ASSUME StatusInit PROVE Verdict!Init
    OBVIOUS
  <2>1. \A o \in Orders : /\ order[o].state = "accepted" /\ order[o].verdict = "none"
                         /\ order[o].dated = 0
    BY DEF StatusInit, NewOrder
  <2>2. \A o \in Orders : (replays[o] > 0) = FALSE
    BY DEF StatusInit
  <2> QED BY <2>1, <2>2 DEF Verdict!Init
<1>2. RefusalsIInv /\ [StatusNext]_statusVars => [Verdict!Next]_Verdict!vars
  <2> SUFFICES ASSUME RefusalsIInv, [StatusNext]_statusVars
               PROVE  Verdict!Next \/ UNCHANGED Verdict!vars
    OBVIOUS
  <2>1. StatusTypeOK /\ OneWord
    BY StatusStepWord DEF RefusalsIInv, StatusIInv
  <2>2. CASE \A o \in Orders : SameWord(o)
    <3>1. UNCHANGED <<States, Verdicts, DatesOf, Again>>
      BY <2>1, <2>2, SameIsStutter
    <3> QED BY <3>1 DEF Verdict!vars, States, Verdicts, DatesOf, Again
  <2>3. CASE \E o \in Orders : WordStep(o) /\ \A p \in Orders : p # o => SameWord(p)
    BY <2>1, <2>3, WordIsVerdict
  <2> QED BY <2>1, <2>2, <2>3 DEF OneWord
<1> QED BY <1>1, <1>2, RefusalsInductive, PTL DEF StatusSpec, ImplementsVerdict, Verdict!Spec

-----------------------------------------------------------------------------
(* Suspicions, and the person who decides.                                 *)

\* What one step may do to the suspicion and the return of o: nothing, raise a
\* suspicion where none is open, book a return, confirm, dismiss.
DoubtStep(o) ==
    \/ /\ KeepsDoubt(o) /\ KeepsReturn(o)
       /\ order[o].state = "returned" => order'[o].state = "returned"
    \/ /\ order[o].state \in ReturnsFrom /\ order[o].doubt # "open"
       /\ order'[o].state = order[o].state /\ KeepsReturn(o) /\ person' = person
    \/ /\ order[o].state \in ReturnsFrom /\ KeepsDoubt(o) /\ order'[o].matched = "bank"
    \/ \E p \in People :
          /\ person[p].pc = "confirming" /\ person[p].order = o
          /\ KeepsDoubt(o) /\ order[o].doubt = "open"
          /\ order'[o].state = "returned" /\ order'[o].matched = "operator"
          /\ order'[o].returned = person[p].booking
    \/ /\ order[o].state # "returned" /\ order'[o].state = order[o].state
       /\ KeepsReturn(o) /\ person' = person
       /\ \E p \in People : person[p] = NoDecision

LEMMA ReaderStepDoubt ==
    ASSUME StatusIInv, NEW r \in Readers, Applies(r), NEW o \in Orders
    PROVE  DoubtStep(o) /\ person' = person
<1>1. StatusTypeOK /\ AllSound
  BY DEF StatusIInv
<1>2. person' = person
  BY DEF Applies, ReadReport, Move, Ignore, RecordMove, ReadBooking, Return,
         ReadCredit, Suspect, RecordSuspicion
<1>3. CASE order'[o] = order[o]
  BY <1>2, <1>3 DEF DoubtStep, KeepsDoubt, KeepsReturn
<1>4. CASE Move(r)
  <2> DEFINE m == reader[r].order
  <2>1. /\ Movable(r, order[m]) /\ KeepsDoubt(m) /\ KeepsReturn(m)
        /\ \A p \in Orders : p # m => order'[p] = order[p]
    BY <1>1, <1>4, MoveDoes DEF Gets
  <2>2. order[m].state # "returned"
    BY <2>1 DEF Movable, ReconcilesFrom
  <2> QED BY <1>2, <1>3, <2>1, <2>2 DEF DoubtStep
<1>5. CASE Return(r)
  <2> DEFINE m == reader[r].order
  <2>1. \/ /\ order[m].state \in ReturnsFrom /\ KeepsDoubt(m) /\ order'[m].matched = "bank"
           /\ \A p \in Orders : p # m => order'[p] = order[p]
        \/ order' = order
    BY <1>1, <1>5, ReturnDoes DEF Gets
  <2> QED BY <1>2, <1>3, <2>1 DEF DoubtStep
<1>6. CASE Suspect(r)
  <2> DEFINE m == reader[r].order
             b == Says[reader[r].doc].booking
  <2>1. \/ /\ order[m].state \in ReturnsFrom /\ Fresh(order[m], b) /\ KeepsReturn(m)
           /\ order'[m].state = order[m].state
           /\ \A p \in Orders : p # m => order'[p] = order[p]
        \/ order' = order
    BY <1>1, <1>6, SuspectDoes DEF Gets
  <2>2. Fresh(order[m], b) => order[m].doubt # "open"
    BY DEF Fresh
  <2> QED BY <1>2, <1>3, <2>1, <2>2 DEF DoubtStep
<1>7. CASE order' = order
  BY <1>3, <1>7
<1> QED BY <1>1, <1>2, <1>4, <1>5, <1>6, <1>7, ReadReportDoes, RecordsDoes, ReadBookingDoes,
           ReadCreditDoes DEF Applies

\* For one person, who confirms what is open: the suspicion that was read stays.
Confirming == \A p \in People : person[p].pc = "confirming" =>
    /\ order[person[p].order].doubt = "open"
    /\ order[person[p].order].suspect = person[p].booking

Confirmed == \A o \in Orders : order[o].matched = "operator" =>
    /\ order[o].state = "returned" /\ order[o].doubt = "open"
    /\ order[o].returned = order[o].suspect

ConfirmIInv == StatusIInv /\ Confirming /\ Confirmed

LEMMA DoubtKeeps ==
    ASSUME ConfirmIInv, \A p, q \in People : p = q, NEW o \in Orders, DoubtStep(o)
    PROVE  /\ order'[o].matched = "operator" =>
                  /\ order'[o].state = "returned" /\ order'[o].doubt = "open"
                  /\ order'[o].returned = order'[o].suspect
           /\ person' = person =>
                  \A p \in People : person[p].pc = "confirming" /\ person[p].order = o =>
                      order'[o].doubt = "open" /\ order'[o].suspect = person[p].booking
<1>1. order[o].matched = "operator" => /\ order[o].state = "returned" /\ order[o].doubt = "open"
                                      /\ order[o].returned = order[o].suspect
  BY DEF ConfirmIInv, Confirmed
<1>2. \A p \in People : person[p].pc = "confirming" /\ person[p].order = o =>
          order[o].doubt = "open" /\ order[o].suspect = person[p].booking
  BY DEF ConfirmIInv, Confirming
<1>3. CASE /\ KeepsDoubt(o) /\ KeepsReturn(o)
           /\ order[o].state = "returned" => order'[o].state = "returned"
  BY <1>1, <1>2, <1>3 DEF KeepsDoubt, KeepsReturn
<1>4. CASE /\ order[o].state \in ReturnsFrom /\ order[o].doubt # "open"
           /\ order'[o].state = order[o].state /\ KeepsReturn(o) /\ person' = person
  BY <1>1, <1>2, <1>4 DEF KeepsReturn, ReturnsFrom
<1>5. CASE order[o].state \in ReturnsFrom /\ KeepsDoubt(o) /\ order'[o].matched = "bank"
  BY <1>2, <1>5 DEF KeepsDoubt
<1>6. CASE \E p \in People :
              /\ person[p].pc = "confirming" /\ person[p].order = o
              /\ KeepsDoubt(o) /\ order[o].doubt = "open"
              /\ order'[o].state = "returned" /\ order'[o].matched = "operator"
              /\ order'[o].returned = person[p].booking
  BY <1>2, <1>6 DEF KeepsDoubt
<1>7. CASE /\ order[o].state # "returned" /\ order'[o].state = order[o].state
           /\ KeepsReturn(o) /\ person' = person
           /\ \E p \in People : person[p] = NoDecision
  <2>1. \A p \in People : person[p].pc # "confirming"
    BY <1>7 DEF NoDecision
  <2> QED BY <1>1, <1>7, <2>1 DEF KeepsReturn
<1> QED BY <1>3, <1>4, <1>5, <1>6, <1>7 DEF DoubtStep

LEMMA StatusStepDoubt ==
    ASSUME StatusIInv, [StatusNext]_statusVars, NEW o \in Orders
    PROVE  DoubtStep(o)
<1>1. StatusTypeOK /\ AllSound
  BY DEF StatusIInv
<1>2. ASSUME order'[o] = order[o] PROVE DoubtStep(o)
  BY <1>2 DEF DoubtStep, KeepsDoubt, KeepsReturn
<1>3. ASSUME NEW m \in Orders,
             ClaimOrder(m) \/ Submit(m) \/ RetryLater(m) \/ Refuse(m) \/ FallBack(m)
      PROVE  DoubtStep(o)
  <2>1. /\ order[m].state # "returned" /\ KeepsDoubt(m) /\ KeepsReturn(m)
        /\ \A p \in Orders : p # m => order'[p] = order[p]
    BY <1>1, <1>3, UploadDoes DEF Uploaded, Gets
  <2> QED BY <1>2, <2>1 DEF DoubtStep
<1>4. ASSUME NEW m \in Orders, Replay(m) PROVE DoubtStep(o)
  <2>1. /\ order[m].state # "returned" /\ KeepsDoubt(m) /\ KeepsReturn(m)
        /\ \A p \in Orders : p # m => order'[p] = order[p]
    BY <1>1, <1>4, ReplayDoes DEF Replayed, Gets
  <2> QED BY <1>2, <2>1 DEF DoubtStep
<1>5. ASSUME NEW p \in People, Confirm(p) PROVE DoubtStep(o)
  <2> DEFINE m == person[p].order
  <2>1. \/ /\ order[m].doubt = "open" /\ KeepsDoubt(m)
           /\ order'[m].state = "returned" /\ order'[m].matched = "operator"
           /\ order'[m].returned = person[p].booking
           /\ \A q \in Orders : q # m => order'[q] = order[q]
        \/ order' = order
    BY <1>1, <1>5, ConfirmDoes DEF Gets
  <2>2. person[p].pc = "confirming"
    BY <1>5 DEF Confirm
  <2> QED BY <1>2, <2>1, <2>2 DEF DoubtStep
<1>6. ASSUME NEW p \in People, NEW m \in Orders, Dismiss(p, m) PROVE DoubtStep(o)
  <2>1. /\ order[m].state # "returned" /\ order'[m].state = order[m].state
        /\ KeepsReturn(m) /\ person' = person /\ person[p] = NoDecision
        /\ \A q \in Orders : q # m => order'[q] = order[q]
    BY <1>1, <1>6, DismissDoes DEF Gets
  <2> QED BY <1>2, <2>1 DEF DoubtStep
<1>7. ASSUME NEW p \in People, NEW m \in Orders, ReadConfirm(p, m) PROVE DoubtStep(o)
  BY <1>2, <1>7 DEF ReadConfirm
<1>8. ASSUME NEW r \in Readers, Applies(r) PROVE DoubtStep(o)
  BY <1>8, ReaderStepDoubt
<1>9. ASSUME NEW r \in Readers,
             \/ \E d \in Statements : StoreStatement(r, d)
             \/ Announce(r) \/ LosesApplication(r) \/ Reread(r)
      PROVE  DoubtStep(o)
  BY <1>2, <1>9 DEF StoreStatement, Announce, LosesApplication, Reread
<1>10. CASE UNCHANGED statusVars
  BY <1>2, <1>10 DEF statusVars
<1> QED BY <1>3, <1>4, <1>5, <1>6, <1>7, <1>8, <1>9, <1>10
        DEF StatusNext, Elsewhere, Readers

\* The people's variable changes only as a person reads, or has confirmed.
LEMMA StatusStepPeople ==
    ASSUME [StatusNext]_statusVars
    PROVE  \/ person' = person
           \/ \E p \in People, o \in Orders : ReadConfirm(p, o)
           \/ \E p \in People : person' = [person EXCEPT ![p] = NoDecision]
<1>1. ASSUME NEW r \in Readers, Applies(r) PROVE person' = person
  BY <1>1 DEF Applies, ReadReport, Move, Ignore, RecordMove, ReadBooking, Return, ReadCredit,
              Suspect, RecordSuspicion
<1>2. ASSUME NEW r, Announce(r) \/ LosesApplication(r) \/ Reread(r) PROVE person' = person
  BY <1>2 DEF Announce, LosesApplication, Reread
<1>3. ASSUME NEW r, NEW d, StoreStatement(r, d) PROVE person' = person
  BY <1>3 DEF StoreStatement
<1>4. ASSUME NEW o, NEW from, NEW row, Uploads(o, from, row) PROVE person' = person
  BY <1>4 DEF Uploads
<1>5. ASSUME NEW o, \/ ClaimOrder(o) \/ Submit(o) \/ RetryLater(o) \/ Refuse(o) \/ FallBack(o)
                    \/ Replay(o)
      PROVE  person' = person
  BY <1>4, <1>5 DEF ClaimOrder, Submit, RetryLater, Refuse, FallBack, Replay
<1>6. ASSUME NEW p, NEW o, Dismiss(p, o) PROVE person' = person
  BY <1>6 DEF Dismiss
<1>7. ASSUME NEW p, Confirm(p) PROVE person' = [person EXCEPT ![p] = NoDecision]
  BY <1>7 DEF Confirm
<1>8. UNCHANGED statusVars => person' = person BY DEF statusVars
<1> QED BY <1>1, <1>2, <1>3, <1>5, <1>6, <1>7, <1>8 DEF StatusNext, Elsewhere, Readers

LEMMA ConfirmInductive ==
    ASSUME ConfirmsOpen, \A p, q \in People : p = q,
           ConfirmIInv, [StatusNext]_statusVars
    PROVE  ConfirmIInv'
<1>1. StatusIInv /\ StatusTypeOK /\ AllSound
  BY DEF ConfirmIInv, StatusIInv
<1>2. StatusIInv'
  BY <1>1, StatusInductive
<1>3. Confirmed'
  BY <1>1, StatusStepDoubt, DoubtKeeps DEF Confirmed
<1>4. Confirming'
  <2>1. CASE person' = person
    <3>1. ASSUME NEW p \in People, person[p].pc = "confirming"
          PROVE  /\ order'[person[p].order].doubt = "open"
                 /\ order'[person[p].order].suspect = person[p].booking
      <4>1. person[p].order \in Orders
        BY <1>1, <3>1 DEF AllSound
      <4>2. PICK o \in Orders : o = person[p].order
        BY <4>1
      <4>3. DoubtStep(o)
        BY <1>1, StatusStepDoubt
      <4> QED BY <2>1, <3>1, <4>2, <4>3, DoubtKeeps
    <3> QED BY <2>1, <3>1 DEF Confirming
  <2>2. CASE \E p \in People, o \in Orders : ReadConfirm(p, o)
    <3>1. PICK p \in People, o \in Orders : ReadConfirm(p, o)
      BY <2>2
    <3> DEFINE s == [pc |-> "confirming", order |-> o, booking |-> order[o].suspect]
    <3>2. order' = order /\ order[o].doubt = "open"
      BY <3>1 DEF ReadConfirm
    <3>3. person' = [person EXCEPT ![p] = s]
      BY <3>1 DEF ReadConfirm
    <3>4. s.order = o /\ s.booking = order[o].suspect
      OBVIOUS
    <3> HIDE DEF s
    <3>5. \A q \in People : person'[q] = s
      BY <1>1, <3>3 DEF StatusTypeOK
    <3> QED BY <3>2, <3>4, <3>5 DEF Confirming
  <2>3. CASE \E p \in People : person' = [person EXCEPT ![p] = NoDecision]
    <3>1. \A q \in People : person'[q] = NoDecision
      BY <1>1, <2>3 DEF StatusTypeOK
    <3> QED BY <3>1 DEF Confirming, NoDecision
  <2> QED BY <2>1, <2>2, <2>3, StatusStepPeople
<1> QED BY <1>2, <1>3, <1>4 DEF ConfirmIInv

LEMMA ConfirmInitial == StatusInit => ConfirmIInv
<1>1. StatusInit => Confirming /\ Confirmed
  BY DEF StatusInit, Confirming, Confirmed, NoDecision, NewOrder
<1> QED BY <1>1, StatusInitial DEF ConfirmIInv

\* What a person confirmed is the booking the order was suspected for, when one
\* person at a time works on returns and confirms a suspicion that is open: no
\* reader replaces it between the read and the write of confirm (_raise).
THEOREM ConfirmedIsSuspectedHolds ==
    ASSUME ConfirmsOpen, \A p, q \in People : p = q
    PROVE  StatusSpec => []ConfirmedIsSuspected
<1>1. ConfirmIInv => ConfirmedIsSuspected
  BY DEF ConfirmIInv, Confirmed, ConfirmedIsSuspected
<1>2. ConfirmIInv /\ [StatusNext]_statusVars => ConfirmIInv'
  BY ConfirmInductive
<1> QED BY <1>1, <1>2, ConfirmInitial, PTL DEF StatusSpec

-----------------------------------------------------------------------------
(* A re-reading that nothing disturbs.                                     *)

\* What a transfer is recognised by says whose it is.
DistinctReferences == \A o, p \in Orders : Reference[o] = Reference[p] => o = p

LEMMA OpenIsOne ==
    ASSUME DistinctReferences, NEW ref
    PROVE  /\ \A o \in Open(ref) : Open(ref) = {o}
           /\ Cardinality(Open(ref)) = 1 <=> Open(ref) # {}
<1>1. \A o \in Open(ref) : Open(ref) = {o}
  BY DEF Open, DistinctReferences
<1>2. CASE Open(ref) = {}
  <2>1. Cardinality({}) = 0
    BY FS_EmptySet
  <2> QED BY <1>1, <1>2, <2>1
<1>3. CASE Open(ref) # {}
  <2>1. PICK o \in Open(ref) : Open(ref) = {o}
    BY <1>1, <1>3
  <2>2. Cardinality({o}) = 1
    BY FS_Singleton
  <2> QED BY <1>1, <1>3, <2>1, <2>2
<1> QED BY <1>2, <1>3

\* Document d is about order o, and would still do something to it.
Wants(d, o) ==
    \/ /\ Says[d].kind = "report" /\ OrderFor(d) # NoOrder /\ o = OrderFor(d) /\ Decides(d)
       /\ order[o].state \in ReconcilesFrom \/ Overturns(d, order[o])
    \/ /\ Says[d].kind = "marked" /\ Says[d].whole /\ order[o].state \in ReturnsFrom
       /\ IF Says[d].names \in Messages THEN o = Says[d].names[1]
          ELSE Reference[o] = Says[d].reference
    \/ /\ Says[d].kind = "unmarked" /\ order[o].state \in ReturnsFrom
       /\ Reference[o] = Says[d].reference /\ Fresh(order[o], Says[d].booking)

StillMovesIsWanted ==
    \A d \in Statements : StillMoves(d) <=> \E o \in Orders : Wants(d, o)

LEMMA KindIs ==
    ASSUME NEW d \in Statements
    PROVE  Says[d].kind \in {"report", "marked", "unmarked"}
BY StatementsAssumption DEF Document, Report, Booking

LEMMA WantedNow ==
    ASSUME DistinctReferences
    PROVE  StillMovesIsWanted
<1> SUFFICES ASSUME NEW d \in Statements
             PROVE  StillMoves(d) <=> \E o \in Orders : Wants(d, o)
  BY DEF StillMovesIsWanted
<1>1. CASE Says[d].kind = "report"
  BY <1>1, OrderForTyped DEF StillMoves, Wants
<1>2. CASE Says[d].kind = "marked"
  <2>1. CASE Says[d].names \in Messages
    <3>1. Named(d) = {Says[d].names[1]} /\ Says[d].names[1] \in Orders
      BY <2>1 DEF Named, Messages
    <3> QED BY <1>2, <2>1, <3>1 DEF StillMoves, Wants
  <2>2. CASE Says[d].names \notin Messages
    <3>1. Named(d) = Open(Says[d].reference)
      BY <2>2, OpenIsOne DEF Named
    <3> QED BY <1>2, <2>2, <3>1 DEF StillMoves, Wants, Open
  <2> QED BY <2>1, <2>2
<1>3. CASE Says[d].kind = "unmarked"
  <2>1. /\ Cardinality(Open(Says[d].reference)) = 1 <=> Open(Says[d].reference) # {}
    BY OpenIsOne
  <2> QED BY <1>3, <2>1 DEF StillMoves, Wants, Open
<1> QED BY <1>1, <1>2, <1>3, KindIs

LEMMA WantedNext ==
    ASSUME DistinctReferences
    PROVE  StillMovesIsWanted'
<1>1. StillMovesIsWanted
  BY WantedNow
<1> QED BY <1>1, PTL

Quiet == \A o \in Orders : order[o].state \notin {"accepted", "submitting"}

\* What a reader may do to o: nothing, answer, overturn, book back, suspect.
SettleStep(o) ==
    \/ /\ order'[o].state = order[o].state /\ order'[o].verdict = order[o].verdict
       /\ order'[o].dated = order[o].dated /\ KeepsDoubt(o)
    \/ /\ order[o].state \in ReconcilesFrom /\ KeepsDoubt(o)
       /\ order'[o].state \in {"acknowledged", "rejected"}
    \/ /\ order[o].state = "acknowledged" /\ KeepsDoubt(o) /\ order'[o].state = "rejected"
    \/ /\ order[o].state \in ReturnsFrom /\ KeepsDoubt(o) /\ order'[o].state = "returned"
    \/ /\ order'[o].state = order[o].state /\ order'[o].verdict = order[o].verdict
       /\ order'[o].dated = order[o].dated /\ order'[o].doubt = "open"

LEMMA ReaderSettles ==
    ASSUME StatusIInv, NEW r \in Readers, Applies(r), NEW o \in Orders
    PROVE  SettleStep(o)
<1>1. StatusTypeOK /\ AllSound
  BY DEF StatusIInv
<1>2. CASE order'[o] = order[o]
  BY <1>2 DEF SettleStep, KeepsDoubt
<1>3. CASE Move(r)
  <2> DEFINE m == reader[r].order
             d == reader[r].doc
  <2>1. /\ Movable(r, order[m]) /\ KeepsDoubt(m) /\ Decides(d) /\ order'[m].state = StateOf(d)
        /\ \A p \in Orders : p # m => order'[p] = order[p]
    BY <1>1, <1>3, MoveDoes DEF Gets
  <2>2. d \in Statements /\ Sound(r) /\ reader[r].pc = "decide"
    BY <1>1, <1>3, ReaderFields DEF AllSound, Move
  <2>3. CASE reader[r].revoked = "none"
    <3>1. order[m].state \in ReconcilesFrom /\ order'[m].state \in {"acknowledged", "rejected"}
      BY <2>1, <2>3 DEF Movable, StateOf
    <3> QED BY <1>2, <2>1, <3>1 DEF SettleStep, KeepsDoubt
  <2>4. CASE reader[r].revoked # "none"
    <3>1. order[m].state = "acknowledged" /\ order'[m].state = "rejected"
      BY <2>1, <2>2, <2>4 DEF Movable, Sound, StateOf
    <3> QED BY <1>2, <2>1, <3>1 DEF SettleStep, KeepsDoubt
  <2> QED BY <2>3, <2>4
<1>4. CASE Return(r)
  <2> DEFINE m == reader[r].order
  <2>1. \/ /\ order[m].state \in ReturnsFrom /\ KeepsDoubt(m) /\ order'[m].state = "returned"
           /\ \A p \in Orders : p # m => order'[p] = order[p]
        \/ order' = order
    BY <1>1, <1>4, ReturnDoes DEF Gets
  <2> QED BY <1>2, <2>1 DEF SettleStep, KeepsDoubt
<1>5. CASE Suspect(r)
  <2> DEFINE m == reader[r].order
  <2>1. \/ /\ order'[m].state = order[m].state /\ order'[m].verdict = order[m].verdict
           /\ order'[m].dated = order[m].dated /\ order'[m].doubt = "open"
           /\ \A p \in Orders : p # m => order'[p] = order[p]
        \/ order' = order
    BY <1>1, <1>5, SuspectDoes DEF Gets
  <2> QED BY <1>2, <2>1 DEF SettleStep
<1>6. CASE order' = order
  BY <1>2, <1>6
<1> QED BY <1>1, <1>3, <1>4, <1>5, <1>6, ReadReportDoes, RecordsDoes, ReadBookingDoes,
           ReadCreditDoes DEF Applies

LEMMA QuietStays ==
    ASSUME StatusTypeOK, Quiet, \A o \in Orders : SettleStep(o)
    PROVE  Quiet'
BY OrderFields DEF Quiet, SettleStep

\* What has nothing more to say goes on having nothing more to say.
LEMMA UnwantedStays ==
    ASSUME StatusTypeOK, Quiet, NEW o \in Orders, SettleStep(o), NEW d \in Statements,
           ~Wants(d, o)
    PROVE  ~Wants(d, o)'
<1>1. order[o].state \in OrderStates \ {"accepted", "submitting"}
  BY OrderFields DEF Quiet
<1>2. CASE Says[d].kind = "report"
  <2>1. CASE OrderFor(d) # NoOrder /\ o = OrderFor(d) /\ Decides(d)
    <3>1. order[o].state \notin ReconcilesFrom /\ ~Overturns(d, order[o])
      BY <1>2, <2>1 DEF Wants
    <3>2. order'[o].state \notin ReconcilesFrom /\ ~Overturns(d, order'[o])
      BY <1>1, <3>1 DEF SettleStep, Overturns, ReconcilesFrom, ReturnsFrom, OrderStates
    <3> QED BY <1>2, <3>2 DEF Wants
  <2>2. CASE ~(OrderFor(d) # NoOrder /\ o = OrderFor(d) /\ Decides(d))
    BY <1>2, <2>2 DEF Wants
  <2> QED BY <2>1, <2>2
<1>3. CASE Says[d].kind = "marked"
  <2>1. CASE order[o].state \in ReturnsFrom
    BY <1>3, <2>1 DEF Wants
  <2>2. CASE order[o].state \notin ReturnsFrom
    <3>1. order'[o].state \notin ReturnsFrom
      BY <1>1, <2>2 DEF SettleStep, ReconcilesFrom, ReturnsFrom, OrderStates
    <3> QED BY <1>3, <3>1 DEF Wants
  <2> QED BY <2>1, <2>2
<1>4. CASE Says[d].kind = "unmarked"
  <2>1. CASE order[o].state \in ReturnsFrom /\ Reference[o] = Says[d].reference
    <3>1. ~Fresh(order[o], Says[d].booking)
      BY <1>4, <2>1 DEF Wants
    <3>2. ~Fresh(order'[o], Says[d].booking)
      BY <3>1 DEF SettleStep, KeepsDoubt, Fresh
    <3> QED BY <1>4, <3>2 DEF Wants
  <2>2. CASE order[o].state \notin ReturnsFrom
    <3>1. order'[o].state \notin ReturnsFrom
      BY <1>1, <2>2 DEF SettleStep, ReconcilesFrom, ReturnsFrom, OrderStates
    <3> QED BY <1>4, <3>1 DEF Wants
  <2>3. CASE Reference[o] # Says[d].reference
    BY <1>4, <2>3 DEF Wants
  <2> QED BY <2>1, <2>2, <2>3
<1> QED BY <1>2, <1>3, <1>4, KindIs

\* What the re-reading r has still to do, and knows about what it is doing.
Through(r) ==
    LET d == reader[r].doc
        o == reader[r].order IN
    /\ \A e \in kept : StillMoves(e) => e \in reader[r].rest \/ e = d
    /\ reader[r].pc = "decide" =>
           reader[r].revoked = IF Overturns(d, order[o]) THEN "checked" ELSE "none"
    /\ reader[r].pc \in {"moved", "raised"} => ~StillMoves(d)
    /\ reader[r].pc = "booked" => Says[d].whole /\ o \in Named(d)
    /\ reader[r].pc = "like" => o \in Open(Says[d].reference)

OneRereads == \A r, q \in Readers : reader[r].again /\ reader[q].again => r = q

Settling ==
    /\ OneRereads
    /\ calm = "reading" => Quiet /\ \A r \in Readers : reader[r].again => Through(r)
    /\ calm = "settled" =>
           /\ \A r \in Readers : ~reader[r].again
           /\ \A d \in kept : ~StillMoves(d)

\* A document is left only when it has nothing more to say.
LeavesNothing(r, d) == Leaves(r) /\ ~StillMoves(d)'

GoesOnThrough(r, d) ==
    /\ \A q \in Readers : q # r => reader'[q] = reader[q]
    /\ reader'[r].again /\ reader'[r].doc = d /\ reader'[r].rest = reader[r].rest
    /\ LET o == reader'[r].order IN
       /\ reader'[r].pc = "decide" =>
              reader'[r].revoked = IF Overturns(d, order'[o]) THEN "checked" ELSE "none"
       /\ reader'[r].pc \in {"moved", "raised"} => ~StillMoves(d)'
       /\ reader'[r].pc = "booked" => Says[d].whole /\ o \in Named(d)'
       /\ reader'[r].pc = "like" => o \in Open(Says[d].reference)'

LEMMA SameOrders ==
    ASSUME order' = order, NEW d
    PROVE  /\ StillMoves(d)' <=> StillMoves(d)
           /\ Named(d)' = Named(d) /\ Open(Says[d].reference)' = Open(Says[d].reference)
BY DEF StillMoves, Named, Open

LEMMA ReadThrough ==
    ASSUME DistinctReferences, StatusIInv, NEW r \in Readers,
           NEW d, d = reader[r].doc, reader[r].again, Through(r),
           \/ ReadReport(r) \/ ReadBooking(r) \/ ReadCredit(r)
           \/ Ignore(r) \/ RecordMove(r) \/ RecordSuspicion(r)
    PROVE  LeavesNothing(r, d) \/ GoesOnThrough(r, d)
<1>1. StatusTypeOK /\ AllSound /\ d \in Statements
  BY ReaderFields DEF StatusIInv
<1>2. order' = order
  BY <1>1, ReadReportDoes, ReadBookingDoes, ReadCreditDoes, RecordsDoes
<1>3. /\ StillMoves(d)' <=> StillMoves(d)
      /\ Named(d)' = Named(d) /\ Open(Says[d].reference)' = Open(Says[d].reference)
  BY <1>2, SameOrders
<1>4. CASE ReadReport(r)
  <2> DEFINE o == OrderFor(d)
             word == IF Overturns(d, order[o]) THEN order[o].verdict ELSE "none"
  <2>1. Says[d].kind = "report"
    BY <1>1, <1>4, ReadReportDoes
  <2>2. CASE Leaves(r) /\ (o = NoOrder \/ ~Decides(d))
    <3>1. ~StillMoves(d)
      BY <2>1, <2>2 DEF StillMoves
    <3> QED BY <1>3, <2>2, <3>1 DEF LeavesNothing
  <2>3. CASE GoesTo(r, "decide", o, word)
    <3>1. Overturns(d, order[o]) => order[o].verdict = "checked"
      BY DEF Overturns, Revocable
    <3> QED BY <1>2, <2>3, <3>1 DEF GoesTo, GoesOnThrough
  <2> QED BY <1>1, <1>4, <2>2, <2>3, ReadReportDoes
<1>5. CASE ReadBooking(r)
  <2>1. Says[d].kind = "marked"
    BY <1>1, <1>5, ReadBookingDoes
  <2>2. CASE Leaves(r) /\ (Named(d) = {} \/ ~Says[d].whole)
    <3>1. ~StillMoves(d)
      BY <2>1, <2>2 DEF StillMoves
    <3> QED BY <1>3, <2>2, <3>1 DEF LeavesNothing
  <2>3. CASE \E o \in Named(d) : Says[d].whole /\ GoesTo(r, "booked", o, reader[r].revoked)
    BY <1>3, <2>3 DEF GoesTo, GoesOnThrough
  <2> QED BY <1>1, <1>5, <2>2, <2>3, ReadBookingDoes
<1>6. CASE ReadCredit(r)
  <2>1. Says[d].kind = "unmarked"
    BY <1>1, <1>6, ReadCreditDoes
  <2>2. CASE Leaves(r) /\ Cardinality(Open(Says[d].reference)) # 1
    <3>1. ~StillMoves(d)
      BY <2>1, <2>2 DEF StillMoves
    <3> QED BY <1>3, <2>2, <3>1 DEF LeavesNothing
  <2>3. CASE \E o \in Open(Says[d].reference) : GoesTo(r, "like", o, reader[r].revoked)
    BY <1>3, <2>3 DEF GoesTo, GoesOnThrough
  <2> QED BY <1>1, <1>6, <2>2, <2>3, ReadCreditDoes
<1>7. CASE Ignore(r)
  <2> DEFINE o == reader[r].order
  <2>1. /\ reader[r].pc = "decide" /\ ~Movable(r, order[o])
        /\ reader[r].revoked = IF Overturns(d, order[o]) THEN "checked" ELSE "none"
    BY <1>7 DEF Ignore, Through
  <2>2. Says[d].kind = "report" /\ o = OrderFor(d)
    BY <1>1, <2>1 DEF AllSound, Sound
  <2>3. ~Overturns(d, order[o]) /\ order[o].state \notin ReconcilesFrom
    BY <2>1 DEF Movable, Overturns, Revocable
  <2>4. ~StillMoves(d)
    BY <2>2, <2>3 DEF StillMoves
  <2> QED BY <1>1, <1>3, <1>7, <2>4, RecordsDoes DEF LeavesNothing
<1>8. CASE RecordMove(r) \/ RecordSuspicion(r)
  <2>1. ~StillMoves(d)
    BY <1>8 DEF RecordMove, RecordSuspicion, Through
  <2> QED BY <1>1, <1>3, <1>8, <2>1, RecordsDoes DEF LeavesNothing
<1> QED BY <1>4, <1>5, <1>6, <1>7, <1>8

LEMMA MoveThrough ==
    ASSUME DistinctReferences, StatusIInv, NEW r \in Readers,
           NEW d, d = reader[r].doc, reader[r].again, Move(r)
    PROVE  GoesOnThrough(r, d)
<1> DEFINE o == reader[r].order
<1>1. StatusTypeOK /\ AllSound /\ d \in Statements
  BY ReaderFields DEF StatusIInv
<1>2. /\ o \in Orders /\ Decides(d) /\ GoesTo(r, "moved", o, reader[r].revoked)
      /\ order'[o].state = StateOf(d)
  BY <1>1, MoveDoes DEF Gets
<1>3. Says[d].kind = "report" /\ o = OrderFor(d)
  BY <1>1 DEF Move, AllSound, Sound
<1>4. order'[o].state \notin ReconcilesFrom /\ ~Overturns(d, order'[o])
  BY <1>2 DEF StateOf, ReconcilesFrom, Overturns
<1>5. ~StillMoves(d)'
  BY <1>3, <1>4 DEF StillMoves
<1> QED BY <1>2, <1>5 DEF GoesTo, GoesOnThrough

LEMMA ReturnThrough ==
    ASSUME DistinctReferences, StatusIInv, NEW r \in Readers,
           NEW d, d = reader[r].doc, reader[r].again, Through(r),
           Return(r)
    PROVE  LeavesNothing(r, d) \/ GoesOnThrough(r, d)
<1> DEFINE o == reader[r].order
<1>1. StatusTypeOK /\ AllSound /\ d \in Statements
  BY ReaderFields DEF StatusIInv
<1>2. Says[d].kind = "marked" /\ Says[d].whole /\ o \in Named(d) /\ o \in Orders
  BY <1>1 DEF Return, Through, AllSound, Sound
<1>3. Named(d) = {o}
  <2>1. CASE Says[d].names \in Messages
    BY <1>2, <2>1 DEF Named
  <2>2. CASE Says[d].names \notin Messages
    BY <1>2, <2>2, OpenIsOne DEF Named
  <2> QED BY <2>1, <2>2
<1>4. CASE /\ order[o].state \in ReturnsFrom
           /\ Gets(o, "returned", order[o].verdict, order[o].dated)
           /\ GoesTo(r, "moved", o, reader[r].revoked)
  <2>1. \A p \in Orders : ~Wants(d, p)'
    <3> SUFFICES ASSUME NEW p \in Orders, Wants(d, p)' PROVE FALSE
      OBVIOUS
    <3>1. order'[p].state \in ReturnsFrom
          /\ IF Says[d].names \in Messages THEN p = Says[d].names[1]
             ELSE Reference[p] = Says[d].reference
      BY <1>2 DEF Wants
    <3>2. order'[o].state = "returned" /\ (p # o => order'[p] = order[p])
      BY <1>4 DEF Gets
    <3>3. p # o
      BY <3>1, <3>2 DEF ReturnsFrom
    <3>4. CASE Says[d].names \in Messages
      BY <1>3, <3>1, <3>3, <3>4 DEF Named
    <3>5. CASE Says[d].names \notin Messages
      <4>1. o \in Open(Says[d].reference)
        BY <1>3, <3>5 DEF Named
      <4>2. Reference[o] = Reference[p]
        BY <3>1, <3>5, <4>1 DEF Open
      <4> QED BY <1>2, <3>3, <4>2 DEF DistinctReferences
    <3> QED BY <3>4, <3>5
  <2>2. ~StillMoves(d)'
    BY <1>1, <2>1, WantedNext DEF StillMovesIsWanted
  <2> QED BY <1>4, <2>2 DEF GoesTo, GoesOnThrough
<1>5. CASE order[o].state \notin ReturnsFrom /\ order' = order /\ Leaves(r)
  <2>1. ~StillMoves(d)
    BY <1>2, <1>3, <1>5 DEF StillMoves
  <2> QED BY <1>5, <2>1, SameOrders DEF LeavesNothing
<1> QED BY <1>1, <1>4, <1>5, ReturnDoes

LEMMA SuspectThrough ==
    ASSUME DistinctReferences, StatusIInv, NEW r \in Readers,
           NEW d, d = reader[r].doc, reader[r].again, Through(r),
           Suspect(r)
    PROVE  LeavesNothing(r, d) \/ GoesOnThrough(r, d)
<1> DEFINE o == reader[r].order
           b == Says[d].booking
<1>1. StatusTypeOK /\ AllSound /\ d \in Statements
  BY ReaderFields DEF StatusIInv
<1>2. Says[d].kind = "unmarked" /\ o \in Open(Says[d].reference) /\ o \in Orders
  BY <1>1 DEF Suspect, Through, AllSound, Sound
<1>3. Open(Says[d].reference) = {o} /\ order[o].state \in ReturnsFrom
  BY <1>2, OpenIsOne DEF Open
<1>4. CASE /\ Gets(o, order[o].state, order[o].verdict, order[o].dated)
           /\ order'[o].doubt = "open" /\ GoesTo(r, "raised", o, reader[r].revoked)
  <2>1. \A p \in Orders : ~Wants(d, p)'
    <3> SUFFICES ASSUME NEW p \in Orders, Wants(d, p)' PROVE FALSE
      OBVIOUS
    <3>1. Reference[p] = Says[d].reference /\ Fresh(order'[p], b)
      BY <1>2 DEF Wants
    <3>2. Reference[o] = Says[d].reference
      BY <1>2 DEF Open
    <3>3. p = o
      BY <1>2, <3>1, <3>2 DEF DistinctReferences
    <3> QED BY <1>4, <3>1, <3>3 DEF Fresh
  <2>2. ~StillMoves(d)'
    BY <1>1, <2>1, WantedNext DEF StillMovesIsWanted
  <2> QED BY <1>4, <2>2 DEF GoesTo, GoesOnThrough
<1>5. CASE /\ ~(order[o].state \in ReturnsFrom /\ Fresh(order[o], b))
           /\ order' = order /\ Leaves(r)
  <2>1. ~StillMoves(d)
    BY <1>2, <1>3, <1>5 DEF StillMoves
  <2> QED BY <1>5, <2>1, SameOrders DEF LeavesNothing
<1> QED BY <1>1, <1>4, <1>5, SuspectDoes

LEMMA AppliesThrough ==
    ASSUME DistinctReferences, StatusIInv, NEW r \in Readers,
           NEW d, d = reader[r].doc, reader[r].again, Through(r),
           Applies(r)
    PROVE  LeavesNothing(r, d) \/ GoesOnThrough(r, d)
BY ReadThrough, MoveThrough, ReturnThrough, SuspectThrough DEF Applies

\* Only a re-reading that starts while there is none reads again.
LEMMA AgainComes ==
    ASSUME StatusIInv, [StatusNext]_statusVars
    PROVE  \/ \A q \in Readers : reader'[q].again => reader[q].again
           \/ \E r \in Rereadings : Reread(r) /\ Begins
<1>1. StatusTypeOK /\ AllSound
  BY DEF StatusIInv
<1> DEFINE Fewer == \A q \in Readers : reader'[q].again => reader[q].again
<1>2. ASSUME reader' = reader PROVE Fewer
  BY <1>2
<1>3. ASSUME NEW r \in Readers, Leaves(r) PROVE Fewer
  BY <1>3 DEF Leaves
<1>4. ASSUME NEW r \in Readers, NEW pc, Arrives(r, pc, FALSE) PROVE Fewer
  BY <1>4 DEF Arrives
<1>5. ASSUME NEW r \in Readers, NEW pc, NEW o, NEW word, GoesTo(r, pc, o, word) PROVE Fewer
  BY <1>5 DEF GoesTo
<1> HIDE DEF Fewer
<1>6. ASSUME NEW r \in Readers, Applies(r) PROVE Fewer
  BY <1>1, <1>3, <1>5, <1>6, MoveDoes, ReturnDoes, SuspectDoes, RecordsDoes,
     ReadReportDoes, ReadBookingDoes, ReadCreditDoes DEF Applies
<1>7. ASSUME NEW r \in Readers,
             \/ \E d \in Statements : StoreStatement(r, d)
             \/ Announce(r) \/ LosesApplication(r)
      PROVE  Fewer
  BY <1>1, <1>4, <1>5, <1>7, StoreDoes, AnnounceDoes, LosesDoes
<1>8. ASSUME NEW o \in Orders,
             \/ ClaimOrder(o) \/ Submit(o) \/ RetryLater(o) \/ Refuse(o) \/ FallBack(o)
             \/ Replay(o)
      PROVE  Fewer
  BY <1>1, <1>2, <1>8, UploadDoes, ReplayDoes DEF Uploaded, Replayed
<1>9. ASSUME NEW p \in People,
             (\E o \in Orders : ReadConfirm(p, o) \/ Dismiss(p, o)) \/ Confirm(p)
      PROVE  Fewer
  BY <1>2, <1>9 DEF ReadConfirm, Dismiss, Confirm
<1>10. CASE UNCHANGED statusVars
  BY <1>2, <1>10 DEF statusVars
<1> USE DEF Fewer
<1> QED BY <1>6, <1>7, <1>8, <1>9, <1>10 DEF StatusNext, Elsewhere, Readers

LEMMA UnmovedStays ==
    ASSUME DistinctReferences, StatusIInv, Quiet, NEW r \in Readers, Applies(r),
           NEW d \in Statements, StillMoves(d)'
    PROVE  StillMoves(d)
<1>1. PICK o \in Orders : Wants(d, o)'
  BY WantedNext DEF StillMovesIsWanted
<1>2. Wants(d, o)
  BY <1>1, ReaderSettles, UnwantedStays DEF StatusIInv
<1> QED BY <1>2, WantedNow DEF StillMovesIsWanted

\* The re-reading begins with everything that would move an order.
LEMMA BeginsThrough ==
    ASSUME StatusIInv, NEW r \in Readers, Reread(r), Begins
    PROVE  Settling'
<1>1. StatusTypeOK /\ order' = order /\ kept' = kept
  BY DEF StatusIInv, Reread
<1>2. /\ Arrives(r, "read", TRUE) /\ \A q \in Readers : ~reader[q].again
      /\ reader'[r].doc \in {d \in kept : Rereads(d)}
      /\ reader'[r].rest = {d \in kept : Rereads(d)} \ {reader'[r].doc}
  BY <1>1, RereadDoes
<1>3. \A q \in Readers : reader'[q].again => q = r
  BY <1>2 DEF Arrives
<1>4. calm' = "reading" => Quiet'
  BY <1>1 DEF Begins, Quiet
<1>5. Through(r)'
  <2>1. ASSUME NEW e \in kept, StillMoves(e)'
        PROVE  e \in reader'[r].rest \/ e = reader'[r].doc
    <3>1. StillMoves(e)
      BY <1>1, <2>1, SameOrders
    <3>2. Rereads(e)
      BY <3>1 DEF StillMoves, Rereads
    <3> QED BY <1>2, <3>2
  <2> QED BY <1>1, <1>2, <2>1 DEF Through, Arrives
<1>6. calm' \in {"no", "reading"}
  BY DEF Begins
<1> QED BY <1>3, <1>4, <1>5, <1>6 DEF Settling, OneRereads

LEMMA AppliesSettles ==
    ASSUME DistinctReferences, StatusIInv, Settling, NEW r \in Readers, reader[r].again,
           Applies(r), Passes, OneRereads', calm = "reading",
           \A q \in Readers : reader'[q].again => reader[q].again
    PROVE  Settling'
<1>1. StatusTypeOK /\ Quiet /\ Through(r) /\ OneRereads
  BY DEF StatusIInv, Settling
<1>2. Quiet'
  BY <1>1, ReaderSettles, QuietStays
<1>3. kept' = kept /\ kept \subseteq Statements
  BY <1>1 DEF StatusTypeOK, Applies, ReadReport, Move, Ignore, RecordMove, ReadBooking, Return,
         ReadCredit, Suspect, RecordSuspicion
<1>4. PICK d : d = reader[r].doc
  OBVIOUS
<1>5. \A e \in kept : StillMoves(e)' => e \in reader[r].rest \/ e = d
  BY <1>1, <1>3, <1>4, UnmovedStays DEF Through
<1>6. \A q \in Readers : q # r => ~reader'[q].again
  BY <1>1 DEF OneRereads
<1>7. ASSUME reader'[r].again, Through(r)'
      PROVE  Settling'
  <2>1. calm' = "reading"
    BY <1>7 DEF Passes
  <2>2. \A q \in Readers : reader'[q].again => Through(q)'
    BY <1>6, <1>7
  <2> QED BY <1>2, <2>1, <2>2 DEF Settling
<1>8. CASE GoesOnThrough(r, d)
  <2>1. /\ reader'[r].again /\ reader'[r].doc = d /\ reader'[r].rest = reader[r].rest
        /\ reader'[r].pc = "decide" =>
               reader'[r].revoked = IF Overturns(d, order'[reader'[r].order])
                                    THEN "checked" ELSE "none"
        /\ reader'[r].pc \in {"moved", "raised"} => ~StillMoves(d)'
        /\ reader'[r].pc = "booked" => Says[d].whole /\ reader'[r].order \in Named(d)'
        /\ reader'[r].pc = "like" => reader'[r].order \in Open(Says[d].reference)'
    BY <1>8 DEF GoesOnThrough
  <2>2. \A e \in kept' : StillMoves(e)' => e \in reader'[r].rest \/ e = reader'[r].doc
    BY <1>3, <1>5, <2>1
  <2>3. Through(r)'
    BY <2>1, <2>2 DEF Through, StillMoves, Named, Open
  <2> QED BY <1>7, <2>1, <2>3
<1>9. CASE LeavesNothing(r, d)
  <2>1. \A e \in kept : StillMoves(e)' => e \in reader[r].rest
    BY <1>5, <1>9 DEF LeavesNothing
  <2>2. CASE reader'[r].again
    <3>1. /\ reader'[r].pc = "read"
          /\ reader'[r].rest = reader[r].rest \ {reader'[r].doc}
      BY <1>9, <2>2 DEF LeavesNothing, Leaves
    <3>2. Through(r)'
      BY <1>3, <2>1, <3>1 DEF Through
    <3> QED BY <1>7, <2>2, <3>2
  <2>3. CASE ~reader'[r].again
    <3>1. reader[r].rest = {}
      BY <1>9, <2>3 DEF LeavesNothing, Leaves
    <3>2. \A q \in Readers : ~reader'[q].again
      BY <1>6, <2>3
    <3>3. calm' = "settled"
      BY <3>2 DEF Passes
    <3> QED BY <1>3, <2>1, <3>1, <3>2, <3>3 DEF Settling
  <2> QED BY <2>2, <2>3
<1> QED BY <1>1, <1>4, <1>8, <1>9, AppliesThrough

LEMMA SettlingInductive ==
    ASSUME DistinctReferences, StatusIInv, Settling, [StatusNext]_statusVars
    PROVE  Settling'
<1>1. CASE \E r \in Rereadings : Reread(r) /\ Begins
  BY <1>1, BeginsThrough DEF Readers
<1>2. CASE UNCHANGED statusVars
  <2>1. order' = order /\ kept' = kept /\ reader' = reader /\ calm' = calm
    BY <1>2 DEF statusVars
  <2>2. \A d : /\ StillMoves(d)' <=> StillMoves(d)
               /\ Named(d)' = Named(d)
               /\ Open(Says[d].reference)' = Open(Says[d].reference)
    BY <2>1, SameOrders
  <2>3. ASSUME NEW r \in Readers, Through(r) PROVE Through(r)'
    <3>1. PICK d, o : d = reader[r].doc /\ o = reader[r].order
      OBVIOUS
    <3>2. d = reader'[r].doc /\ o = reader'[r].order
      BY <2>1, <3>1
    <3>3. /\ \A e \in kept' : StillMoves(e)' => e \in reader'[r].rest \/ e = d
          /\ reader'[r].pc = "decide" =>
                 reader'[r].revoked = IF Overturns(d, order'[o]) THEN "checked" ELSE "none"
          /\ reader'[r].pc \in {"moved", "raised"} => ~StillMoves(d)'
          /\ reader'[r].pc = "booked" => Says[d].whole /\ o \in Named(d)'
          /\ reader'[r].pc = "like" => o \in Open(Says[d].reference)'
      BY <2>1, <2>2, <2>3, <3>1 DEF Through
    <3> QED BY <3>2, <3>3 DEF Through, StillMoves, Named, Open
  <2>4. OneRereads' /\ (Quiet => Quiet')
    BY <2>1 DEF Settling, OneRereads, Quiet
  <2> QED BY <2>1, <2>2, <2>3, <2>4 DEF Settling
<1>3. CASE /\ \A q \in Readers : reader'[q].again => reader[q].again
           /\ StatusNext /\ ~\E r \in Rereadings : Reread(r) /\ Begins
  <2>1. OneRereads'
    BY <1>3 DEF Settling, OneRereads
  <2>2. ASSUME calm' = "no" PROVE Settling'
    BY <2>1, <2>2 DEF Settling
  <2>3. ASSUME NEW r \in Readers, reader[r].again, Applies(r), Passes PROVE Settling'
    <3>1. CASE calm = "reading"
      BY <1>3, <2>1, <2>3, <3>1, AppliesSettles
    <3>2. CASE calm = "settled"
      BY <2>3, <3>2 DEF Settling
    <3>3. CASE calm = "no"
      BY <2>2, <2>3, <3>3 DEF Passes
    <3> QED BY <3>1, <3>2, <3>3 DEF StatusIInv, StatusTypeOK
  <2> QED BY <1>3, <2>2, <2>3 DEF StatusNext
<1> QED BY <1>1, <1>2, <1>3, AgainComes

\* After an undisturbed re-reading no stored document would move an order or
\* raise a suspicion, when what a transfer is recognised by says whose it is
\* (StatementStore.reconcile_stored).
THEOREM RereadSettlesHolds ==
    ASSUME DistinctReferences
    PROVE  StatusSpec => []RereadSettles
<1>1. StatusInit => StatusIInv /\ Settling
  <2>1. StatusInit => Settling
    BY DEF StatusInit, Settling, OneRereads, Nobody
  <2> QED BY <2>1, StatusInitial
<1>2. StatusIInv /\ Settling /\ [StatusNext]_statusVars => (StatusIInv /\ Settling)'
  BY SettlingInductive, StatusInductive
<1>3. StatusIInv /\ Settling => RereadSettles
  BY DEF Settling, RereadSettles
<1> QED BY <1>1, <1>2, <1>3, PTL DEF StatusSpec

=============================================================================
