---------------------------- MODULE SignIn_proofs ----------------------------
(***************************************************************************)
(* That whoever is let in had a credential in force, that a browser which  *)
(* signed out stays out, that a login is finished once, that keys are      *)
(* current, and that guesses are bounded, for any deployment and any       *)
(* number of requests.                                                     *)
(*                                                                         *)
(* WalkInv is the shape of a state: what a request carries decides where   *)
(* it can be.  On it stand five invariants, one for each property, none of *)
(* which needs another: AdmitInv (who is vouched for), OutInv (who left),  *)
(* LoginInv (who claimed a login), KeysInv (when a key was last seen) and  *)
(* GuessInv (what a counter can come to).                                  *)
(*                                                                         *)
(* And that what a caller may do was granted to it, that what it was not   *)
(* granted looks absent to it, and that the trail of grants says what is   *)
(* in force: the last part is about AccessControl.                         *)
(***************************************************************************)
EXTENDS SignIn, AccessControl, FiniteSetTheorems, SequenceTheorems, NaturalsInduction,
        WellFoundedInduction, TLAPS

-----------------------------------------------------------------------------
(* The shape of a state.                                                   *)

AuthPcs == {"knocking", "reading", "verifying", "clearing", "upgrading",
            "counting", "count", "accepted"}
LoginPcs == {"claiming", "exchanging", "identifying"}
Pcs == AuthPcs \cup LoginPcs \cup {"idle", "sent", "establishing", "answered"}

Rows == [word : Words \cup {Oversized, Nothing}, weak : BOOLEAN, disabled : BOOLEAN]
Counts == [row : Nat, failures : Nat, last : Nat, until : Nat]

Call == [pc : Pcs, door : Doors \cup {Nothing}, name : Names \cup {Nothing},
         word : Words \cup {Oversized, Nothing}, now : Nat, row : Rows \cup {Nothing},
         read : Counts, counts : Counters \cup {Nothing}, cookie : Nat, marker : BOOLEAN,
         state : Nat, link : Nat, kid : Kids \cup {Nothing}, after : BOOLEAN,
         answer : Answers \cup {Nothing}]

Held == [cookie : Nat, marker : BOOLEAN, state : Nat]
LoginRow == [by : Browsers, expires : Nat, consumed : BOOLEAN, answered : BOOLEAN, asked : Nat]
SessionRow == [expires : Nat, revoked : BOOLEAN, by : Browsers, login : Nat]

Typed ==
    /\ setting \in Setting
    /\ account \in [Names -> Rows] /\ counter \in [Counters -> Counts]
    /\ guesses \in [Counters -> Nat] /\ clock \in Nat /\ rowIds \in Nat
    /\ call \in [Callers -> Call]
    /\ browser \in [Browsers -> Held]
    /\ published \subseteq Kids
    /\ login \in Seq(LoginRow) /\ session \in Seq(SessionRow)

(* Where a request can be, for what it carries.                            *)
Walks(k) ==
    /\ k.pc = "idle" => k.door = Nothing
    /\ k.pc # "answered" => k.answer = Nothing
    /\ k.pc \in AuthPcs => k.word # Nothing /\ k.door \in {"page", "api", "login", "form"}
    /\ k.word # Nothing => k.name \in Names /\ Basic
    /\ k.pc \in {"counting", "count"} => k.counts \in Counters
    /\ k.pc \in LoginPcs => k.door = "callback"
    /\ k.pc = "establishing" => IF Basic THEN k.word # Nothing /\ k.door \in {"login", "form"}
                                ELSE k.door = "callback"
    /\ k.door = "callback" => ~Basic
    /\ k.door = "form" /\ Basic => k.word # Nothing
    /\ k.answer = "signed out" => k.door = "logout"
    /\ k.answer = "redirect" => k.door = "login"
    /\ k.answer = "session" => k.door \in {"login", "form", "callback"}

WalkInv ==
    /\ Typed
    /\ \A cl \in Callers : Walks(call[cl])
    /\ Basic => LoginRows = {}

-----------------------------------------------------------------------------
\* What a process remembers was the password of the hash it names.
Remembers(seen) == \A v \in seen : v.word = v.stored[1]

\* A request on its way in was seen with a credential in force.
Vouched(cl) ==
    LET k == call[cl] IN
    /\ k.pc = "verifying" /\ Opens(k.row, k.word) /\ ~k.row.disabled => good[cl]
    /\ k.pc \in {"clearing", "upgrading", "accepted"} => good[cl]
    /\ k.pc = "establishing" => good[cl] \/ k.door = "callback"
    /\ k.answer \in {"admitted", "session"} => good[cl] \/ k.door \in {"bearer", "callback"}

AdmitInv ==
    /\ DOMAIN verified = Processes
    /\ \A p \in Processes : Remembers(verified[p])
    /\ \A cl \in Callers : Vouched(cl)

-----------------------------------------------------------------------------
\* A browser that signed out has no session, keeps the marker, and asks for no sign-in.
Left(b) ==
    /\ browser[b].cookie = 0 /\ (Basic => browser[b].marker = TRUE)
    /\ \A cl \in Callers : Browser(cl) = b =>
           /\ call[cl].door \notin {"form", "callback"}
           /\ call[cl].door = "login" => call[cl].after = TRUE

\* Where a request can be that such a browser sent.
StaysOut(k) ==
    k.after = TRUE /\ k.door \in {"page", "login"} =>
        /\ k.pc \in {"sent", "answered"}
        /\ k.pc = "sent" => k.cookie = 0 /\ (Basic => k.marker = TRUE)
        /\ k.answer \notin {"admitted", "session"}

OutInv == (\A b \in out : b \in Browsers /\ Left(b)) /\ \A cl \in Callers : StaysOut(call[cl])

-----------------------------------------------------------------------------
\* A callback has claimed login l and not been answered.
Claimed(cl, l) ==
    /\ call[cl].door = "callback" /\ call[cl].state = l
    /\ call[cl].pc \in {"exchanging", "identifying", "establishing"}

\* A state that browser b may hold: none, or of a login it began.
Begun(b, l) == l \in 0..Len(login) /\ (l # 0 => login[l].by = b)

\* The state a request came with is of its own browser.
Calls(cl) ==
    LET k == call[cl] IN
    /\ Begun(Browser(cl), k.state)
    /\ k.door = "callback" => k.link \in LoginRows
    /\ k.door = "callback" /\ k.pc \in LoginPcs \cup {"establishing"} => k.state = k.link

\* At most one callback has claimed a login, and at most one session is of it.
Fulfilled(l) ==
    /\ login[l].asked \in {0, 1}
    /\ login[l].consumed = FALSE => login[l].asked = 0
    /\ \A id \in SessionRows : session[id].login = l =>
           session[id].by = login[l].by /\ login[l].asked = 1
    /\ \A id, other \in SessionRows :
           session[id].login = l /\ session[other].login = l => id = other
    /\ \A cl \in Callers : Claimed(cl, l) =>
           /\ login[l].consumed = TRUE
           /\ call[cl].pc = "exchanging" <=> login[l].asked = 0
           /\ \A id \in SessionRows : session[id].login # l
           /\ \A o \in Callers : Claimed(o, l) => o = cl

LoginInv ==
    /\ \A b \in Browsers : Begun(b, browser[b].state)
    /\ \A cl \in Callers : Calls(cl)
    /\ \A l \in LoginRows : Fulfilled(l)
    /\ \A id \in SessionRows : session[id].login \in 0..Len(login)

-----------------------------------------------------------------------------
\* What a process took from an answered fetch has been published since.
Fetched(p) ==
    /\ keys[p].at <= clock
    /\ p \notin missed => \A kid \in keys[p].kids :
           kid \in published \/ keys[p].at <= lastSeen[kid]

KeysInv ==
    /\ keys \in [Processes -> [kids : SUBSET Kids, at : Nat]] /\ lastSeen \in [Kids -> Nat]
    /\ \A p \in Processes : Fetched(p)

-----------------------------------------------------------------------------
\* The requests that passed the lock of counter c and may yet fail on it.
MayCount(c) ==
    {cl \in Callers :
        \/ call[cl].pc \in {"reading", "verifying"} /\ c \in {call[cl].name, SourceOf[cl]}
        \/ call[cl].pc \in {"counting", "count"} /\ c \in {call[cl].counts, SourceOf[cl]}}

\* A transaction between its read of a counter and its write.
Reading(cl, c) == call[cl].pc = "count" /\ call[cl].counts = c

\* The guesses at an open counter, at one that ran out, and at a locked one.
Bounded(c) ==
    /\ counter[c].until = 0 =>
           guesses[c] <= counter[c].failures /\ counter[c].failures < Threshold(c)
    /\ counter[c].until \in 1..clock => guesses[c] = 0
    /\ counter[c].until > clock =>
           guesses[c] + Cardinality(MayCount(c)) < Threshold(c) + Cardinality(Callers)

\* One transaction is between read and write, and has read what is stored.
ReadOnce(c) ==
    \A cl \in Callers : Reading(cl, c) =>
        /\ call[cl].read = counter[c]
        /\ \A o \in Callers : Reading(o, c) => o = cl

GuessInv ==
    /\ \A cl \in Callers :
          call[cl].pc \in {"reading", "verifying", "counting", "count"} => call[cl].now <= clock
    /\ \A c \in Counters \ contended : Bounded(c) /\ ReadOnce(c)

-----------------------------------------------------------------------------
(* What a step does to a request.                                          *)

\* Only request cl moves.
Turns(cl) ==
    /\ call' \in [Callers -> Call]
    /\ \A o \in Callers \ {cl} : call'[o] = call[o]

\* What a request came with.
Same(k, j) ==
    /\ j.door = k.door /\ j.name = k.name /\ j.word = k.word /\ j.marker = k.marker
    /\ j.link = k.link /\ j.after = k.after

\* A request stays one when one of its fields is given another value.
LEMMA CallWith ==
    ASSUME NEW k \in Call
    PROVE  /\ \A v \in Pcs : [k EXCEPT !.pc = v] \in Call
           /\ \A v \in Doors \cup {Nothing} : [k EXCEPT !.door = v] \in Call
           /\ \A v \in Kids \cup {Nothing} : [k EXCEPT !.kid = v] \in Call
           /\ \A v \in Names \cup {Nothing} : [k EXCEPT !.name = v] \in Call
           /\ \A v \in Words \cup {Oversized, Nothing} : [k EXCEPT !.word = v] \in Call
           /\ \A v \in Nat : [k EXCEPT !.cookie = v] \in Call /\ [k EXCEPT !.state = v] \in Call
           /\ \A v \in Counts : [k EXCEPT !.read = v] \in Call
           /\ \A v \in Counters \cup {Nothing} : [k EXCEPT !.counts = v] \in Call
           /\ \A v \in Answers \cup {Nothing} : [k EXCEPT !.answer = v] \in Call
           /\ \A v \in BOOLEAN : [k EXCEPT !.marker = v] \in Call /\ [k EXCEPT !.after = v] \in Call
<1>1. \A v \in Pcs : [k EXCEPT !.pc = v] \in Call BY DEF Call
<1>2. \A v \in Doors \cup {Nothing} : [k EXCEPT !.door = v] \in Call BY DEF Call
<1>3. \A v \in Kids \cup {Nothing} : [k EXCEPT !.kid = v] \in Call BY DEF Call
<1>4. \A v \in Names \cup {Nothing} : [k EXCEPT !.name = v] \in Call BY DEF Call
<1>5. \A v \in Words \cup {Oversized, Nothing} : [k EXCEPT !.word = v] \in Call BY DEF Call
<1>6. \A v \in Nat : [k EXCEPT !.cookie = v] \in Call BY DEF Call
<1>7. \A v \in Nat : [k EXCEPT !.state = v] \in Call BY DEF Call
<1>8. \A v \in BOOLEAN : [k EXCEPT !.marker = v] \in Call BY DEF Call
<1>9. \A v \in BOOLEAN : [k EXCEPT !.after = v] \in Call BY DEF Call
<1>10. \A v \in Counts : [k EXCEPT !.read = v] \in Call BY DEF Call
<1>11. \A v \in Counters \cup {Nothing} : [k EXCEPT !.counts = v] \in Call BY DEF Call
<1>12. \A v \in Answers \cup {Nothing} : [k EXCEPT !.answer = v] \in Call BY DEF Call
<1> QED BY <1>10, <1>11, <1>12, <1>1, <1>2, <1>3, <1>4, <1>5, <1>6, <1>7, <1>8, <1>9

\* A request becomes the record it is given.
LEMMA Turning ==
    ASSUME Typed, NEW cl \in Callers, NEW j \in Call, call' = [call EXCEPT ![cl] = j]
    PROVE  Turns(cl) /\ call'[cl] = j
BY DEF Typed, Turns

\* What To does to a request: its place changes, nothing else.
LEMMA ToTurns ==
    ASSUME Typed, NEW cl \in Callers, NEW pc \in Pcs, To(cl, pc)
    PROVE  /\ Turns(cl) /\ Same(call[cl], call'[cl])
           /\ call'[cl] = [call[cl] EXCEPT !.pc = pc] /\ call'[cl].pc = pc
           /\ call'[cl].answer = call[cl].answer /\ call'[cl].state = call[cl].state
           /\ call'[cl].cookie = call[cl].cookie /\ call'[cl].row = call[cl].row
           /\ call'[cl].counts = call[cl].counts
<1> DEFINE k == call[cl]
           j == [k EXCEPT !.pc = pc]
<1>1. k \in Call BY DEF Typed
<1> HIDE DEF k
<1>2. /\ j \in Call /\ Same(k, j) /\ j.pc = pc /\ j.answer = k.answer /\ j.state = k.state
      /\ j.cookie = k.cookie /\ j.row = k.row /\ j.counts = k.counts
  BY <1>1 DEF Call, Same
<1>3. call' = [call EXCEPT ![cl] = j] BY DEF To, k
<1> HIDE DEF j
<1>4. Turns(cl) /\ call'[cl] = j BY <1>2, <1>3, Turning
<1> QED BY <1>2, <1>4 DEF j, k

\* What AnswerIs does: the answer, and what the request came with.
LEMMA AnswerTurns ==
    ASSUME Typed, NEW cl \in Callers, NEW answer \in Answers, AnswerIs(cl, answer)
    PROVE  /\ Turns(cl) /\ Same(call[cl], call'[cl])
           /\ call'[cl].pc = "answered" /\ call'[cl].answer = answer
           /\ call'[cl].state = call[cl].state /\ call'[cl].cookie = call[cl].cookie
<1> DEFINE k == call[cl]
           j == [k EXCEPT !.pc = "answered", !.answer = answer]
<1>1. k \in Call BY DEF Typed
<1> HIDE DEF k
<1>2. /\ j \in Call /\ Same(k, j) /\ j.pc = "answered" /\ j.answer = answer
      /\ j.state = k.state /\ j.cookie = k.cookie
  BY <1>1 DEF Call, Same, Pcs
<1>3. call' = [call EXCEPT ![cl] = j] BY DEF AnswerIs, k
<1> HIDE DEF j
<1>4. Turns(cl) /\ call'[cl] = j BY <1>2, <1>3, Turning
<1> QED BY <1>2, <1>4 DEF k

\* What Refuse does.
LEMMA RefuseTurns ==
    ASSUME Typed, NEW cl \in Callers, NEW reason \in Answers, Refuse(cl, reason)
    PROVE  /\ Turns(cl) /\ Same(call[cl], call'[cl])
           /\ call'[cl].pc = "answered" /\ call'[cl].answer = reason
           /\ call'[cl].state = call[cl].state
<1> DEFINE k == call[cl]
           j == [k EXCEPT !.pc = "answered", !.answer = reason,
                          !.row = Nothing, !.read = NoCount]
<1>1. k \in Call BY DEF Typed
<1> HIDE DEF k
<1>2. /\ j \in Call /\ Same(k, j) /\ j.pc = "answered" /\ j.answer = reason
      /\ j.state = k.state
  BY <1>1 DEF Call, Same, Pcs, NoCount, Counts
<1>3. call' = [call EXCEPT ![cl] = j] BY DEF Refuse, k
<1> HIDE DEF j
<1>4. Turns(cl) /\ call'[cl] = j BY <1>2, <1>3, Turning
<1> QED BY <1>2, <1>4 DEF k

\* A request is refused, or goes on because neither of its counters is locked.
LEMMA KnockTurns ==
    ASSUME Typed, NEW cl \in Callers, Knock(cl)
    PROVE  /\ Turns(cl) /\ Same(call[cl], call'[cl]) /\ call'[cl].state = call[cl].state
           /\ \/ call'[cl].pc = "answered"
                 /\ call'[cl].answer \in {"locked_out", "oversized_credential"}
              \/ /\ \A c \in {call[cl].name, SourceOf[cl]} : ~Locks(counter[c], clock)
                 /\ call'[cl].pc = "reading" /\ call'[cl].now = clock
                 /\ call'[cl].answer = call[cl].answer
<1> DEFINE k == call[cl]
           j == [k EXCEPT !.pc = "reading", !.now = clock]
<1>1. k \in Call /\ clock \in Nat BY DEF Typed
<1>2. CASE Refuse(cl, "locked_out") BY <1>2, RefuseTurns DEF Answers
<1>3. CASE Refuse(cl, "oversized_credential") BY <1>3, RefuseTurns DEF Answers
<1>4. CASE /\ \A c \in {k.name, SourceOf[cl]} : ~Locks(counter[c], clock)
           /\ call' = [call EXCEPT ![cl].pc = "reading", ![cl].now = clock]
  <2>1. call' = [call EXCEPT ![cl] = j] BY <1>4
  <2>p. "reading" \in Pcs BY DEF Pcs, AuthPcs
  <2> HIDE DEF k
  <2>2. /\ j \in Call /\ Same(k, j) /\ j.pc = "reading" /\ j.now = clock
        /\ j.answer = k.answer /\ j.state = k.state
    BY <1>1, <2>p DEF Call, Same
  <2> HIDE DEF j
  <2>3. Turns(cl) /\ call'[cl] = j BY <2>1, <2>2, Turning
  <2> QED BY <1>4, <2>2, <2>3 DEF k
<1> QED BY <1>2, <1>3, <1>4 DEF Knock

\* The row of the account is what was stored at that moment.
LEMMA ReadAccountTurns ==
    ASSUME Typed, NEW cl \in Callers, call[cl].name \in Names, ReadAccount(cl)
    PROVE  /\ Turns(cl) /\ Same(call[cl], call'[cl]) /\ call'[cl].state = call[cl].state
           /\ call'[cl].pc = "verifying" /\ call'[cl].row = account[call[cl].name]
           /\ call'[cl].answer = call[cl].answer /\ call'[cl].now = call[cl].now
<1> DEFINE k == call[cl]
           j == [k EXCEPT !.pc = "verifying", !.row = account[k.name]]
<1>1. k \in Call /\ account[k.name] \in Rows BY DEF Typed
<1>2. call' = [call EXCEPT ![cl] = j] BY DEF ReadAccount
<1>p. "verifying" \in Pcs BY DEF Pcs, AuthPcs
<1> HIDE DEF k
<1>3. /\ j \in Call /\ Same(k, j) /\ j.pc = "verifying" /\ j.row = account[k.name]
      /\ j.answer = k.answer /\ j.state = k.state /\ j.now = k.now
  BY <1>1, <1>p DEF Call, Same
<1> HIDE DEF j
<1>4. Turns(cl) /\ call'[cl] = j BY <1>2, <1>3, Turning
<1> QED BY <1>3, <1>4 DEF k

\* A verified password is cleared, any other counted against the name.
LEMMA VerifyTurns ==
    ASSUME Typed, NEW cl \in Callers, call[cl].name \in Names, Verify(cl)
    PROVE  /\ Turns(cl) /\ Same(call[cl], call'[cl]) /\ call'[cl].state = call[cl].state
           /\ call'[cl].answer = call[cl].answer
           /\ \/ call'[cl].pc = "clearing"
              \/ /\ call'[cl].pc = "counting" /\ call'[cl].counts = call[cl].name
                 /\ call'[cl].now = call[cl].now
<1> DEFINE k == call[cl]
           j == [k EXCEPT !.pc = "counting", !.row = Nothing, !.counts = k.name]
<1>1. k \in Call BY DEF Typed
<1>2. CASE To(cl, "clearing") BY <1>2, ToTurns DEF Pcs, AuthPcs
<1>3. CASE call' = [call EXCEPT ![cl].pc = "counting", ![cl].row = Nothing,
                                ![cl].counts = k.name]
  <2>1. call' = [call EXCEPT ![cl] = j] BY <1>3
  <2>p. "counting" \in Pcs BY DEF Pcs, AuthPcs
  <2> HIDE DEF k
  <2>2. /\ j \in Call /\ Same(k, j) /\ j.pc = "counting" /\ j.counts = k.name
        /\ j.answer = k.answer /\ j.state = k.state /\ j.now = k.now
    BY <1>1, <2>p DEF Call, Same, Counters
  <2> HIDE DEF j
  <2>3. Turns(cl) /\ call'[cl] = j BY <2>1, <2>2, Turning
  <2> QED BY <2>2, <2>3 DEF k
<1> QED BY <1>2, <1>3 DEF Verify

\* A request whose failures were cleared is accepted, or upgrades first.
LEMMA ClearFailuresTurns ==
    ASSUME Typed, NEW cl \in Callers, ClearFailures(cl)
    PROVE  /\ Turns(cl) /\ Same(call[cl], call'[cl]) /\ call'[cl].state = call[cl].state
           /\ call'[cl].answer = call[cl].answer
           /\ call'[cl].pc \in {"upgrading", "accepted"}
<1> DEFINE k == call[cl]
           pc == IF k.row.weak THEN "upgrading" ELSE "accepted"
           j == [k EXCEPT !.pc = pc, !.row = Nothing]
<1>1. k \in Call BY DEF Typed
<1>2. call' = [call EXCEPT ![cl] = j] BY DEF ClearFailures
<1>3. pc \in {"upgrading", "accepted"} /\ pc \in Pcs BY DEF Pcs, AuthPcs
<1> HIDE DEF k, pc
<1>4. /\ j \in Call /\ Same(k, j) /\ j.pc = pc /\ j.answer = k.answer /\ j.state = k.state
  BY <1>1, <1>3 DEF Call, Same
<1> HIDE DEF j
<1>5. Turns(cl) /\ call'[cl] = j BY <1>2, <1>4, Turning
<1> QED BY <1>3, <1>4, <1>5 DEF k

\* A request carries the count it has read.
LEMMA CountReadsTurns ==
    ASSUME Typed, NEW cl \in Callers, call[cl].counts \in Counters, CountReads(cl)
    PROVE  /\ Turns(cl) /\ Same(call[cl], call'[cl]) /\ call'[cl].state = call[cl].state
           /\ call'[cl].answer = call[cl].answer
           /\ call'[cl].pc = "count" /\ call'[cl].counts = call[cl].counts
           /\ call'[cl].now = call[cl].now /\ call'[cl].read = counter[call[cl].counts]
<1> DEFINE k == call[cl]
           j == [k EXCEPT !.pc = "count", !.read = counter[k.counts]]
<1>1. k \in Call /\ counter[k.counts] \in Counts BY DEF Typed
<1>2. call' = [call EXCEPT ![cl] = j] BY DEF CountReads
<1>p. "count" \in Pcs BY DEF Pcs, AuthPcs
<1> HIDE DEF k
<1>3. /\ j \in Call /\ Same(k, j) /\ j.pc = "count" /\ j.read = counter[k.counts]
      /\ j.answer = k.answer /\ j.state = k.state /\ j.now = k.now /\ j.counts = k.counts
  BY <1>1, <1>p DEF Call, Same
<1> HIDE DEF j
<1>4. Turns(cl) /\ call'[cl] = j BY <1>2, <1>3, Turning
<1> QED BY <1>3, <1>4 DEF k

\* After the name comes the source, after the source the answer.
LEMMA CountWritesTurns ==
    ASSUME Typed, NEW cl \in Callers, CountWrites(cl)
    PROVE  /\ Turns(cl) /\ Same(call[cl], call'[cl]) /\ call'[cl].state = call[cl].state
           /\ \/ call'[cl].pc = "answered" /\ call'[cl].answer \in {"error", "bad_credential"}
              \/ /\ call[cl].counts \in Names /\ call'[cl].pc = "counting"
                 /\ call'[cl].answer = call[cl].answer
                 /\ call'[cl].counts = SourceOf[cl] /\ call'[cl].now = call[cl].now
<1> DEFINE k == call[cl]
           on == IF k.counts \in Names THEN "counting" ELSE "answered"
           answer == IF on = "answered" THEN "bad_credential" ELSE k.answer
           j == [k EXCEPT !.pc = on, !.read = NoCount, !.counts = SourceOf[cl],
                          !.answer = answer]
<1>1. k \in Call /\ SourceOf[cl] \in Counters BY DEF Typed, Counters, Sources
<1>2. CASE Refuse(cl, "error") BY <1>2, RefuseTurns DEF Answers
<1>3. CASE call' = [call EXCEPT ![cl] = j]
  <2>1. \/ on = "answered" /\ answer = "bad_credential"
        \/ on = "counting" /\ k.counts \in Names /\ answer = k.answer
    OBVIOUS
  <2>2. k.answer \in Answers \cup {Nothing} BY <1>1 DEF Call
  <2> HIDE DEF k, on, answer
  <2>2a. answer \in Answers \cup {Nothing} /\ on \in Pcs
    BY <2>1, <2>2 DEF Answers, Pcs, AuthPcs
  <2>2b. NoCount \in Counts BY DEF NoCount, Counts
  <2>3. /\ j \in Call /\ Same(k, j) /\ j.pc = on /\ j.counts = SourceOf[cl]
        /\ j.answer = answer /\ j.state = k.state /\ j.now = k.now
    <3>1. j = [[[[k EXCEPT !.pc = on] EXCEPT !.read = NoCount] EXCEPT !.counts = SourceOf[cl]]
                  EXCEPT !.answer = answer]
      OBVIOUS
    <3>2. j \in Call BY <1>1, <2>2a, <2>2b, <3>1, CallWith
    <3> QED BY <1>1, <3>2 DEF Call, Same
  <2> HIDE DEF j
  <2>4. Turns(cl) /\ call'[cl] = j BY <1>3, <2>3, Turning
  <2> QED BY <2>1, <2>3, <2>4 DEF k
<1>4. Refuse(cl, "error") \/ call' = [call EXCEPT ![cl] = j]
  BY DEF CountWrites
<1> QED BY <1>2, <1>3, <1>4

\* A navigation with the marker is told it signed out; others are looked at.
LEMMA FromBasicTurns ==
    ASSUME Typed, NEW cl \in Callers, FromBasic(cl)
    PROVE  /\ Turns(cl) /\ Same(call[cl], call'[cl]) /\ call'[cl].state = call[cl].state
           /\ \/ call'[cl].pc = "answered" /\ call'[cl].answer = "signed_out"
              \/ /\ call'[cl].pc = "knocking" /\ call'[cl].answer = call[cl].answer
                 /\ ~(call[cl].door = "page" /\ call[cl].marker)
<1>1. CASE AnswerIs(cl, "signed_out") BY <1>1, AnswerTurns DEF Answers
<1>2. CASE To(cl, "knocking") /\ ~(call[cl].door = "page" /\ call[cl].marker)
  BY <1>2, ToTurns DEF Pcs, AuthPcs
<1> QED BY <1>1, <1>2 DEF FromBasic

\* Only a cookie whose session is live admits.
LEMMA FromSessionTurns ==
    ASSUME Typed, NEW cl \in Callers, FromSession(cl)
    PROVE  /\ Turns(cl) /\ Same(call[cl], call'[cl]) /\ call'[cl].state = call[cl].state
           /\ call'[cl].pc = "answered"
           /\ \/ call'[cl].answer \in {"no_credential", "no_session"}
              \/ /\ call'[cl].answer = "admitted" /\ call[cl].cookie # 0
                 /\ LiveIn(session, call[cl].cookie, clock)
                 /\ call'[cl].cookie = call[cl].cookie
<1>1. CASE AnswerIs(cl, "no_credential") BY <1>1, AnswerTurns DEF Answers
<1>2. CASE AnswerIs(cl, "no_session") BY <1>2, AnswerTurns DEF Answers
<1>3. CASE /\ AnswerIs(cl, "admitted") /\ call[cl].cookie # 0
           /\ LiveIn(session, call[cl].cookie, clock)
  BY <1>3, AnswerTurns DEF Answers
<1> QED BY <1>1, <1>2, <1>3 DEF FromSession

\* A bearer token is answered at once.
LEMMA FromBearerTurns ==
    ASSUME Typed, NEW cl \in Callers, FromBearer(cl)
    PROVE  /\ Turns(cl) /\ Same(call[cl], call'[cl]) /\ call'[cl].state = call[cl].state
           /\ call'[cl].pc = "answered"
           /\ call'[cl].answer \in {"bearer_not_configured", "admitted", "unknown_kid"}
<1>1. CASE AnswerIs(cl, "bearer_not_configured") BY <1>1, AnswerTurns DEF Answers
<1>2. CASE AnswerIs(cl, "admitted") BY <1>2, AnswerTurns DEF Answers
<1>3. CASE AnswerIs(cl, "unknown_kid") BY <1>3, AnswerTurns DEF Answers
<1> QED BY <1>1, <1>2, <1>3 DEF FromBearer

\* An accepted password admits at a page and goes on to a session elsewhere.
LEMMA AcceptedTurns ==
    ASSUME Typed, NEW cl \in Callers, Accepted(cl)
    PROVE  /\ Turns(cl) /\ Same(call[cl], call'[cl]) /\ call'[cl].state = call[cl].state
           /\ \/ /\ call'[cl].pc = "answered" /\ call'[cl].answer = "admitted"
                 /\ call[cl].door \in Pages
              \/ /\ call'[cl].pc = "establishing" /\ call'[cl].answer = call[cl].answer
                 /\ call[cl].door \notin Pages
<1>1. CASE AnswerIs(cl, "admitted") /\ call[cl].door \in Pages BY <1>1, AnswerTurns DEF Answers
<1>2. CASE To(cl, "establishing") /\ call[cl].door \notin Pages BY <1>2, ToTurns DEF Pcs
<1> QED BY <1>1, <1>2 DEF Accepted

\* A header is looked at only without the marker.
LEMMA LoginPageTurns ==
    ASSUME Typed, NEW cl \in Callers, LoginPage(cl)
    PROVE  /\ Turns(cl) /\ Same(call[cl], call'[cl]) /\ call'[cl].state = call[cl].state
           /\ \/ call'[cl].pc = "answered" /\ call'[cl].answer = "sign-in page"
              \/ /\ call'[cl].pc = "knocking" /\ call'[cl].answer = call[cl].answer
                 /\ call[cl].word # Nothing /\ ~call[cl].marker
<1>1. CASE AnswerIs(cl, "sign-in page") BY <1>1, AnswerTurns DEF Answers
<1>2. CASE To(cl, "knocking") /\ call[cl].word # Nothing /\ ~call[cl].marker
  BY <1>2, ToTurns DEF Pcs, AuthPcs
<1> QED BY <1>1, <1>2 DEF LoginPage

\* The form is for the basic mode.
LEMMA SignInFormTurns ==
    ASSUME Typed, NEW cl \in Callers, SignInForm(cl)
    PROVE  /\ Turns(cl) /\ Same(call[cl], call'[cl]) /\ call'[cl].state = call[cl].state
           /\ \/ call'[cl].pc = "answered" /\ call'[cl].answer = "forbidden"
              \/ Basic /\ call'[cl].pc = "knocking" /\ call'[cl].answer = call[cl].answer
<1>1. CASE AnswerIs(cl, "forbidden") BY <1>1, AnswerTurns DEF Answers
<1>2. CASE To(cl, "knocking") /\ Basic BY <1>2, ToTurns DEF Pcs, AuthPcs
<1> QED BY <1>1, <1>2 DEF SignInForm

\* Only a callback with the state of its own browser goes on.
LEMMA CallbackArrivesTurns ==
    ASSUME Typed, NEW cl \in Callers, CallbackArrives(cl)
    PROVE  /\ Turns(cl) /\ Same(call[cl], call'[cl]) /\ call'[cl].state = call[cl].state
           /\ \/ call'[cl].pc = "answered" /\ call'[cl].answer = "state_mismatch"
              \/ /\ call'[cl].pc = "claiming" /\ call'[cl].answer = call[cl].answer
                 /\ call[cl].state = call[cl].link
<1>1. CASE Refuse(cl, "state_mismatch") BY <1>1, RefuseTurns DEF Answers
<1>2. CASE To(cl, "claiming") /\ call[cl].state = call[cl].link
  BY <1>2, ToTurns DEF Pcs, LoginPcs
<1> QED BY <1>1, <1>2 DEF CallbackArrives

\* A login is claimed while nobody has, or the callback is refused.
LEMMA ClaimLoginTurns ==
    ASSUME Typed, NEW cl \in Callers, ClaimLogin(cl)
    PROVE  /\ Turns(cl) /\ Same(call[cl], call'[cl]) /\ call'[cl].state = call[cl].state
           /\ \/ /\ call'[cl].pc = "answered" /\ call'[cl].answer = "state_unknown"
                 /\ UNCHANGED login
              \/ /\ call'[cl].pc = "exchanging" /\ call'[cl].answer = call[cl].answer
                 /\ ~login[call[cl].state].consumed
                 /\ login' = [login EXCEPT ![call[cl].state].consumed = TRUE]
<1>1. CASE Refuse(cl, "state_unknown") /\ UNCHANGED login BY <1>1, RefuseTurns DEF Answers
<1>2. CASE /\ ~login[call[cl].state].consumed
           /\ login' = [login EXCEPT ![call[cl].state].consumed = TRUE]
           /\ To(cl, "exchanging")
  BY <1>2, ToTurns DEF Pcs, LoginPcs
<1> QED BY <1>1, <1>2 DEF ClaimLogin, To

\* The token endpoint is asked, or cannot be.
LEMMA ExchangeCodeTurns ==
    ASSUME Typed, NEW cl \in Callers, ExchangeCode(cl)
    PROVE  /\ Turns(cl) /\ Same(call[cl], call'[cl]) /\ call'[cl].state = call[cl].state
           /\ \/ /\ call'[cl].pc = "answered" /\ call'[cl].answer = "unavailable"
                 /\ UNCHANGED login
              \/ /\ call'[cl].pc = "identifying" /\ call'[cl].answer = call[cl].answer
                 /\ login' = [login EXCEPT ![call[cl].state].asked = @ + 1]
<1> DEFINE k == call[cl]
           j(kid) == [k EXCEPT !.pc = "identifying", !.kid = kid]
<1>0. k \in Call BY DEF Typed
<1>1. CASE AnswerIs(cl, "unavailable") /\ UNCHANGED login BY <1>1, AnswerTurns DEF Answers
<1>2. ASSUME NEW kid \in published,
             call' = [call EXCEPT ![cl].pc = "identifying", ![cl].kid = kid]
      PROVE  /\ Turns(cl) /\ Same(k, call'[cl]) /\ call'[cl].state = k.state
             /\ call'[cl].pc = "identifying" /\ call'[cl].answer = k.answer
  <2>0. call' = [call EXCEPT ![cl] = j(kid)] BY <1>2
  <2>1. kid \in Kids BY DEF Typed
  <2>p. "identifying" \in Pcs BY DEF Pcs, LoginPcs
  <2> HIDE DEF k
  <2>2. /\ j(kid) \in Call /\ Same(k, j(kid)) /\ j(kid).pc = "identifying"
        /\ j(kid).answer = k.answer /\ j(kid).state = k.state
    BY <1>0, <2>1, <2>p DEF Call, Same
  <2> HIDE DEF j
  <2>3. Turns(cl) /\ call'[cl] = j(kid) BY <2>0, <2>2, Turning
  <2> QED BY <2>2, <2>3
<1>3. \/ AnswerIs(cl, "unavailable") /\ UNCHANGED login
      \/ /\ login' = [login EXCEPT ![k.state].asked = @ + 1]
         /\ \E kid \in published :
               call' = [call EXCEPT ![cl].pc = "identifying", ![cl].kid = kid]
  BY DEF ExchangeCode
<1> QED BY <1>1, <1>2, <1>3

\* An id_token of an unknown key is refused.
LEMMA VerifyIdTokenTurns ==
    ASSUME Typed, NEW cl \in Callers, VerifyIdToken(cl)
    PROVE  /\ Turns(cl) /\ Same(call[cl], call'[cl]) /\ call'[cl].state = call[cl].state
           /\ \/ call'[cl].pc = "answered" /\ call'[cl].answer = "unknown_kid"
              \/ call'[cl].pc = "establishing" /\ call'[cl].answer = call[cl].answer
<1>1. CASE AnswerIs(cl, "unknown_kid") BY <1>1, AnswerTurns DEF Answers
<1>2. CASE To(cl, "establishing") BY <1>2, ToTurns DEF Pcs
<1> QED BY <1>1, <1>2 DEF VerifyIdToken

\* A sign-out is answered.
LEMMA LogoutTurns ==
    ASSUME Typed, NEW cl \in Callers, Logout(cl)
    PROVE  /\ Turns(cl) /\ Same(call[cl], call'[cl]) /\ call'[cl].state = call[cl].state
           /\ call'[cl].pc = "answered" /\ call'[cl].answer = "signed out"
BY AnswerTurns DEF Logout, Answers

\* A login that begins sends the browser away with the newest state.
LEMMA LoginBeginsTurns ==
    ASSUME Typed, NEW cl \in Callers, LoginBegins(cl)
    PROVE  /\ Turns(cl) /\ Same(call[cl], call'[cl]) /\ call'[cl].state = Len(login) + 1
           /\ call'[cl].pc = "answered" /\ call'[cl].answer = "redirect"
<1> DEFINE k == call[cl]
           j == [k EXCEPT !.pc = "answered", !.answer = "redirect", !.state = Len(login) + 1]
<1>1. k \in Call /\ Len(login) + 1 \in Nat BY DEF Typed
<1>2. call' = [call EXCEPT ![cl] = j] BY DEF LoginBegins
<1>p. "answered" \in Pcs /\ "redirect" \in Answers BY DEF Pcs, Answers
<1> HIDE DEF k
<1>3. /\ j \in Call /\ Same(k, j) /\ j.pc = "answered" /\ j.answer = "redirect"
      /\ j.state = Len(login) + 1
  BY <1>1, <1>p DEF Call, Same
<1> HIDE DEF j
<1>4. Turns(cl) /\ call'[cl] = j BY <1>2, <1>3, Turning
<1> QED BY <1>3, <1>4 DEF k

\* A request that establishes a session is answered with it.
LEMMA EstablishSessionTurns ==
    ASSUME Typed, NEW cl \in Callers, EstablishSession(cl)
    PROVE  /\ Turns(cl) /\ Same(call[cl], call'[cl]) /\ call'[cl].state = call[cl].state
           /\ call'[cl].pc = "answered" /\ call'[cl].answer = "session"
<1> DEFINE k == call[cl]
           j == [k EXCEPT !.pc = "answered", !.answer = "session", !.cookie = Len(session) + 1]
<1>1. k \in Call /\ Len(session) + 1 \in Nat BY DEF Typed
<1>2. call' = [call EXCEPT ![cl] = j] BY DEF EstablishSession
<1>p. "answered" \in Pcs /\ "session" \in Answers BY DEF Pcs, Answers
<1> HIDE DEF k
<1>3. /\ j \in Call /\ Same(k, j) /\ j.pc = "answered" /\ j.answer = "session"
      /\ j.state = k.state
  BY <1>1, <1>p DEF Call, Same
<1> HIDE DEF j
<1>4. Turns(cl) /\ call'[cl] = j BY <1>2, <1>3, Turning
<1> QED BY <1>3, <1>4 DEF k

\* A request whose answer has arrived is over.
LEMMA ReceiveTurns ==
    ASSUME Typed, NEW cl \in Callers, Receive(cl)
    PROVE  Turns(cl) /\ call'[cl] = Idle
<1>1. Idle \in Call
  BY DEF Idle, Call, Pcs, NoCount, Counts
<1> QED BY <1>1, Turning DEF Receive

\* A header that carries a word carries a name, in the basic mode, and the form has one.
LEMMA HeaderFacts ==
    ASSUME Typed, NEW door \in Doors, NEW header \in HeadersAt(door)
    PROVE  /\ header.name \in Names \cup {Nothing} /\ header.word \in Words \cup {Oversized, Nothing}
           /\ header.word # Nothing => header.name \in Names /\ Basic
           /\ door = "form" /\ Basic => header.word # Nothing
<1>1. setting.names \subseteq Names /\ setting.words \subseteq Words \cup {Oversized}
  BY DEF Typed, Setting
<1>2. ASSUME header \in Headers
      PROVE  header.name \in Names /\ header.word \in (Words \cup {Oversized}) \ {Nothing}
  BY <1>1, <1>2, AccountsAssumption DEF Headers
<1>3. header \in Headers \/ header = NoHeader BY DEF HeadersAt
<1>4. header \in Headers => Basic
  <2>1. NoHeader \notin Headers BY <1>1, AccountsAssumption DEF Headers, NoHeader
  <2> QED BY <2>1 DEF HeadersAt
<1>5. door = "form" /\ Basic => header \in Headers BY DEF HeadersAt
<1> QED BY <1>2, <1>3, <1>4, <1>5 DEF NoHeader

\* What a request carries when it is sent: the cookies of its browser, or none.
LEMMA SendTurns ==
    ASSUME Typed, NEW cl \in Callers, NEW door \in Doors, Send(cl, door)
    PROVE  /\ Turns(cl) /\ door # "callback"
           /\ call'[cl].pc = "sent" /\ call'[cl].door = door /\ call'[cl].answer = Nothing
           /\ call'[cl].after = TRUE => Browser(cl) \in out
           /\ Browser(cl) \in out => call'[cl].after = TRUE
           /\ \/ call'[cl].state = 0 /\ door \in {"api", "bearer"}
              \/ /\ call'[cl].state = browser[Browser(cl)].state
                 /\ call'[cl].cookie = browser[Browser(cl)].cookie
                 /\ call'[cl].marker = browser[Browser(cl)].marker
           /\ call'[cl].word # Nothing => call'[cl].name \in Names /\ Basic
           /\ door = "form" /\ Basic => call'[cl].word # Nothing
<1> DEFINE cookies == CookiesAt(cl, door)
           after == Browser(cl) \in out
<1>1. PICK header \in HeadersAt(door), kid \in Kids \cup {Nothing} :
         call' = [call EXCEPT ![cl] = Asked(cl, door, header, kid)]
  BY DEF Send
<1>2. cookies \in Held
  BY DEF Typed, Setting, Browser, NoCookies, Held, CookiesAt
<1>3. Idle \in Call BY DEF Idle, Call, Pcs, NoCount, Counts
<1>4. /\ cookies.cookie \in Nat /\ cookies.state \in Nat /\ cookies.marker \in BOOLEAN
      /\ after \in BOOLEAN
  BY <1>2 DEF Held
<1>5. \/ cookies = browser[Browser(cl)]
      \/ cookies.state = 0 /\ door \in {"api", "bearer"}
  BY DEF CookiesAt, NoCookies
<1>6. after = TRUE <=> Browser(cl) \in out OBVIOUS
<1>7. Asked(cl, door, header, kid) =
          [Idle EXCEPT !.pc = "sent", !.door = door, !.kid = kid,
                       !.name = header.name, !.word = header.word,
                       !.cookie = cookies.cookie, !.marker = cookies.marker,
                       !.state = cookies.state, !.after = after]
  BY DEF Asked
<1> DEFINE j == Asked(cl, door, header, kid)
           name == header.name
           word == header.word
           cookie == cookies.cookie
           marker == cookies.marker
           state == cookies.state
<1>8. name \in Names \cup {Nothing} /\ word \in Words \cup {Oversized, Nothing}
  BY HeaderFacts
<1>9. call' = [call EXCEPT ![cl] = j] BY <1>1
<1>10. cookie \in Nat /\ marker \in BOOLEAN /\ state \in Nat /\ after \in BOOLEAN
  BY <1>4
<1>11. /\ "sent" \in Pcs /\ kid \in Kids \cup {Nothing} /\ door \in Doors \cup {Nothing}
       /\ Idle.answer = Nothing
  BY DEF Pcs, Idle
<1> HIDE DEF cookies, after, j, name, word, cookie, marker, state
<1>12. j = [Idle EXCEPT !.pc = "sent", !.door = door, !.kid = kid, !.name = name,
                        !.word = word, !.cookie = cookie, !.marker = marker,
                        !.state = state, !.after = after]
  BY <1>7 DEF j, name, word, cookie, marker, state
<1>13. /\ j \in Call /\ j.pc = "sent" /\ j.door = door /\ j.answer = Nothing
       /\ j.name = name /\ j.word = word /\ j.after = after
       /\ j.cookie = cookie /\ j.marker = marker /\ j.state = state
  <2>1. j = [[[[[[[[[Idle EXCEPT !.pc = "sent"] EXCEPT !.door = door] EXCEPT !.kid = kid]
                   EXCEPT !.name = name] EXCEPT !.word = word] EXCEPT !.cookie = cookie]
                EXCEPT !.marker = marker] EXCEPT !.state = state] EXCEPT !.after = after]
    BY <1>12
  <2>2. j \in Call
    BY <1>3, <1>8, <1>10, <1>11, <2>1, CallWith
  <2>3. DOMAIN Idle = {"pc", "door", "name", "word", "now", "row", "read", "counts", "cookie",
                       "marker", "state", "link", "kid", "after", "answer"}
    BY DEF Idle
  <2> QED BY <1>11, <1>12, <2>2, <2>3
<1>14. door # "callback" BY DEF Send
<1>15. Turns(cl) /\ call'[cl] = j BY <1>9, <1>13, Turning
<1> QED BY <1>5, <1>6, <1>13, <1>14, <1>15, HeaderFacts DEF name, word, cookie, marker, state

\* A callback carries the state of its browser and a login that exists.
LEMMA SendCallbackTurns ==
    ASSUME Typed, NEW cl \in Callers, SendCallback(cl)
    PROVE  /\ Turns(cl) /\ call'[cl].pc = "sent" /\ call'[cl].door = "callback"
           /\ call'[cl].answer = Nothing /\ call'[cl].word = Nothing /\ call'[cl].after = FALSE
           /\ call'[cl].state = browser[Browser(cl)].state /\ call'[cl].link \in LoginRows
<1> DEFINE j(l) == [Idle EXCEPT !.pc = "sent", !.door = "callback", !.link = l,
                                !.state = browser[Browser(cl)].state]
<1>1. Browser(cl) \in Browsers /\ browser[Browser(cl)].state \in Nat
  BY DEF Typed, Setting, Browser, Held
<1>2. PICK l \in LoginRows : call' = [call EXCEPT ![cl] = j(l)] BY DEF SendCallback
<1>3. l \in Nat BY DEF Typed, LoginRows
<1>4. Idle \in Call BY DEF Idle, Call, Pcs, NoCount, Counts
<1> DEFINE i == j(l)
<1>5. /\ i \in Call /\ i.pc = "sent" /\ i.door = "callback" /\ i.answer = Nothing
      /\ i.word = Nothing /\ i.after = FALSE /\ i.link = l
      /\ i.state = browser[Browser(cl)].state
  BY <1>1, <1>3, <1>4 DEF Call, Pcs, Idle, Doors
<1>6. call' = [call EXCEPT ![cl] = i] BY <1>2
<1> HIDE DEF i, j
<1>7. Turns(cl) /\ call'[cl] = i BY <1>5, <1>6, Turning
<1> QED BY <1>5, <1>7

-----------------------------------------------------------------------------
(* Every step keeps the shape, and a request goes where what it carries    *)
(* lets it go.                                                             *)

\* A step of the password chain keeps to the way of a request.
LEMMA AuthenticatesWalks ==
    ASSUME WalkInv, NEW cl \in Callers, Authenticates(cl)
    PROVE  /\ Turns(cl) /\ Same(call[cl], call'[cl]) /\ Walks(call[cl])'
           /\ call'[cl].state = call[cl].state /\ call[cl].pc \in AuthPcs
           /\ call'[cl].answer \notin {"admitted", "session", "signed out", "redirect", "sign-in page"}
<1>1. Typed /\ Walks(call[cl]) /\ UNCHANGED setting
  BY DEF WalkInv, Authenticates, Elsewhere
<1>2. Nothing \notin {"admitted", "session", "signed out", "redirect", "sign-in page"}
  BY SettingsAssumption DEF Answers
<1>3. CASE Knock(cl)
  BY <1>1, <1>2, <1>3, KnockTurns DEF Knock, At, Walks, Same, AuthPcs, LoginPcs, Basic
<1>4. CASE ReadAccount(cl)
  BY <1>1, <1>2, <1>4, ReadAccountTurns DEF ReadAccount, At, Walks, Same, AuthPcs, LoginPcs, Basic
<1>5. CASE Verify(cl)
  BY <1>1, <1>2, <1>5, VerifyTurns DEF Verify, At, Walks, Same, AuthPcs, LoginPcs, Basic, Counters
<1>6. CASE ClearFailures(cl)
  BY <1>1, <1>2, <1>6, ClearFailuresTurns DEF ClearFailures, At, Walks, Same, AuthPcs, LoginPcs, Basic
<1>7. CASE Upgrade(cl)
  <2>1. To(cl, "accepted") /\ "accepted" \in Pcs BY <1>7 DEF Upgrade, Pcs, AuthPcs
  <2>2. /\ Turns(cl) /\ Same(call[cl], call'[cl]) /\ call'[cl].pc = "accepted"
        /\ call'[cl].answer = call[cl].answer /\ call'[cl].state = call[cl].state
    BY <1>1, <2>1, ToTurns
  <2> QED
    BY <1>1, <1>2, <1>7, <2>2 DEF Upgrade, At, Walks, Same, AuthPcs, LoginPcs, Basic
<1>8. CASE CountReads(cl)
  BY <1>1, <1>2, <1>8, CountReadsTurns DEF CountReads, At, Walks, Same, AuthPcs, LoginPcs, Basic
<1>9. CASE CountWrites(cl)
  <2>1. SourceOf[cl] \in Counters BY DEF Counters, Sources
  <2>2. call[cl].pc = "count" BY <1>9 DEF CountWrites, At
  <2> QED
    BY <1>1, <1>2, <1>9, <2>1, <2>2, CountWritesTurns
    DEF Walks, Same, AuthPcs, LoginPcs, Basic
<1> QED
  BY <1>3, <1>4, <1>5, <1>6, <1>7, <1>8, <1>9 DEF Authenticates, Authenticate

\* So does a step of a door, which leaves the accounts alone.
LEMMA ServeWalks ==
    ASSUME WalkInv, NEW cl \in Callers, Serve(cl)
    PROVE  Turns(cl) /\ Same(call[cl], call'[cl]) /\ Walks(call[cl])' /\ UNCHANGED Rest
<1>0. UNCHANGED Rest
  BY DEF Serve, FromBasic, FromSession, FromBearer, LoginPage, SignInForm, LoginBegins,
     CallbackArrives, ClaimLogin, ExchangeCode, VerifyIdToken, Accepted, EstablishSession, Logout
<1>1. Typed /\ Walks(call[cl]) /\ UNCHANGED setting BY <1>0 DEF WalkInv, Rest
<1> USE DEF At, Serves, Walks, Same, AuthPcs, LoginPcs, Basic
<1>3. CASE FromBasic(cl) BY <1>0, <1>1, <1>3, FromBasicTurns DEF FromBasic
<1>4. CASE FromSession(cl) BY <1>0, <1>1, <1>4, FromSessionTurns DEF FromSession
<1>5. CASE FromBearer(cl) BY <1>0, <1>1, <1>5, FromBearerTurns DEF FromBearer
<1>6. CASE LoginPage(cl) BY <1>0, <1>1, <1>6, LoginPageTurns DEF LoginPage
<1>7. CASE SignInForm(cl) BY <1>0, <1>1, <1>7, SignInFormTurns DEF SignInForm
<1>8. CASE LoginBegins(cl) BY <1>0, <1>1, <1>8, LoginBeginsTurns DEF LoginBegins
<1>9. CASE CallbackArrives(cl) BY <1>0, <1>1, <1>9, CallbackArrivesTurns DEF CallbackArrives
<1>10. CASE ClaimLogin(cl) BY <1>0, <1>1, <1>10, ClaimLoginTurns DEF ClaimLogin
<1>11. CASE ExchangeCode(cl) BY <1>0, <1>1, <1>11, ExchangeCodeTurns DEF ExchangeCode
<1>12. CASE VerifyIdToken(cl) BY <1>0, <1>1, <1>12, VerifyIdTokenTurns DEF VerifyIdToken
<1>13. CASE Accepted(cl) BY <1>0, <1>1, <1>13, AcceptedTurns DEF Accepted, Pages
<1>14. CASE EstablishSession(cl) BY <1>0, <1>1, <1>14, EstablishSessionTurns DEF EstablishSession
<1>15. CASE Logout(cl) BY <1>0, <1>1, <1>15, LogoutTurns DEF Logout
<1> QED
  BY <1>0, <1>3, <1>4, <1>5, <1>6, <1>7, <1>8, <1>9, <1>10, <1>11, <1>12, <1>13, <1>14, <1>15
  DEF Serve

\* So do the browser's own steps.
LEMMA SendWalks ==
    ASSUME WalkInv, NEW cl \in Callers,
           (\E door \in Doors : Send(cl, door)) \/ SendCallback(cl) \/ Receive(cl)
    PROVE  Turns(cl) /\ Walks(call[cl])'
<1>1. Typed /\ UNCHANGED setting BY DEF WalkInv, Send, SendCallback, Receive
<1>2. Nothing \notin Doors \cup {"session", "signed out", "redirect"}
  BY SettingsAssumption DEF Doors, Pages, Answers
<1> USE DEF Walks, AuthPcs, LoginPcs, Basic
<1>3. ASSUME NEW door \in Doors, Send(cl, door) PROVE Turns(cl) /\ Walks(call[cl])'
  BY <1>1, <1>2, <1>3, SendTurns
<1>4. CASE SendCallback(cl)
  <2>1. ~Basic BY <1>4 DEF SendCallback, WalkInv
  <2> QED BY <1>1, <1>2, <1>4, <2>1, SendCallbackTurns
<1>5. CASE Receive(cl)
  <2>1. Idle.pc = "idle" /\ Idle.door = Nothing /\ Idle.word = Nothing /\ Idle.answer = Nothing
    BY DEF Idle
  <2>2. Turns(cl) /\ call'[cl] = Idle BY <1>1, <1>5, ReceiveTurns
  <2> QED BY <1>1, <1>2, <2>1, <2>2 DEF Doors
<1> QED BY <1>3, <1>4, <1>5

\* The rows of the accounts and their counters.
Stored ==
    /\ account \in [Names -> Rows] /\ counter \in [Counters -> Counts]
    /\ guesses \in [Counters -> Nat] /\ clock \in Nat /\ rowIds \in Nat

\* The writes to a row of an account or of a counter leave a row.
LEMMA RowChanges ==
    /\ NoAccount \in Rows /\ NoCount \in Counts
    /\ \A row \in Rows, word \in Words \cup {Oversized, Nothing}, is \in BOOLEAN :
          /\ [row EXCEPT !.word = word, !.weak = FALSE] \in Rows
          /\ [row EXCEPT !.word = word] \in Rows
          /\ [row EXCEPT !.disabled = is] \in Rows
    /\ \A now \in Nat, id \in Nat : Started(NoCount, now, id) \in Counts
    /\ \A count \in Counts, now \in Nat, threshold \in Nat :
          Counted(count, now, threshold) \in Counts
<1>1. NoAccount \in Rows /\ NoCount \in Counts
  BY DEF NoAccount, NoCount, Rows, Counts
<1>2. ASSUME NEW row \in Rows, NEW word \in Words \cup {Oversized, Nothing}, NEW is \in BOOLEAN
      PROVE  /\ [row EXCEPT !.word = word, !.weak = FALSE] \in Rows
             /\ [row EXCEPT !.word = word] \in Rows
             /\ [row EXCEPT !.disabled = is] \in Rows
  BY <1>2 DEF Rows
<1>3. ASSUME NEW now \in Nat, NEW id \in Nat PROVE Started(NoCount, now, id) \in Counts
  BY <1>3 DEF Started, Counts
<1>4. ASSUME NEW count \in Counts, NEW now \in Nat, NEW threshold \in Nat
      PROVE  Counted(count, now, threshold) \in Counts
  <2> DEFINE until == IF count.failures + 1 >= threshold /\ ~Locks(count, now)
                      THEN now + Lockout ELSE count.until
  <2>1. until \in Nat BY AccountsAssumption DEF Counts
  <2>2. Counted(count, now, threshold) =
            [count EXCEPT !.failures = count.failures + 1, !.last = now, !.until = until]
    BY DEF Counted
  <2>3. count.failures + 1 \in Nat /\ count.row \in Nat BY DEF Counts
  <2> HIDE DEF until
  <2>4. Counted(count, now, threshold) =
            [row |-> count.row, failures |-> count.failures + 1, last |-> now, until |-> until]
    BY <2>2 DEF Counts
  <2> QED BY <2>1, <2>3, <2>4 DEF Counts
<1> QED BY <1>1, <1>2, <1>3, <1>4

\* Every counter has a threshold.
LEMMA ThresholdsAre == \A c : Threshold(c) \in Nat \ {0}
BY AccountsAssumption DEF Threshold

\* The password chain leaves accounts and counters of their shape.
LEMMA AuthenticatesStored ==
    ASSUME WalkInv, NEW cl \in Callers, Authenticates(cl) PROVE Stored'
<1>1. Stored /\ call[cl] \in Call BY DEF WalkInv, Typed, Stored
<1>2. CASE Knock(cl) \/ ReadAccount(cl) \/ Verify(cl) \/ CountReads(cl)
  BY <1>1, <1>2 DEF Stored, Knock, ReadAccount, Verify, CountReads, tables
<1>3. CASE ClearFailures(cl)
  BY <1>1, <1>3, RowChanges DEF Stored, ClearFailures
<1>4. CASE Upgrade(cl)
  <2> DEFINE n == call[cl].name
             row == [account[n] EXCEPT !.word = call[cl].word, !.weak = FALSE]
  <2>1. account' = account \/ (account' = [account EXCEPT ![n] = row])
    BY <1>4 DEF Upgrade
  <2>2. call[cl].word \in Words \cup {Oversized, Nothing} BY <1>1 DEF Call
  <2>3. n \in Names => row \in Rows BY <1>1, <2>2, RowChanges DEF Stored
  <2> HIDE DEF row, n
  <2>4. account' \in [Names -> Rows] BY <1>1, <2>1, <2>3 DEF Stored
  <2> QED BY <1>1, <1>4, <2>4 DEF Stored, Upgrade
<1>5. CASE CountWrites(cl)
  <2> DEFINE c == call[cl].counts
             now == call[cl].now
             read == call[cl].read
  <2>1. /\ read \in Counts /\ now \in Nat /\ read.row \in Nat /\ rowIds + 1 \in Nat
        /\ Threshold(c) \in Nat
    BY <1>1, ThresholdsAre DEF Stored, Call, Counts
  <2>2. \A id \in Nat : Started(read, now, id) \in Counts
    BY <2>1 DEF Started, Counts
  <2>3. Counted(read, now, Threshold(c)) \in Counts BY <2>1, RowChanges
  <2>4. \E count \in Counts : counter' = counter \/ counter' = [counter EXCEPT ![c] = count]
    BY <1>1, <1>5, <2>1, <2>2, <2>3 DEF CountWrites
  <2>5. rowIds' \in Nat BY <1>1, <1>5, <2>1 DEF CountWrites, Stored
  <2>6. \E n \in Nat : guesses' = guesses \/ guesses' = [guesses EXCEPT ![c] = n]
    <3> DEFINE n == IF counter'[c].until \in 1..clock THEN 0
                    ELSE IF Fresh(read, now) THEN 1 ELSE guesses[c] + 1
    <3>1. c \in Counters => guesses[c] + 1 \in Nat BY <1>1 DEF Stored
    <3>2. c \in Counters => n \in Nat BY <3>1
    <3>3. guesses' = guesses \/ guesses' = [guesses EXCEPT ![c] = n]
      BY <1>5 DEF CountWrites
    <3> HIDE DEF n, c
    <3>5. CASE c \in Counters BY <3>2, <3>3, <3>5
    <3>6. CASE c \notin Counters
      <4>1. \A m : [guesses EXCEPT ![c] = m] = guesses BY <1>1, <3>6 DEF Stored
      <4> QED BY <3>3, <4>1
    <3> QED BY <3>5, <3>6
  <2> HIDE DEF c, now, read
  <2> QED BY <1>1, <1>5, <2>4, <2>5, <2>6 DEF Stored, CountWrites
<1> QED BY <1>2, <1>3, <1>4, <1>5 DEF Authenticates, Authenticate

\* What the administrator, a purge or the clock does to them.
Aside == Administer \/ ClearsLockout \/ PurgesLockouts \/ Ticks \/ Forgets

\* So does the removal of counters.
LEMMA DropsStored ==
    ASSUME Stored, NEW gone, DropCounters(gone) PROVE Stored' /\ UNCHANGED call
<1>1. counter' \in [Counters -> Counts]
  BY RowChanges DEF Stored, DropCounters
<1>2. guesses' \in [Counters -> Nat] BY DEF Stored, DropCounters
<1> QED BY <1>1, <1>2 DEF Stored, DropCounters

\* So do the administrator, the purge and the clock, which touch no request.
LEMMA AsideStored ==
    ASSUME WalkInv, Aside PROVE Stored' /\ UNCHANGED <<call, keysVars, setting, webVars>>
<1>1. Stored BY DEF WalkInv, Typed, Stored
<1>2. CASE Administer
  <2>1. PICK n \in setting.accounts :
             \/ \E w \in Words : CreateAccount(n, w)
             \/ \E w \in Words, p \in Processes : SetPassword(n, w, p)
             \/ \E disabled \in BOOLEAN : Suspend(n, disabled)
             \/ \E p \in Processes : DeleteAccount(n, p)
    BY <1>2 DEF Administer
  <2>2. n \in Names /\ account[n] \in Rows BY <1>1, <2>1 DEF WalkInv, Typed, Setting
  <2>3. ASSUME NEW row \in Rows, account' = [account EXCEPT ![n] = row]
        PROVE  account' \in [Names -> Rows]
    BY <1>1, <2>2, <2>3 DEF Stored
  <2>4. ASSUME NEW w \in Words, CreateAccount(n, w)
        PROVE account' \in [Names -> Rows] /\ UNCHANGED call
    <3> DEFINE row == [NoAccount EXCEPT !.word = w]
    <3>1. row \in Rows BY RowChanges
    <3>2. account' = [account EXCEPT ![n] = row] BY <2>4 DEF CreateAccount
    <3> HIDE DEF row
    <3> QED BY <2>3, <2>4, <3>1, <3>2 DEF CreateAccount
  <2>5. ASSUME NEW w \in Words, NEW p \in Processes, SetPassword(n, w, p)
        PROVE account' \in [Names -> Rows] /\ UNCHANGED call
    <3> DEFINE row == [account[n] EXCEPT !.word = w, !.weak = FALSE]
    <3>1. row \in Rows BY <2>2, RowChanges
    <3>2. account' = [account EXCEPT ![n] = row] BY <2>5 DEF SetPassword
    <3> HIDE DEF row
    <3> QED BY <2>3, <2>5, <3>1, <3>2 DEF SetPassword
  <2>6. ASSUME NEW is \in BOOLEAN, Suspend(n, is)
        PROVE account' \in [Names -> Rows] /\ UNCHANGED call
    <3> DEFINE row == [account[n] EXCEPT !.disabled = is]
    <3>1. row \in Rows BY <2>2, RowChanges
    <3>2. account' = [account EXCEPT ![n] = row] BY <2>6 DEF Suspend
    <3> HIDE DEF row
    <3> QED BY <2>3, <2>6, <3>1, <3>2 DEF Suspend
  <2>7. ASSUME NEW p \in Processes, DeleteAccount(n, p)
        PROVE account' \in [Names -> Rows] /\ UNCHANGED call
    BY <2>3, <2>7, RowChanges DEF DeleteAccount
  <2>8. UNCHANGED <<counter, guesses, clock, rowIds>>
    BY <2>1 DEF CreateAccount, SetPassword, Suspend, DeleteAccount
  <2>9. account' \in [Names -> Rows] /\ UNCHANGED call BY <2>1, <2>4, <2>5, <2>6, <2>7
  <2> QED BY <1>1, <1>2, <2>8, <2>9 DEF Stored, Administer, Elsewhere
<1>3. CASE ClearsLockout
  BY <1>1, <1>3, DropsStored DEF ClearsLockout, ClearLockout, Elsewhere
<1>4. CASE PurgesLockouts
  BY <1>1, <1>4, DropsStored DEF PurgesLockouts, PurgeLockouts, Elsewhere
<1>5. CASE Ticks
  BY <1>1, <1>5 DEF Ticks, ClockTicks, Stored, Elsewhere
<1>6. CASE Forgets
  BY <1>1, <1>6 DEF Forgets, Forget, Stored, Elsewhere
<1> QED BY <1>2, <1>3, <1>4, <1>5, <1>6 DEF Aside

\* The rows of logins and of sessions, the cookies, and the provider's keys.
Kept ==
    /\ published \subseteq Kids
    /\ browser \in [Browsers -> Held] /\ login \in Seq(LoginRow) /\ session \in Seq(SessionRow)

\* The doors leave the rows of logins and of sessions of their shape.
LEMMA ServeKept ==
    ASSUME WalkInv, NEW cl \in Callers, Serve(cl)
    PROVE  Kept' /\ UNCHANGED browser /\ (Basic => LoginRows' = {})
<1>1. /\ Kept /\ call[cl] \in Call /\ Walks(call[cl]) /\ clock \in Nat
      /\ Browser(cl) \in Browsers
      /\ Basic => LoginRows = {}
  BY DEF WalkInv, Typed, Kept, Browser, Setting
<1>2. call[cl].state \in Nat BY <1>1 DEF Call
<1>3. UNCHANGED browser /\ UNCHANGED published
  BY DEF Serve, FromBasic, FromSession, FromBearer, LoginPage, SignInForm, LoginBegins,
     CallbackArrives, ClaimLogin, ExchangeCode, VerifyIdToken, Accepted, EstablishSession, Logout,
     keysVars, GetKey
<1>4. login' \in Seq(LoginRow) /\ (Basic => LoginRows' = {})
  <2> DEFINE l == call[cl].state
  <2>1. CASE LoginBegins(cl)
    <3> DEFINE row == [by |-> Browser(cl), expires |-> clock + LoginLasts,
                       consumed |-> FALSE, answered |-> FALSE, asked |-> 0]
    <3>0. clock + LoginLasts \in Nat BY <1>1, SettingsAssumption
    <3>1. row \in LoginRow BY <1>1, <3>0 DEF LoginRow
    <3>2. login' = Append(login, row) /\ ~Basic BY <2>1 DEF LoginBegins
    <3> HIDE DEF row
    <3> QED BY <1>1, <3>1, <3>2 DEF Kept
  <2>2. ASSUME NEW row, login' = [login EXCEPT ![l] = row], l \in LoginRows => row \in LoginRow
        PROVE  login' \in Seq(LoginRow) /\ LoginRows' = LoginRows
    <3>1. LoginRows = 1..Len(login) /\ login \in [1..Len(login) -> LoginRow] /\ Len(login) \in Nat
      BY <1>1 DEF Kept, LoginRows
    <3>2. login' \in [1..Len(login) -> LoginRow] BY <2>2, <3>1
    <3> QED BY <3>1, <3>2 DEF LoginRows
  <2>3. l \in LoginRows => login[l] \in LoginRow BY <1>1 DEF Kept, LoginRows
  <2>4. CASE ClaimLogin(cl)
    <3> DEFINE row == [login[l] EXCEPT !.consumed = TRUE]
    <3>1. UNCHANGED login \/ login' = [login EXCEPT ![l] = row] BY <2>4 DEF ClaimLogin
    <3>2. l \in LoginRows => row \in LoginRow BY <2>3 DEF LoginRow
    <3> HIDE DEF row, l
    <3> QED BY <1>1, <2>2, <3>1, <3>2 DEF Kept, LoginRows
  <2>5. CASE ExchangeCode(cl)
    <3> DEFINE row == [login[l] EXCEPT !.asked = login[l].asked + 1]
    <3>1. UNCHANGED login \/ login' = [login EXCEPT ![l] = row] BY <2>5 DEF ExchangeCode
    <3>2. l \in LoginRows => row \in LoginRow BY <2>3 DEF LoginRow
    <3> HIDE DEF row, l
    <3> QED BY <1>1, <2>2, <3>1, <3>2 DEF Kept, LoginRows
  <2>6. LoginBegins(cl) \/ ClaimLogin(cl) \/ ExchangeCode(cl) \/ UNCHANGED login
    BY DEF Serve, FromBasic, FromSession, FromBearer, LoginPage, SignInForm,
       CallbackArrives, VerifyIdToken, Accepted, EstablishSession, Logout
  <2>7. UNCHANGED login => login' \in Seq(LoginRow) /\ (Basic => LoginRows' = {})
    BY <1>1 DEF Kept, LoginRows
  <2>8. ClaimLogin(cl) \/ ExchangeCode(cl) => call[cl].pc \in LoginPcs
    BY DEF ClaimLogin, ExchangeCode, At, LoginPcs
  <2>9. call[cl].pc \in LoginPcs => ~Basic BY <1>1 DEF Walks
  <2> QED BY <2>1, <2>4, <2>5, <2>6, <2>7, <2>8, <2>9
<1>5. session' \in Seq(SessionRow)
  <2>1. CASE EstablishSession(cl)
    <3> DEFINE of == IF Basic THEN 0 ELSE call[cl].state
               row == [expires |-> clock + SessionLasts, revoked |-> FALSE,
                       by |-> Browser(cl), login |-> of]
    <3>1. of \in Nat BY <1>2
    <3>2. session' = Append(session, row) BY <2>1 DEF EstablishSession
    <3> HIDE DEF of
    <3>3. clock + SessionLasts \in Nat BY <1>1, SettingsAssumption
    <3>4. row \in SessionRow BY <1>1, <3>1, <3>3 DEF SessionRow
    <3> HIDE DEF row
    <3> QED BY <1>1, <3>2, <3>4 DEF Kept
  <2>2. CASE Logout(cl)
    <3> DEFINE id == call[cl].cookie
               row == [session[id] EXCEPT !.revoked = TRUE]
    <3>1. session' = session \/ (id \in SessionRows /\ session' = [session EXCEPT ![id] = row])
      BY <2>2 DEF Logout
    <3>2. id \in SessionRows => row \in SessionRow
      <4> DEFINE old == session[id]
      <4>1. id \in SessionRows => old \in SessionRow BY <1>1 DEF Kept, SessionRows
      <4>2. row = [old EXCEPT !.revoked = TRUE] OBVIOUS
      <4> HIDE DEF row, old, id
      <4> QED BY <4>1, <4>2 DEF SessionRow
    <3> HIDE DEF row, id
    <3>3. SessionRows = 1..Len(session) /\ session \in [1..Len(session) -> SessionRow]
          /\ Len(session) \in Nat
      BY <1>1 DEF Kept, SessionRows
    <3>4. session' \in [1..Len(session) -> SessionRow] BY <3>1, <3>2, <3>3
    <3> QED BY <3>3, <3>4
  <2>3. EstablishSession(cl) \/ Logout(cl) \/ UNCHANGED session
    BY DEF Serve, FromBasic, FromSession, FromBearer, LoginPage, SignInForm, LoginBegins,
       CallbackArrives, ClaimLogin, ExchangeCode, VerifyIdToken, Accepted
  <2> QED BY <1>1, <2>1, <2>2, <2>3 DEF Kept
<1> QED BY <1>1, <1>3, <1>4, <1>5 DEF Kept

\* The cookies an answer leaves a browser with are cookies.
LEMMA CookiesHeld ==
    ASSUME NEW knock \in Call, NEW had \in Held
    PROVE  Cookies(knock, had) \in Held
<1>1. knock.cookie \in Nat /\ knock.state \in Nat BY DEF Call
<1>2. had.cookie \in Nat /\ had.marker \in BOOLEAN /\ had.state \in Nat BY DEF Held
<1>3. \A c \in Nat, m \in BOOLEAN, s \in Nat :
         [had EXCEPT !.cookie = c, !.marker = m, !.state = s] \in Held
  BY DEF Held
<1>4. CASE knock.answer = "session"
  <2> DEFINE s == IF knock.door = "callback" THEN 0 ELSE had.state
  <2>1. s \in Nat BY <1>2
  <2>2. Cookies(knock, had) = [had EXCEPT !.cookie = knock.cookie, !.marker = FALSE, !.state = s]
    BY <1>4 DEF Cookies
  <2> HIDE DEF s
  <2> QED BY <1>1, <1>3, <2>1, <2>2
<1>5. CASE knock.answer = "sign-in page" /\ knock.door = "login"
  <2> DEFINE m == IF knock.marker THEN FALSE ELSE had.marker
  <2>1. m \in BOOLEAN BY <1>2
  <2>2. Cookies(knock, had) = [had EXCEPT !.marker = m] BY <1>5 DEF Cookies
  <2> HIDE DEF m
  <2> QED BY <2>1, <2>2 DEF Held
<1>6. CASE knock.answer = "redirect"
  <2>1. Cookies(knock, had) = [had EXCEPT !.state = knock.state] BY <1>6 DEF Cookies
  <2> QED BY <1>1, <2>1 DEF Held
<1>7. CASE knock.answer = "signed out"
  <2> DEFINE m == Basic
  <2>1. Cookies(knock, had) = [NoCookies EXCEPT !.marker = m] BY <1>7 DEF Cookies
  <2>2. m \in BOOLEAN BY DEF Basic
  <2> HIDE DEF m
  <2> QED BY <2>1, <2>2 DEF Held, NoCookies
<1>8. CASE /\ knock.answer \notin {"session", "redirect", "signed out"}
           /\ ~(knock.answer = "sign-in page" /\ knock.door = "login")
  <2>1. Cookies(knock, had) = had BY <1>8 DEF Cookies
  <2> QED BY <2>1
<1> QED BY <1>4, <1>5, <1>6, <1>7, <1>8

\* The browser's own steps change nothing that is stored.
LEMMA SendKept ==
    ASSUME WalkInv, NEW cl \in Callers,
           (\E door \in Doors : Send(cl, door)) \/ SendCallback(cl) \/ Receive(cl)
    PROVE  Kept' /\ Stored' /\ UNCHANGED <<setting, login, session, keysVars>>
<1>1. /\ Kept /\ Stored /\ call[cl] \in Call /\ Browser(cl) \in Browsers
  BY DEF WalkInv, Typed, Kept, Stored, Browser, Setting
<1>2. UNCHANGED <<account, verified, counter, clock, rowIds, guesses, contended, setting,
                  login, session, keysVars>>
  BY DEF Send, SendCallback, Receive
<1>3. CASE (\E door \in Doors : Send(cl, door)) \/ SendCallback(cl)
  BY <1>1, <1>2, <1>3 DEF Send, SendCallback, Kept, Stored, keysVars
<1>4. CASE Receive(cl)
  <2> DEFINE had == browser[Browser(cl)]
             set == Cookies(call[cl], had)
  <2>1. had \in Held BY <1>1 DEF Kept
  <2>2. set \in Held BY <1>1, <2>1, CookiesHeld
  <2>3. browser' = [browser EXCEPT ![Browser(cl)] = set] BY <1>4 DEF Receive
  <2> HIDE DEF set, had
  <2>4. browser' \in [Browsers -> Held] BY <1>1, <2>2, <2>3 DEF Kept
  <2> QED BY <1>1, <1>2, <2>4 DEF Kept, Stored, keysVars
<1> QED BY <1>2, <1>3, <1>4

\* The provider's answer changes one field of one login.
LEMMA ProviderKept ==
    ASSUME WalkInv, NEW l \in LoginRows, ProviderAnswers(l)
    PROVE  Kept' /\ Stored' /\ UNCHANGED <<setting, call, browser, session>> /\ LoginRows' = LoginRows
<1>1. Kept /\ Stored BY DEF WalkInv, Typed, Kept, Stored
<1> DEFINE row == [login[l] EXCEPT !.answered = TRUE]
<1>2. login[l] \in LoginRow BY <1>1 DEF Kept, LoginRows
<1>3. row \in LoginRow BY <1>2 DEF LoginRow
<1>4. login' = [login EXCEPT ![l] = row] BY DEF ProviderAnswers
<1> HIDE DEF row
<1>5. LoginRows = 1..Len(login) /\ login \in [1..Len(login) -> LoginRow] /\ Len(login) \in Nat
  BY <1>1 DEF Kept, LoginRows
<1>6. login' \in [1..Len(login) -> LoginRow] BY <1>3, <1>4, <1>5
<1>7. login' \in Seq(LoginRow) /\ LoginRows' = LoginRows BY <1>5, <1>6 DEF LoginRows
<1> QED BY <1>1, <1>7 DEF Kept, Stored, ProviderAnswers, accountVars, keysVars

\* A rotation changes the published keys.
LEMMA RotatesKept ==
    ASSUME WalkInv, Rotates
    PROVE  Kept' /\ Stored' /\ UNCHANGED <<setting, call, login>>
<1>1. Kept /\ Stored BY DEF WalkInv, Typed, Kept, Stored
<1> QED BY <1>1 DEF Rotates, Publish, Withdraw, Kept, Stored, accountVars, webVars

\* A step of a request.
Moves(cl) ==
    \/ \E door \in Doors : Send(cl, door)
    \/ SendCallback(cl)
    \/ Receive(cl)
    \/ Authenticates(cl)
    \/ Serve(cl)

\* Every step there is.
LEMMA Steps ==
    ASSUME Next
    PROVE  /\ Observe
           /\ \/ \E cl \in Callers : Moves(cl)
              \/ \E l \in LoginRows : ProviderAnswers(l)
              \/ Aside
              \/ Rotates
BY DEF Next, Moves, Aside

\* At first nothing is under way.
LEMMA WalkInvInit ==
    ASSUME Init PROVE WalkInv
<1>1. setting \in Setting /\ \E w \in setting.words : w # Oversized
  BY SettingsAssumption DEF Init
<1>2. setting.words \subseteq Words \cup {Oversized} BY <1>1 DEF Setting
<1> DEFINE word == CHOOSE w \in setting.words : w # Oversized
<1>3. word \in Words BY <1>1, <1>2
<1>4. [word |-> word, weak |-> setting.weak, disabled |-> FALSE] \in Rows
  BY <1>1, <1>3 DEF Setting, Rows
<1>5. account \in [Names -> Rows]
  <2> HIDE DEF word
  <2>1. \A n \in Names : (IF n \in setting.accounts /\ Basic
            THEN [word |-> word, weak |-> setting.weak, disabled |-> FALSE] ELSE NoAccount) \in Rows
    BY <1>4, RowChanges
  <2>2. account = [n \in Names |-> IF n \in setting.accounts /\ Basic
            THEN [word |-> word, weak |-> setting.weak, disabled |-> FALSE] ELSE NoAccount]
    BY DEF Init, word
  <2> QED BY <2>1, <2>2
<1>6. Idle \in Call BY DEF Idle, Call, Pcs, NoCount, Counts
<1>7. NoCookies \in Held BY DEF NoCookies, Held
<1>8. published \subseteq Kids BY KeysAssumption DEF Init
<1>9. Typed
  <2> HIDE DEF word
  <2>1. call \in [Callers -> Call] /\ browser \in [Browsers -> Held] BY <1>6, <1>7 DEF Init
  <2>2. login = <<>> /\ session = <<>> /\ clock = 1 /\ rowIds = 0 BY DEF Init
  <2>3. counter \in [Counters -> Counts] /\ guesses \in [Counters -> Nat] BY RowChanges DEF Init
  <2> QED BY <1>1, <1>5, <1>8, <2>1, <2>2, <2>3 DEF Typed
<1>10. Walks(Idle)
  <2>1. Nothing \notin Doors \cup {"session", "signed out", "redirect"}
    BY SettingsAssumption DEF Doors, Pages, Answers
  <2> QED BY <2>1 DEF Walks, Idle, AuthPcs, LoginPcs, Doors
<1>11. LoginRows = {} BY DEF Init, LoginRows
<1> QED BY <1>9, <1>10, <1>11 DEF Init, WalkInv

\* The requests that did not move are where they were.
LEMMA OthersWalk ==
    ASSUME WalkInv, NEW cl \in Callers, Turns(cl), Walks(call[cl])', UNCHANGED setting
    PROVE  \A o \in Callers : Walks(call[o])'
<1> SUFFICES ASSUME NEW o \in Callers PROVE Walks(call[o])' OBVIOUS
<1>1. CASE o = cl BY <1>1
<1>2. CASE o # cl
  <2>1. call'[o] = call[o] /\ Walks(call[o]) BY <1>2 DEF Turns, WalkInv
  <2> QED BY <2>1 DEF Walks, Basic
<1> QED BY <1>1, <1>2

\* A step of a request keeps the shape of everything.
LEMMA MovesWalk ==
    ASSUME WalkInv, NEW cl \in Callers, Moves(cl)
    PROVE  WalkInv' /\ Turns(cl) /\ UNCHANGED setting
<1>1. CASE (\E door \in Doors : Send(cl, door)) \/ SendCallback(cl) \/ Receive(cl)
  <2>1. Turns(cl) /\ Walks(call[cl])' BY <1>1, SendWalks
  <2>2. Kept' /\ Stored' /\ UNCHANGED <<setting, login>> BY <1>1, SendKept
  <2>3. Typed' BY <2>1, <2>2 DEF WalkInv, Typed, Turns, Kept, Stored
  <2> QED BY <2>1, <2>2, <2>3, OthersWalk DEF WalkInv, Basic, LoginRows
<1>2. CASE Authenticates(cl)
  <2>1. Turns(cl) /\ Walks(call[cl])' BY <1>2, AuthenticatesWalks
  <2>2. Stored' BY <1>2, AuthenticatesStored
  <2>3. UNCHANGED <<setting, browser, published, login, session>>
    BY <1>2 DEF Authenticates, Elsewhere, keysVars, webVars
  <2>4. Typed' BY <2>1, <2>2, <2>3 DEF WalkInv, Typed, Turns, Stored
  <2> QED BY <2>1, <2>3, <2>4, OthersWalk DEF WalkInv, Basic, LoginRows
<1>3. CASE Serve(cl)
  <2>1. Turns(cl) /\ Walks(call[cl])' /\ UNCHANGED Rest BY <1>3, ServeWalks
  <2>2. Kept' /\ (Basic => LoginRows' = {}) BY <1>3, ServeKept
  <2>3. Typed' /\ UNCHANGED setting BY <2>1, <2>2 DEF WalkInv, Typed, Turns, Kept, Rest
  <2> QED BY <2>1, <2>2, <2>3, OthersWalk DEF WalkInv, Basic
<1> QED BY <1>1, <1>2, <1>3 DEF Moves

\* Every step does.
LEMMA WalkInvNext == WalkInv /\ [Next]_vars => WalkInv'
<1> SUFFICES ASSUME WalkInv, [Next]_vars PROVE WalkInv' OBVIOUS
<1>1. CASE UNCHANGED vars
  BY <1>1 DEF vars, accountVars, keysVars, webVars, WalkInv, Typed, Walks, Basic, LoginRows
<1>2. CASE Next
  <2>1. ASSUME NEW cl \in Callers, Moves(cl) PROVE WalkInv' BY <2>1, MovesWalk
  <2>2. ASSUME NEW l \in LoginRows, ProviderAnswers(l) PROVE WalkInv'
    <3>1. /\ Kept' /\ Stored' /\ UNCHANGED <<setting, call>> /\ LoginRows' = LoginRows
      BY <2>2, ProviderKept
    <3> QED BY <3>1 DEF WalkInv, Typed, Walks, Basic, Kept, Stored
  <2>3. CASE Aside
    <3>1. Stored' /\ UNCHANGED <<call, keysVars, setting, webVars>> BY <2>3, AsideStored
    <3> QED BY <3>1 DEF WalkInv, Typed, Walks, Basic, Stored, LoginRows, keysVars, webVars
  <2>4. CASE Rotates
    <3>1. Kept' /\ Stored' /\ UNCHANGED <<setting, call, login>> BY <2>4, RotatesKept
    <3> QED BY <3>1 DEF WalkInv, Typed, Walks, Basic, Kept, Stored, LoginRows
  <2> QED BY <1>2, <2>1, <2>2, <2>3, <2>4, Steps
<1> QED BY <1>1, <1>2

\* Type correctness, and the way of a request: what is carried decides where
\* it can be.  A password is only ever looked at with a name, a session only
\* made at a sign-in or a callback, no callback is served in the basic mode.
THEOREM WalkInvHolds == Spec => []WalkInv
BY WalkInvInit, WalkInvNext, PTL DEF Spec

-----------------------------------------------------------------------------
(* Whoever is let in was seen with a credential in force.                  *)

\* What Observe sees, it sees for as long as the request lasts.
LEMMA Sightings ==
    ASSUME Observe, NEW cl \in Callers, call'[cl].pc # "idle"
    PROVE  /\ good[cl] => good'[cl]
           /\ LET k == call'[cl] IN
                /\ (/\ k.word # Nothing /\ Opens(account'[k.name], k.word)
                    /\ ~account'[k.name].disabled) => good'[cl]
                /\ k.word = Nothing /\ LiveIn(session', k.cookie, clock') => good'[cl]
BY DEF Observe

\* A request that did not move is vouched for as before.
LEMMA StaysVouched ==
    ASSUME NEW cl \in Callers, WalkInv, Vouched(cl), Observe, call'[cl] = call[cl]
    PROVE  Vouched(cl)'
<1>1. Walks(call[cl]) BY DEF WalkInv
<1>2. CASE call[cl].pc = "idle"
  <2>1. call[cl].answer \notin {"admitted", "session"}
    BY <1>1, <1>2, SettingsAssumption DEF Walks, Answers
  <2> QED BY <1>2, <2>1 DEF Vouched
<1>3. CASE call[cl].pc # "idle"
  <2>1. good[cl] => good'[cl] BY <1>3, Sightings
  <2> QED BY <2>1 DEF Vouched
<1> QED BY <1>2, <1>3

\* A password is vouched for by the row that was read, and by nothing older.
LEMMA AuthenticatesVouched ==
    ASSUME WalkInv, AdmitInv, Observe, NEW cl \in Callers, Authenticates(cl)
    PROVE  Vouched(cl)' /\ DOMAIN verified' = Processes /\ \A p \in Processes : Remembers(verified'[p])
<1>1. /\ Typed /\ Walks(call[cl]) /\ Vouched(cl) /\ Same(call[cl], call'[cl])
      /\ call[cl].pc \in AuthPcs /\ ProcessOf[cl] \in Processes
      /\ call'[cl].answer \notin {"admitted", "session"}
  BY AuthenticatesWalks DEF WalkInv, AdmitInv, Processes
<1>2. call[cl].name \in Names /\ call[cl].word # Nothing BY <1>1 DEF Walks
<1>3. call'[cl].pc # "idle" => (good[cl] => good'[cl]) BY Sightings
<1>4. CASE Knock(cl) \/ CountReads(cl) \/ CountWrites(cl)
  <2>1. call'[cl].pc \in {"answered", "reading", "counting", "count"}
    BY <1>1, <1>4, KnockTurns, CountReadsTurns, CountWritesTurns
    DEF Walks, AuthPcs, CountReads, At
  <2>2. UNCHANGED verified BY <1>4 DEF Knock, CountReads, CountWrites, tables
  <2> QED BY <1>1, <2>1, <2>2 DEF Vouched, AdmitInv
<1>5. CASE ReadAccount(cl)
  <2>1. call'[cl].pc = "verifying" /\ call'[cl].row = account[call[cl].name]
    BY <1>1, <1>2, <1>5, ReadAccountTurns
  <2>2. UNCHANGED <<account, verified>> BY <1>5 DEF ReadAccount, tables
  <2>3. call'[cl].name = call[cl].name /\ call'[cl].word = call[cl].word
    BY <1>1 DEF Same
  <2>4. Opens(call'[cl].row, call'[cl].word) /\ ~call'[cl].row.disabled => good'[cl]
    BY <1>2, <2>1, <2>2, <2>3, Sightings
  <2> QED BY <1>1, <2>1, <2>2, <2>4 DEF Vouched, AdmitInv
<1>6. CASE Verify(cl)
  <2> DEFINE p == ProcessOf[cl]
             v == Verification(cl)
             pass == v \in verified[p] \/ Opens(call[cl].row, call[cl].word)
  <2>1. v.word = call[cl].word /\ v.stored[1] = call[cl].row.word BY DEF Verification
  <2>2. pass => call[cl].row.word = call[cl].word
    BY <1>1, <2>1 DEF AdmitInv, Remembers, Opens
  <2>3. verified' = IF pass THEN [verified EXCEPT ![p] = verified[p] \cup {v}] ELSE verified
    BY <1>6 DEF Verify
  <2>4. DOMAIN verified' = Processes /\ \A q \in Processes : Remembers(verified'[q])
    <3> HIDE DEF v, pass
    <3> QED BY <1>1, <2>1, <2>2, <2>3 DEF AdmitInv, Remembers
  <2>5. CASE pass /\ call[cl].row.word # Nothing /\ ~call[cl].row.disabled
    <3>1. To(cl, "clearing") /\ call[cl].pc = "verifying" BY <1>6, <2>5 DEF Verify, At
    <3>2. call'[cl].pc = "clearing" BY <1>1, <3>1, ToTurns DEF Pcs, AuthPcs
    <3>3. good[cl] BY <1>1, <2>2, <2>5, <3>1 DEF Vouched, Opens
    <3> QED BY <1>1, <1>3, <2>4, <3>2, <3>3 DEF Vouched
  <2>6. CASE ~(pass /\ call[cl].row.word # Nothing /\ ~call[cl].row.disabled)
    <3>1. call' = [call EXCEPT ![cl].pc = "counting", ![cl].row = Nothing,
                               ![cl].counts = call[cl].name]
      BY <1>6, <2>6 DEF Verify
    <3>2. call'[cl].pc = "counting" BY <1>1, <3>1 DEF Typed, Call
    <3> QED BY <1>1, <2>4, <3>2 DEF Vouched
  <2> QED BY <2>5, <2>6
<1>7. CASE ClearFailures(cl)
  <2>1. /\ call'[cl].pc \in {"upgrading", "accepted"} /\ call[cl].pc = "clearing"
        /\ UNCHANGED verified
    BY <1>1, <1>7, ClearFailuresTurns DEF ClearFailures, At
  <2> QED BY <1>1, <1>3, <2>1 DEF Vouched, AdmitInv
<1>8. CASE Upgrade(cl)
  <2>1. To(cl, "accepted") /\ call[cl].pc = "upgrading" BY <1>8 DEF Upgrade, At
  <2>2. call'[cl].pc = "accepted" BY <1>1, <2>1, ToTurns DEF Pcs, AuthPcs
  <2>3. verified' = [verified EXCEPT ![ProcessOf[cl]] = {}] BY <1>8 DEF Upgrade
  <2>4. DOMAIN verified' = Processes /\ \A q \in Processes : Remembers(verified'[q])
    BY <2>3 DEF AdmitInv, Remembers
  <2> QED BY <1>1, <1>3, <2>1, <2>2, <2>4 DEF Vouched
<1> QED BY <1>4, <1>5, <1>6, <1>7, <1>8 DEF Authenticates, Authenticate

\* A door admits who was vouched for, or whose session is live.
LEMMA ServeVouched ==
    ASSUME WalkInv, AdmitInv, Observe, NEW cl \in Callers, Serve(cl)
    PROVE  Vouched(cl)' /\ UNCHANGED verified
<1>1. /\ Typed /\ Walks(call[cl]) /\ Vouched(cl) /\ Same(call[cl], call'[cl]) /\ UNCHANGED Rest
      /\ Walks(call[cl])'
  BY ServeWalks DEF WalkInv, AdmitInv
<1>2. /\ call'[cl].pc # "idle" => (good[cl] => good'[cl])
      /\ Nothing \notin {"admitted", "session"}
  BY Sightings, SettingsAssumption DEF Answers
<1>3. UNCHANGED <<account, verified, clock>> BY <1>1 DEF Rest
<1>4. CASE FromBasic(cl)
  BY <1>1, <1>2, <1>3, <1>4, FromBasicTurns DEF Vouched, Walks, FromBasic, Serves, At
<1>5. CASE FromSession(cl)
  <2>1. UNCHANGED session /\ call[cl].word = Nothing BY <1>5 DEF FromSession
  <2>2. /\ call'[cl].pc = "answered"
        /\ \/ call'[cl].answer \in {"no_credential", "no_session"}
           \/ /\ LiveIn(session, call[cl].cookie, clock)
              /\ call'[cl].cookie = call[cl].cookie
    BY <1>1, <1>5, FromSessionTurns
  <2>3. call'[cl].answer \in {"no_credential", "no_session"} \/ good'[cl]
    BY <1>1, <1>3, <2>1, <2>2, Sightings DEF Same
  <2> QED BY <1>3, <2>2, <2>3 DEF Vouched
<1>6. CASE FromBearer(cl)
  BY <1>1, <1>3, <1>6, FromBearerTurns DEF Vouched, FromBearer, Serves, Same
<1>7. CASE LoginPage(cl)
  BY <1>1, <1>2, <1>3, <1>7, LoginPageTurns DEF Vouched, Walks, LoginPage, Serves, At
<1>8. CASE SignInForm(cl)
  BY <1>1, <1>2, <1>3, <1>8, SignInFormTurns DEF Vouched, Walks, SignInForm, Serves, At
<1>9. CASE LoginBegins(cl) BY <1>1, <1>3, <1>9, LoginBeginsTurns DEF Vouched
<1>10. CASE CallbackArrives(cl)
  BY <1>1, <1>2, <1>3, <1>10, CallbackArrivesTurns DEF Vouched, Walks, CallbackArrives, Serves, At
<1>11. CASE ClaimLogin(cl)
  BY <1>1, <1>2, <1>3, <1>11, ClaimLoginTurns DEF Vouched, Walks, ClaimLogin, At
<1>12. CASE ExchangeCode(cl)
  BY <1>1, <1>2, <1>3, <1>12, ExchangeCodeTurns DEF Vouched, Walks, ExchangeCode, At
<1>13. CASE VerifyIdToken(cl)
  BY <1>1, <1>2, <1>3, <1>13, VerifyIdTokenTurns DEF Vouched, Walks, VerifyIdToken, At, LoginPcs, Same
<1>14. CASE Accepted(cl)
  BY <1>1, <1>2, <1>3, <1>14, AcceptedTurns DEF Vouched, Walks, Accepted, At, AuthPcs, Pages, Same
<1>15. CASE EstablishSession(cl)
  BY <1>1, <1>2, <1>3, <1>15, EstablishSessionTurns DEF Vouched, Walks, EstablishSession, At, Same
<1>16. CASE Logout(cl) BY <1>1, <1>3, <1>16, LogoutTurns DEF Vouched
<1> QED
  BY <1>4, <1>5, <1>6, <1>7, <1>8, <1>9, <1>10, <1>11, <1>12, <1>13, <1>14, <1>15, <1>16 DEF Serve

\* At first nobody is let in.
LEMMA AdmitInvInit == Init => AdmitInv
<1> SUFFICES ASSUME Init PROVE AdmitInv OBVIOUS
<1>1. Nothing \notin {"admitted", "session"} BY SettingsAssumption DEF Answers
<1>2. \A cl \in Callers : Vouched(cl) BY <1>1 DEF Init, Vouched, Idle
<1> QED BY <1>2 DEF Init, AdmitInv, Remembers

\* Every step keeps it.
LEMMA AdmitInvNext == WalkInv /\ AdmitInv /\ [Next]_vars => AdmitInv'
<1> SUFFICES ASSUME WalkInv, AdmitInv, [Next]_vars PROVE AdmitInv' OBVIOUS
<1>1. CASE UNCHANGED vars
  BY <1>1 DEF vars, accountVars, AdmitInv, Vouched, Remembers
<1>2. CASE Next
  <2>0. Observe BY <1>2, Steps
  <2>1. ASSUME \A o \in Callers : Vouched(o)', DOMAIN verified' = Processes,
               \A p \in Processes : Remembers(verified'[p])
        PROVE  AdmitInv'
    BY <2>1 DEF AdmitInv, Remembers
  <2>2. ASSUME NEW cl \in Callers, Moves(cl) PROVE AdmitInv'
    <3>1. Turns(cl) BY <2>2, MovesWalk
    <3>2. ASSUME NEW o \in Callers, o # cl PROVE Vouched(o)'
      BY <2>0, <3>1, <3>2, StaysVouched DEF Turns, AdmitInv
    <3>3. CASE (\E door \in Doors : Send(cl, door)) \/ SendCallback(cl) \/ Receive(cl)
      <4>1. call'[cl].pc \in {"idle", "sent"} /\ call'[cl].answer = Nothing
        <5>1. Typed /\ Idle.pc = "idle" /\ Idle.answer = Nothing BY DEF WalkInv, Idle
        <5>2. CASE \E door \in Doors : Send(cl, door) BY <5>1, <5>2, SendTurns
        <5>3. CASE SendCallback(cl) BY <5>1, <5>3, SendCallbackTurns
        <5>4. CASE Receive(cl) BY <5>1, <5>4, ReceiveTurns
        <5> QED BY <3>3, <5>2, <5>3, <5>4
      <4>2. Vouched(cl)' BY <4>1, SettingsAssumption DEF Vouched, Answers
      <4>3. UNCHANGED verified BY <3>3 DEF Send, SendCallback, Receive
      <4> QED BY <2>1, <3>2, <4>2, <4>3 DEF AdmitInv
    <3>4. CASE Authenticates(cl) BY <2>0, <2>1, <3>2, <3>4, AuthenticatesVouched
    <3>5. CASE Serve(cl) BY <2>0, <2>1, <3>2, <3>5, ServeVouched DEF AdmitInv
    <3> QED BY <2>2, <3>3, <3>4, <3>5 DEF Moves
  <2>3. ASSUME UNCHANGED call, DOMAIN verified' = Processes,
               \A p \in Processes : Remembers(verified'[p])
        PROVE  AdmitInv'
    BY <2>0, <2>1, <2>3, StaysVouched DEF AdmitInv
  <2>4. ASSUME NEW l \in LoginRows, ProviderAnswers(l) PROVE AdmitInv'
    BY <2>3, <2>4 DEF ProviderAnswers, accountVars, AdmitInv
  <2>5. CASE Aside
    <3>1. UNCHANGED call BY <2>5, AsideStored
    <3>2. \/ UNCHANGED verified
          \/ \E p \in Processes : \E seen \in SUBSET verified[p] :
                verified' = [verified EXCEPT ![p] = seen]
      <4>1. CASE Administer
        <5>1. \/ UNCHANGED verified
              \/ \E p \in Processes : verified' = [verified EXCEPT ![p] = {}]
          BY <4>1 DEF Administer, CreateAccount, SetPassword, Suspend, DeleteAccount
        <5> QED BY <5>1
      <4>2. CASE Forgets
        <5>1. PICK p \in Processes : Forget(p) BY <4>2 DEF Forgets
        <5>2. PICK v \in verified[p] : verified' = [verified EXCEPT ![p] = verified[p] \ {v}]
          BY <5>1 DEF Forget
        <5>3. verified[p] \ {v} \subseteq verified[p] OBVIOUS
        <5> QED BY <5>2, <5>3
      <4>3. CASE ClearsLockout \/ PurgesLockouts \/ Ticks
        BY <4>3 DEF ClearsLockout, ClearLockout, PurgesLockouts, PurgeLockouts, DropCounters,
           Ticks, ClockTicks
      <4> QED BY <2>5, <4>1, <4>2, <4>3 DEF Aside
    <3>3. DOMAIN verified' = Processes /\ \A p \in Processes : Remembers(verified'[p])
      BY <3>2 DEF AdmitInv, Remembers
    <3> QED BY <2>3, <3>1, <3>3
  <2>6. CASE Rotates BY <2>3, <2>6 DEF Rotates, accountVars, AdmitInv
  <2> QED BY <1>2, <2>2, <2>4, <2>5, <2>6, Steps
<1> QED BY <1>1, <1>2

\* Whoever is let in by a password or a session had a credential in force at
\* some moment since the request was sent, whatever a process remembers of
\* earlier verifications and whatever becomes of the account on the way.
THEOREM AdmittedIsCurrentHolds == Spec => []AdmittedIsCurrent
<1>1. Spec => []AdmitInv
  BY WalkInvHolds, AdmitInvInit, AdmitInvNext, PTL DEF Spec
<1>2. AdmitInv => AdmittedIsCurrent BY DEF AdmitInv, Vouched, AdmittedIsCurrent
<1> QED BY <1>1, <1>2, PTL

-----------------------------------------------------------------------------
(* A browser that signed out stays out.                                    *)

\* A browser that left stays so while its cookies do and it asks for no sign-in.
LEMMA LeftStays ==
    ASSUME NEW b \in Browsers, Left(b), browser'[b] = browser[b], UNCHANGED setting,
           \A cl \in Callers : Browser(cl) = b =>
               /\ call'[cl].door \notin {"form", "callback"}
               /\ call'[cl].door = "login" => call'[cl].after = TRUE
    PROVE  Left(b)'
BY DEF Left, Browser, Basic

\* A step that keeps what requests came with keeps who left.
LEMMA SameLeft ==
    ASSUME OutInv, UNCHANGED <<setting, browser, out>>, NEW cl \in Callers,
           Turns(cl), Same(call[cl], call'[cl])
    PROVE  \A b \in out' : b \in Browsers /\ Left(b)'
<1> SUFFICES ASSUME NEW b \in out PROVE b \in Browsers /\ Left(b)' OBVIOUS
<1>1. b \in Browsers /\ Left(b) BY DEF OutInv
<1>2. \A o \in Callers : call'[o].door = call[o].door /\ call'[o].after = call[o].after
  BY DEF Turns, Same
<1>3. browser'[b] = browser[b] /\ UNCHANGED setting OBVIOUS
<1>4. ASSUME NEW o \in Callers, Browser(o) = b
      PROVE  /\ call'[o].door \notin {"form", "callback"}
             /\ call'[o].door = "login" => call'[o].after = TRUE
  BY <1>1, <1>2, <1>4 DEF Left
<1> QED BY <1>1, <1>3, <1>4, LeftStays

\* A step of one request changes nothing for the others.
LEMMA OthersStayOut ==
    ASSUME OutInv, NEW cl \in Callers, Turns(cl), UNCHANGED setting, StaysOut(call[cl])'
    PROVE  \A o \in Callers : StaysOut(call[o])'
BY DEF OutInv, Turns, StaysOut, Basic

\* What a browser that left sends, it sends without a session and with the marker.
LEMMA SendOut ==
    ASSUME WalkInv, OutInv, NEW cl \in Callers,
           (\E door \in Doors : Send(cl, door)) \/ SendCallback(cl)
    PROVE  OutInv'
<1> DEFINE b == Browser(cl)
<1>1. Typed /\ UNCHANGED <<setting, browser>> BY DEF WalkInv, Send, SendCallback
<1>2. Nothing \notin {"admitted", "session"} BY SettingsAssumption DEF Answers
<1>3. CASE \E door \in Doors : Send(cl, door)
  <2>1. PICK door \in Doors : Send(cl, door) BY <1>3
  <2>2. out' = IF door = "form" THEN out \ {b} ELSE out BY <2>1 DEF Send
  <2>3. /\ Turns(cl) /\ door # "callback"
        /\ call'[cl].pc = "sent" /\ call'[cl].door = door /\ call'[cl].answer = Nothing
        /\ call'[cl].after = TRUE <=> b \in out
        /\ \/ door \in {"api", "bearer"}
           \/ /\ call'[cl].cookie = browser[b].cookie
              /\ call'[cl].marker = browser[b].marker
    BY <1>1, <2>1, SendTurns
  <2>4. StaysOut(call[cl])'
    BY <1>1, <1>2, <2>3 DEF StaysOut, OutInv, Left, Basic
  <2>5. ASSUME NEW a \in out' PROVE a \in Browsers /\ Left(a)'
    <3>1. a \in Browsers /\ Left(a) /\ (door = "form" => a # b) /\ a \in out
      BY <2>2, <2>5 DEF OutInv
    <3>2. ASSUME NEW o \in Callers, Browser(o) = a
          PROVE  /\ call'[o].door \notin {"form", "callback"}
                 /\ call'[o].door = "login" => call'[o].after = TRUE
      BY <2>3, <3>1, <3>2 DEF Turns, Left
    <3> QED BY <1>1, <3>1, <3>2, LeftStays
  <2> QED BY <1>1, <2>3, <2>4, <2>5, OthersStayOut DEF OutInv
<1>4. CASE SendCallback(cl)
  <2>1. out' = out \ {b} BY <1>4 DEF SendCallback
  <2>2. Turns(cl) /\ call'[cl].door = "callback" BY <1>1, <1>4, SendCallbackTurns
  <2>3. StaysOut(call[cl])' BY <2>2 DEF StaysOut
  <2>4. ASSUME NEW a \in out' PROVE a \in Browsers /\ Left(a)'
    <3>1. a \in Browsers /\ Left(a) /\ a # b BY <2>1, <2>4 DEF OutInv
    <3>2. ASSUME NEW o \in Callers, Browser(o) = a PROVE call'[o] = call[o]
      BY <2>2, <3>1, <3>2 DEF Turns
    <3>3. \A o \in Callers : Browser(o) = a =>
             /\ call'[o].door \notin {"form", "callback"}
             /\ call'[o].door = "login" => call'[o].after = TRUE
      BY <3>1, <3>2 DEF Left
    <3> QED BY <1>1, <3>1, <3>3, LeftStays
  <2> QED BY <1>1, <2>2, <2>3, <2>4, OthersStayOut DEF OutInv
<1> QED BY <1>3, <1>4

\* No answer to it brings a session back, and a sign-out takes the cookies.
LEMMA ReceiveOut ==
    ASSUME WalkInv, OutInv, NEW cl \in Callers, Receive(cl)
    PROVE  OutInv'
<1> DEFINE b == Browser(cl)
           k == call[cl]
           had == browser[b]
<1>1. /\ Typed /\ Walks(k) /\ UNCHANGED setting /\ b \in Browsers
  BY DEF WalkInv, Receive, Typed, Setting, Browser
<1>2. Turns(cl) /\ call'[cl] = Idle BY <1>1, ReceiveTurns
<1>3. Idle.door = Nothing /\ Idle.after = FALSE /\ Nothing \notin Doors
  BY SettingsAssumption DEF Idle
<1>4. StaysOut(call[cl])' BY <1>2, <1>3 DEF StaysOut
<1>5. browser' = [browser EXCEPT ![b] = Cookies(k, had)] BY DEF Receive
<1>6. out' = IF k.answer = "signed out" /\ ~SigningIn(b) THEN out \cup {b}
             ELSE IF k.door = "login" THEN out \ {b}
             ELSE out
  BY DEF Receive
<1>7. k.answer = "signed out" => Cookies(k, had).cookie = 0 /\ Cookies(k, had).marker = Basic
  BY DEF Cookies, NoCookies
<1>8. ASSUME Left(b), k.door # "login"
      PROVE  Cookies(k, had).cookie = 0 /\ (Basic => Cookies(k, had).marker = TRUE)
  <2>1. k.answer # "session" BY <1>1, <1>8 DEF Walks, Left
  <2>2. CASE k.answer = "signed out" BY <1>7, <2>2
  <2>3. CASE k.answer = "redirect"
    <3>1. Cookies(k, had) = [had EXCEPT !.state = k.state] BY <2>3 DEF Cookies
    <3>2. had \in Held BY <1>1 DEF Typed
    <3> HIDE DEF had
    <3>3. Cookies(k, had).cookie = had.cookie /\ Cookies(k, had).marker = had.marker
      BY <3>1, <3>2 DEF Held
    <3> QED BY <1>8, <3>3 DEF Left, had
  <2>4. CASE k.answer \notin {"session", "signed out", "redirect"}
    <3>1. Cookies(k, had) = had BY <1>8, <2>4 DEF Cookies
    <3> QED BY <1>8, <3>1 DEF Left
  <2> QED BY <2>1, <2>2, <2>3, <2>4
<1>9. ASSUME NEW a \in out' PROVE a \in Browsers /\ Left(a)'
  <2>1. ASSUME NEW o \in Callers
        PROVE  call'[o].door = Nothing \/ (/\ call'[o].door = call[o].door
                                           /\ call'[o].after = call[o].after)
    BY <1>2, <1>3 DEF Turns
  <2>2. CASE a = b
    <3>1. browser'[a] = Cookies(k, had) BY <1>1, <1>5, <2>2 DEF Typed
    <3>2. CASE k.answer = "signed out" /\ ~SigningIn(b)
      <4>1. \A o \in Callers : Browser(o) = b => call[o].door \notin {"login", "form", "callback"}
        BY <3>2 DEF SigningIn
      <4>2. \A o \in Callers : Browser(o) = b => call'[o].door \notin {"login", "form", "callback"}
        BY <1>3, <2>1, <4>1 DEF Doors
      <4> HIDE DEF b, k, had
      <4> QED BY <1>1, <1>7, <2>2, <3>1, <3>2, <4>2 DEF Left, Browser, Basic
    <3>3. CASE ~(k.answer = "signed out" /\ ~SigningIn(b))
      <4>1. a \in out /\ k.door # "login" BY <1>6, <1>9, <2>2, <3>3
      <4>2. Left(b) BY <2>2, <4>1 DEF OutInv
      <4>3. \A o \in Callers : Browser(o) = b =>
               /\ call'[o].door \notin {"form", "callback"}
               /\ call'[o].door = "login" => call'[o].after = TRUE
        BY <1>3, <2>1, <4>2 DEF Left, Doors
      <4>4. Cookies(k, had).cookie = 0 /\ (Basic => Cookies(k, had).marker = TRUE)
        BY <1>8, <4>1, <4>2
      <4> HIDE DEF b, k, had
      <4> QED BY <1>1, <2>2, <3>1, <4>3, <4>4 DEF Left, Browser, Basic
    <3> QED BY <3>2, <3>3
  <2>3. CASE a # b
    <3>1. a \in out BY <1>6, <1>9, <2>3
    <3>2. a \in Browsers /\ Left(a) BY <3>1 DEF OutInv
    <3>3. browser'[a] = browser[a] BY <1>1, <1>5, <2>3, <3>2 DEF Typed
    <3>4. \A o \in Callers : Browser(o) = a =>
             /\ call'[o].door \notin {"form", "callback"}
             /\ call'[o].door = "login" => call'[o].after = TRUE
      BY <1>3, <2>1, <3>2 DEF Left, Doors
    <3> QED BY <1>1, <3>2, <3>3, <3>4, LeftStays
  <2> QED BY <2>2, <2>3
<1> QED BY <1>1, <1>2, <1>4, <1>9, OthersStayOut DEF OutInv

\* No door opens to it.
LEMMA ServeStaysOut ==
    ASSUME WalkInv, OutInv, NEW cl \in Callers, Serve(cl)
    PROVE  StaysOut(call[cl])'
<1>1. /\ Typed /\ Walks(call[cl]) /\ StaysOut(call[cl]) /\ Same(call[cl], call'[cl])
      /\ UNCHANGED Rest
  BY ServeWalks DEF WalkInv, OutInv
<1> SUFFICES ASSUME call[cl].after = TRUE, call[cl].door \in {"page", "login"}
             PROVE  call'[cl].pc = "answered" /\ call'[cl].answer \notin {"admitted", "session"}
  BY <1>1 DEF StaysOut, Same
<1>2. /\ call[cl].pc \in {"sent", "answered"}
      /\ call[cl].pc = "sent" => call[cl].cookie = 0
      /\ call[cl].pc = "sent" /\ Basic => call[cl].marker = TRUE
      /\ call[cl].word # Nothing => Basic
  BY <1>1 DEF StaysOut, Walks
<1>3. CASE FromBasic(cl)
  BY <1>1, <1>2, <1>3, FromBasicTurns DEF FromBasic, Serves, At
<1>4. CASE FromSession(cl) BY <1>1, <1>2, <1>4, FromSessionTurns DEF FromSession, Serves, At
<1>5. CASE LoginPage(cl)
  BY <1>1, <1>2, <1>5, LoginPageTurns DEF LoginPage, Serves, At
<1>6. CASE LoginBegins(cl) BY <1>1, <1>6, LoginBeginsTurns
<1>7. CASE FromBearer(cl) \/ SignInForm(cl) \/ CallbackArrives(cl) \/ Logout(cl)
  BY <1>7 DEF FromBearer, SignInForm, CallbackArrives, Logout, Serves
<1>8. CASE ClaimLogin(cl) \/ ExchangeCode(cl) \/ VerifyIdToken(cl) \/ Accepted(cl)
           \/ EstablishSession(cl)
  BY <1>2, <1>8 DEF ClaimLogin, ExchangeCode, VerifyIdToken, Accepted, EstablishSession, At
<1> QED BY <1>3, <1>4, <1>5, <1>6, <1>7, <1>8 DEF Serve

\* At first nobody has left.
LEMMA OutInvInit == Init => OutInv
<1> SUFFICES ASSUME Init PROVE OutInv OBVIOUS
<1>1. Idle.after = FALSE BY DEF Idle
<1> QED BY <1>1 DEF Init, OutInv, StaysOut

\* Every step keeps it.
LEMMA OutInvNext == WalkInv /\ OutInv /\ [Next]_vars => OutInv'
<1> SUFFICES ASSUME WalkInv, OutInv, [Next]_vars PROVE OutInv' OBVIOUS
<1>1. ASSUME UNCHANGED <<setting, call, browser, out>> PROVE OutInv'
  BY <1>1 DEF OutInv, Left, StaysOut, Browser, Basic
<1>2. CASE UNCHANGED vars BY <1>1, <1>2 DEF vars, accountVars, webVars
<1>3. CASE Next
  <2>1. ASSUME NEW cl \in Callers, Moves(cl) PROVE OutInv'
    <3>1. Turns(cl) /\ UNCHANGED setting BY <2>1, MovesWalk
    <3>2. CASE (\E door \in Doors : Send(cl, door)) \/ SendCallback(cl) BY <3>2, SendOut
    <3>3. CASE Receive(cl) BY <3>3, ReceiveOut
    <3>4. CASE Authenticates(cl)
      <4>1. Same(call[cl], call'[cl]) /\ call[cl].pc \in AuthPcs /\ UNCHANGED <<browser, out>>
        BY <3>4, AuthenticatesWalks DEF Authenticates, Elsewhere, webVars
      <4>2. StaysOut(call[cl])' BY <4>1 DEF StaysOut, OutInv, AuthPcs, Same
      <4> QED BY <3>1, <4>1, <4>2, SameLeft, OthersStayOut DEF OutInv
    <3>5. CASE Serve(cl)
      <4>1. Same(call[cl], call'[cl]) /\ UNCHANGED <<browser, out>>
        BY <3>5, ServeWalks, ServeKept DEF Rest
      <4>2. StaysOut(call[cl])' BY <3>5, ServeStaysOut
      <4> QED BY <3>1, <4>1, <4>2, SameLeft, OthersStayOut DEF OutInv
    <3> QED BY <2>1, <3>2, <3>3, <3>4, <3>5 DEF Moves
  <2>2. ASSUME NEW l \in LoginRows, ProviderAnswers(l) PROVE OutInv'
    BY <1>1, <2>2 DEF ProviderAnswers, accountVars
  <2>3. CASE Aside BY <1>1, <2>3, AsideStored DEF webVars
  <2>4. CASE Rotates BY <1>1, <2>4 DEF Rotates, accountVars, webVars
  <2> QED BY <1>3, <2>1, <2>2, <2>3, <2>4, Steps
<1> QED BY <1>2, <1>3

\* A browser that signed out opens no page and gets no session until it asks
\* to sign in, whatever its other tabs had under way.
THEOREM SignedOutStaysHolds == Spec => []SignedOutStays
<1>1. Spec => []OutInv BY WalkInvHolds, OutInvInit, OutInvNext, PTL DEF Spec
<1>2. OutInv => SignedOutStays BY DEF OutInv, StaysOut, SignedOutStays
<1> QED BY <1>1, <1>2, PTL

-----------------------------------------------------------------------------
(* A login is finished once.                                               *)

\* Rows are numbered from one.
LEMMA RowsAre ==
    ASSUME WalkInv
    PROVE  /\ LoginRows = 1..Len(login) /\ Len(login) \in Nat
           /\ SessionRows = 1..Len(session) /\ Len(session) \in Nat
BY DEF WalkInv, Typed, LoginRows, SessionRows

\* The state a browser is left with is its own, the request's, or none.
LEMMA CookiesState ==
    ASSUME NEW knock \in Call, NEW had \in Held
    PROVE  Cookies(knock, had).state \in {0, had.state, knock.state}
<1>1. CASE knock.answer = "session"
  <2> DEFINE s == IF knock.door = "callback" THEN 0 ELSE had.state
  <2>1. Cookies(knock, had) = [had EXCEPT !.cookie = knock.cookie, !.marker = FALSE, !.state = s]
    BY <1>1 DEF Cookies
  <2>2. s \in {0, had.state} OBVIOUS
  <2> HIDE DEF s
  <2> QED BY <2>1, <2>2 DEF Held
<1>2. CASE knock.answer = "sign-in page" /\ knock.door = "login"
  <2> DEFINE m == IF knock.marker THEN FALSE ELSE had.marker
  <2>1. Cookies(knock, had) = [had EXCEPT !.marker = m] BY <1>2 DEF Cookies
  <2> HIDE DEF m
  <2> QED BY <2>1 DEF Held
<1>3. CASE knock.answer = "redirect" BY <1>3 DEF Cookies, Held
<1>4. CASE knock.answer = "signed out" BY <1>4 DEF Cookies, NoCookies
<1>5. CASE /\ knock.answer \notin {"session", "redirect", "signed out"}
           /\ ~(knock.answer = "sign-in page" /\ knock.door = "login")
  BY <1>5 DEF Cookies
<1> QED BY <1>1, <1>2, <1>3, <1>4, <1>5

\* A step that ends no login and makes no session of one.
LEMMA LoginQuiet ==
    ASSUME WalkInv, LoginInv, NEW cl \in Callers, Turns(cl), UNCHANGED <<setting, login>>,
           SessionRows' = SessionRows,
           \A id \in SessionRows : /\ session'[id].login = session[id].login
                                   /\ session'[id].by = session[id].by,
           \A b \in Browsers : Begun(b, browser'[b].state),
           Calls(cl)',
           \A l : Claimed(cl, l)' =>
                     /\ Claimed(cl, l)
                     /\ call'[cl].pc = "exchanging" <=> call[cl].pc = "exchanging"
    PROVE  LoginInv'
<1>1. \A b \in Browsers : Begun(b, browser[b].state)'
  BY DEF Begun
<1>2. ASSUME NEW o \in Callers PROVE Calls(o)'
  <2>1. CASE o = cl BY <2>1
  <2>2. CASE o # cl
    <3>1. call'[o] = call[o] /\ Calls(o) BY <2>2 DEF Turns, LoginInv
    <3> QED BY <3>1 DEF Calls, Begun, Browser, LoginRows
  <2> QED BY <2>1, <2>2
<1>3. ASSUME NEW l \in LoginRows PROVE Fulfilled(l)'
  <2>1. Fulfilled(l) BY DEF LoginInv
  <2>2. ASSUME NEW o \in Callers, Claimed(o, l)'
        PROVE  Claimed(o, l) /\ (call'[o].pc = "exchanging" <=> call[o].pc = "exchanging")
    <3>1. CASE o = cl BY <2>2, <3>1
    <3>2. CASE o # cl BY <2>2, <3>2 DEF Turns, Claimed
    <3> QED BY <3>1, <3>2
  <2>3. \A o \in Callers : Claimed(o, l)' =>
            /\ login[l].consumed = TRUE
            /\ call'[o].pc = "exchanging" <=> login[l].asked = 0
            /\ \A id \in SessionRows : session[id].login # l
            /\ \A oo \in Callers : Claimed(oo, l)' => oo = o
    BY <2>1, <2>2 DEF Fulfilled
  <2> HIDE DEF SessionRows
  <2> QED BY <2>1, <2>3 DEF Fulfilled
<1>4. LoginRows' = LoginRows /\ Len(login') = Len(login) BY DEF LoginRows
<1>5. \A id \in SessionRows' : session'[id].login \in 0..Len(login)' BY <1>4 DEF LoginInv
<1> QED BY <1>1, <1>2, <1>3, <1>4, <1>5 DEF LoginInv

\* The rows of logins keep the browser they are of, whatever else becomes of them.
LEMMA BegunStays ==
    ASSUME Len(login) \in Nat, Len(login') \in Nat, Len(login) <= Len(login'),
           \A l \in 1..Len(login) : login'[l].by = login[l].by,
           NEW b, NEW l, Begun(b, l)
    PROVE  Begun(b, l)'
BY DEF Begun

\* A login that begins is nobody's yet.
LEMMA LoginBeginsOnce ==
    ASSUME WalkInv, LoginInv, NEW cl \in Callers, LoginBegins(cl)
    PROVE  LoginInv'
<1> DEFINE n == Len(login) + 1
           row == [by |-> Browser(cl), expires |-> clock + LoginLasts, consumed |-> FALSE,
                   answered |-> FALSE, asked |-> 0]
<1>1. /\ Typed /\ LoginRows = 1..Len(login) /\ Len(login) \in Nat
      /\ UNCHANGED <<setting, browser, session>> /\ login' = Append(login, row)
      /\ LoginRows' = 1..Len(login') /\ n \in Nat
  <2>1. WalkInv' BY MovesWalk DEF Moves, Serve
  <2>2. LoginRows' = 1..Len(login') BY <2>1 DEF WalkInv, Typed, LoginRows
  <2> QED BY <2>2, RowsAre DEF WalkInv, LoginBegins, Rest
<1>2. /\ Turns(cl) /\ Same(call[cl], call'[cl]) /\ call'[cl].state = n
      /\ call'[cl].pc = "answered" /\ call[cl].door = "login"
  BY <1>1, LoginBeginsTurns DEF LoginBegins, Serves
<1>3. /\ Len(login') = n /\ login'[n] = row /\ row.by = Browser(cl) /\ row.asked = 0
      /\ row.consumed = FALSE /\ \A l \in 1..Len(login) : login'[l] = login[l]
  <2> HIDE DEF row
  <2>1. Len(login') = n /\ login'[n] = row /\ \A l \in 1..Len(login) : login'[l] = login[l]
    BY <1>1 DEF Typed
  <2> QED BY <2>1 DEF row
<1> HIDE DEF row
<1>4. ASSUME NEW b, NEW l, Begun(b, l) PROVE Begun(b, l)'
  <2>1. /\ Len(login) <= Len(login') /\ Len(login') \in Nat
        /\ \A i \in 1..Len(login) : login'[i].by = login[i].by
    BY <1>1, <1>3
  <2> QED BY <1>1, <1>4, <2>1, BegunStays
<1>5. ASSUME NEW o \in Callers PROVE Calls(o)'
  <2>1. CASE o = cl
    <3>1. Begun(Browser(cl), call[cl].state)' BY <1>1, <1>2, <1>3 DEF Begun, Browser
    <3> QED BY <1>1, <1>2, <2>1, <3>1 DEF Calls, Browser, Same
  <2>2. CASE o # cl
    <3>1. call'[o] = call[o] /\ Calls(o) BY <1>2, <2>2 DEF Turns, LoginInv
    <3>2. Browser(o)' = Browser(o) BY <1>1 DEF Browser
    <3>3. LoginRows \subseteq LoginRows' BY <1>1, <1>3
    <3>4. Begun(Browser(o), call[o].state)' BY <1>4, <3>1, <3>2 DEF Calls, Begun
    <3> HIDE DEF LoginRows
    <3> QED BY <3>1, <3>3, <3>4 DEF Calls
  <2> QED BY <2>1, <2>2
<1>6. ASSUME NEW o \in Callers, NEW l, Claimed(o, l)' PROVE o # cl /\ Claimed(o, l) /\ l \in 0..Len(login)
  <2>1. o # cl BY <1>2, <1>6 DEF Claimed
  <2>2. call'[o] = call[o] /\ Calls(o) BY <1>2, <2>1 DEF Turns, LoginInv
  <2> QED BY <1>6, <2>1, <2>2 DEF Claimed, Calls, Begun
<1>7. ASSUME NEW l \in LoginRows' PROVE Fulfilled(l)'
  <2>1. SessionRows' = SessionRows BY <1>1 DEF SessionRows
  <2>2. CASE l \in LoginRows
    <3>1. Fulfilled(l) /\ login'[l] = login[l] BY <1>1, <1>3, <2>2 DEF LoginInv
    <3>2. \A o \in Callers : Claimed(o, l)' =>
              Claimed(o, l) /\ call'[o].pc = call[o].pc
      BY <1>2, <1>6 DEF Turns
    <3> HIDE DEF SessionRows
    <3> QED BY <1>1, <2>1, <3>1, <3>2 DEF Fulfilled
  <2>3. CASE l \notin LoginRows
    <3>1. l = n /\ l \notin 0..Len(login) BY <1>1, <1>3, <2>3
    <3>2. \A id \in SessionRows : session'[id].login # l BY <1>1, <3>1 DEF LoginInv
    <3>3. \A o \in Callers : ~Claimed(o, l)' BY <1>6, <3>1
    <3>4. login'[l] = row BY <1>3, <3>1
    <3> HIDE DEF n
    <3> QED BY <1>3, <2>1, <3>2, <3>3, <3>4 DEF Fulfilled
  <2> QED BY <2>2, <2>3
<1>8. \A b \in Browsers : Begun(b, browser[b].state)'
  <2> SUFFICES ASSUME NEW b \in Browsers PROVE Begun(b, browser[b].state)' OBVIOUS
  <2>1. Begun(b, browser[b].state) BY DEF LoginInv
  <2>2. Begun(b, browser[b].state)' BY <1>1, <1>4, <2>1 DEF Begun
  <2> QED BY <2>2
<1>9. \A id \in SessionRows' : session'[id].login \in 0..Len(login)'
  BY <1>1, <1>3 DEF LoginInv, SessionRows
<1> QED BY <1>5, <1>7, <1>8, <1>9 DEF LoginInv

\* One row of the logins changes, with the callback that claims it.
LEMMA LoginTurns ==
    ASSUME WalkInv, LoginInv, NEW cl \in Callers, Turns(cl), Same(call[cl], call'[cl]),
           call'[cl].state = call[cl].state, call[cl].state = call[cl].link,
           UNCHANGED <<setting, browser, session>>, NEW l \in LoginRows,
           LoginRows' = LoginRows, Len(login') = Len(login),
           \A i \in LoginRows : login'[i].by = login[i].by,
           \A i \in LoginRows \ {l} : login'[i] = login[i] /\ ~Claimed(cl, i)',
           Fulfilled(l)'
    PROVE  LoginInv'
<1>1. \A b, i : Begun(b, i) => Begun(b, i)' BY RowsAre DEF Begun
<1>2. \A o : Browser(o)' = Browser(o) BY DEF Browser
<1>3. ASSUME NEW o \in Callers PROVE Calls(o)'
  <2>1. Calls(o) BY DEF LoginInv
  <2>2. call'[o].state = call[o].state /\ call'[o].link = call[o].link /\ call'[o].door = call[o].door
    BY DEF Turns, Same
  <2>3. Begun(Browser(o), call[o].state)' BY <1>1, <1>2, <2>1, <2>2 DEF Calls, Begun
  <2>4. o # cl => call'[o] = call[o] BY DEF Turns
  <2> HIDE DEF LoginRows
  <2> QED BY <2>1, <2>2, <2>3, <2>4 DEF Calls
<1>4. ASSUME NEW i \in LoginRows, i # l PROVE Fulfilled(i)'
  <2>1. Fulfilled(i) /\ login'[i] = login[i] BY <1>4 DEF LoginInv
  <2>2. ASSUME NEW o \in Callers, Claimed(o, i)' PROVE Claimed(o, i) /\ call'[o].pc = call[o].pc
    <3>1. o # cl BY <1>4, <2>2
    <3>2. call'[o] = call[o] BY <3>1 DEF Turns
    <3> QED BY <2>2, <3>2 DEF Claimed
  <2>3. SessionRows' = SessionRows BY DEF SessionRows
  <2> HIDE DEF SessionRows
  <2> QED BY <2>1, <2>2, <2>3 DEF Fulfilled
<1>5. \A b \in Browsers : Begun(b, browser[b].state)'
  <2> SUFFICES ASSUME NEW b \in Browsers PROVE Begun(b, browser[b].state)' OBVIOUS
  <2>1. PICK i : i = browser[b].state OBVIOUS
  <2>2. Begun(b, i)' BY <1>1, <2>1 DEF LoginInv
  <2> QED BY <2>1, <2>2 DEF Begun
<1>6. \A id \in SessionRows' : session'[id].login \in 0..Len(login)' BY DEF LoginInv, SessionRows
<1>7. \A i \in LoginRows' : Fulfilled(i)' BY <1>4
<1> QED BY <1>3, <1>5, <1>6, <1>7 DEF LoginInv

\* A claim finds a login that nobody claimed, and so one nobody asked about.
LEMMA ClaimLoginOnce ==
    ASSUME WalkInv, LoginInv, NEW cl \in Callers, ClaimLogin(cl), call'[cl].pc # "answered"
    PROVE  LoginInv'
<1>0. PICK l : l = call[cl].state OBVIOUS
<1> DEFINE row == [login[l] EXCEPT !.consumed = TRUE]
<1>1. /\ Typed /\ Walks(call[cl]) /\ Calls(cl) /\ call[cl].pc = "claiming"
      /\ UNCHANGED <<setting, browser, session>>
  BY DEF WalkInv, LoginInv, ClaimLogin, At, Rest
<1>2. /\ Turns(cl) /\ Same(call[cl], call'[cl]) /\ call'[cl].state = l
      /\ call'[cl].pc = "exchanging" /\ ~login[l].consumed /\ login' = [login EXCEPT ![l] = row]
  BY <1>0, <1>1, ClaimLoginTurns
<1>3. l = call[cl].link /\ l \in LoginRows /\ call[cl].door = "callback"
  BY <1>0, <1>1 DEF Calls, Walks, LoginPcs
<1>4. login[l] \in LoginRow BY <1>1, <1>3 DEF Typed, LoginRows
<1>5. row.by = login[l].by /\ row.consumed = TRUE /\ row.asked = login[l].asked
  BY <1>4 DEF LoginRow
<1> HIDE DEF row
<1>6. /\ LoginRows' = LoginRows /\ Len(login') = Len(login) /\ login'[l] = row
      /\ \A i \in LoginRows \ {l} : login'[i] = login[i]
  BY <1>1, <1>2, <1>3, RowsAre DEF LoginRows, Typed
<1>7. login[l].consumed = FALSE BY <1>2, <1>4 DEF LoginRow
<1>8. Fulfilled(l) /\ login[l].asked = 0 BY <1>3, <1>7 DEF LoginInv, Fulfilled
<1>9. \A o \in Callers : ~Claimed(o, l) BY <1>7, <1>8 DEF Fulfilled
<1>10. \A o \in Callers : Claimed(o, l)' => o = cl
  BY <1>2, <1>9 DEF Turns, Claimed
<1>11. \A id \in SessionRows : session[id].login # l BY <1>8 DEF Fulfilled
<1>12. SessionRows' = SessionRows BY <1>1 DEF SessionRows
<1>13. Fulfilled(l)'
  <2> HIDE DEF SessionRows
  <2> QED BY <1>1, <1>2, <1>5, <1>6, <1>8, <1>10, <1>11, <1>12 DEF Fulfilled
<1>14. \A i \in LoginRows \ {l} : ~Claimed(cl, i)' BY <1>2 DEF Claimed
<1>15. \A i \in LoginRows : login'[i].by = login[i].by BY <1>5, <1>6
<1> HIDE DEF LoginRows
<1> QED BY <1>0, <1>1, <1>2, <1>3, <1>6, <1>13, <1>14, <1>15, LoginTurns

\* Whoever asks the token endpoint is the one who claimed.
LEMMA ExchangeCodeOnce ==
    ASSUME WalkInv, LoginInv, NEW cl \in Callers, ExchangeCode(cl), call'[cl].pc # "answered"
    PROVE  LoginInv'
<1>0. PICK l : l = call[cl].state OBVIOUS
<1> DEFINE row == [login[l] EXCEPT !.asked = login[l].asked + 1]
<1>1. /\ Typed /\ Walks(call[cl]) /\ Calls(cl) /\ call[cl].pc = "exchanging"
      /\ UNCHANGED <<setting, browser, session>>
  BY DEF WalkInv, LoginInv, ExchangeCode, At, Rest
<1>2. /\ Turns(cl) /\ Same(call[cl], call'[cl]) /\ call'[cl].state = l
      /\ call'[cl].pc = "identifying" /\ login' = [login EXCEPT ![l] = row]
  BY <1>0, <1>1, ExchangeCodeTurns
<1>3. l = call[cl].link /\ l \in LoginRows /\ call[cl].door = "callback"
  BY <1>0, <1>1 DEF Calls, Walks, LoginPcs
<1>4. login[l] \in LoginRow BY <1>1, <1>3 DEF Typed, LoginRows
<1>5. row.by = login[l].by /\ row.consumed = login[l].consumed /\ row.asked = login[l].asked + 1
  BY <1>4 DEF LoginRow
<1> HIDE DEF row
<1>6. /\ LoginRows' = LoginRows /\ Len(login') = Len(login) /\ login'[l] = row
      /\ \A i \in LoginRows \ {l} : login'[i] = login[i]
  BY <1>1, <1>2, <1>3, RowsAre DEF LoginRows, Typed
<1>7. Claimed(cl, l) BY <1>0, <1>1, <1>3 DEF Claimed
<1>8. Fulfilled(l) BY <1>3 DEF LoginInv
<1>9. /\ login[l].asked = 0 /\ login[l].consumed = TRUE
      /\ \A id \in SessionRows : session[id].login # l
      /\ \A o \in Callers : Claimed(o, l) => o = cl
  BY <1>1, <1>7, <1>8 DEF Fulfilled
<1>10. \A o \in Callers : Claimed(o, l)' => o = cl
  BY <1>2, <1>9 DEF Turns, Claimed
<1>12. SessionRows' = SessionRows BY <1>1 DEF SessionRows
<1>13. Fulfilled(l)'
  <2>1. login'[l].asked = 1 /\ login'[l].consumed = TRUE BY <1>5, <1>6, <1>9
  <2> HIDE DEF SessionRows
  <2> QED BY <1>1, <1>2, <1>9, <1>10, <1>12, <2>1 DEF Fulfilled
<1>14. \A i \in LoginRows \ {l} : ~Claimed(cl, i)' BY <1>2 DEF Claimed
<1>15. \A i \in LoginRows : login'[i].by = login[i].by BY <1>5, <1>6
<1> HIDE DEF LoginRows
<1> QED BY <1>0, <1>1, <1>2, <1>3, <1>6, <1>13, <1>14, <1>15, LoginTurns

\* The one who asked makes the one session, in the browser that began it.
LEMMA EstablishSessionOnce ==
    ASSUME WalkInv, LoginInv, NEW cl \in Callers, EstablishSession(cl)
    PROVE  LoginInv'
<1>0. PICK l, n : l = (IF Basic THEN 0 ELSE call[cl].state) /\ n = Len(session) + 1 OBVIOUS
<1> DEFINE row == [expires |-> clock + SessionLasts, revoked |-> FALSE,
                   by |-> Browser(cl), login |-> l]
<1>1. /\ Typed /\ Walks(call[cl]) /\ Calls(cl) /\ call[cl].pc = "establishing"
      /\ UNCHANGED <<setting, browser, login>> /\ session' = Append(session, row)
      /\ LoginRows' = LoginRows
  BY <1>0 DEF WalkInv, LoginInv, EstablishSession, At, Rest, LoginRows
<1>2. /\ Turns(cl) /\ Same(call[cl], call'[cl]) /\ call'[cl].state = call[cl].state
      /\ call'[cl].pc = "answered"
  BY <1>1, EstablishSessionTurns
<1>3. row.by = Browser(cl) /\ row.login = l OBVIOUS
<1> HIDE DEF row
<1>4. /\ SessionRows' = SessionRows \cup {n} /\ n \notin SessionRows /\ session'[n] = row
      /\ \A id \in SessionRows : session'[id] = session[id]
  <2>1. /\ Len(session') = n /\ session'[n] = row /\ DOMAIN session' = 1..n
        /\ \A id \in 1..Len(session) : session'[id] = session[id]
    BY <1>0, <1>1 DEF Typed
  <2>2. SessionRows = 1..Len(session) /\ Len(session) \in Nat BY RowsAre
  <2> QED BY <1>0, <2>1, <2>2 DEF SessionRows
<1>5. l = 0 \/ (l \in LoginRows /\ Claimed(cl, l) /\ login[l].by = Browser(cl))
  BY <1>0, <1>1, RowsAre DEF Calls, Walks, Claimed, Begun
<1>6. \A o \in Callers : \A i : Claimed(o, i)' => o # cl /\ Claimed(o, i) /\ call'[o].pc = call[o].pc
  BY <1>2 DEF Claimed, Turns
<1>7. ASSUME NEW i \in LoginRows PROVE Fulfilled(i)'
  <2>1. Fulfilled(i) BY DEF LoginInv
  <2>2. i # 0 BY RowsAre
  <2>3. CASE i # l
    <3>1. \A id \in SessionRows' : session'[id].login = i => id \in SessionRows
      BY <1>3, <1>4, <2>3
    <3>2. \A id \in SessionRows' : session'[id].login = i =>
             session[id].login = i /\ session'[id].by = session[id].by
      BY <1>4, <3>1
    <3>3. \A o \in Callers : Claimed(o, i)' =>
             /\ login[i].consumed = TRUE
             /\ call'[o].pc = "exchanging" <=> login[i].asked = 0
             /\ \A id \in SessionRows : session[id].login # i
             /\ \A oo \in Callers : Claimed(oo, i)' => oo = o
      BY <1>6, <2>1 DEF Fulfilled
    <3>4. \A id \in SessionRows : session'[id] = session[id] BY <1>4
    <3> HIDE DEF SessionRows
    <3> QED BY <1>1, <2>1, <3>1, <3>2, <3>3 DEF Fulfilled
  <2>4. CASE i = l
    <3>1. /\ Claimed(cl, l) /\ login[l].by = Browser(cl) BY <1>5, <2>2, <2>4
    <3>2. /\ login[l].asked = 1 /\ login[l].consumed = TRUE
          /\ \A id \in SessionRows : session[id].login # l
          /\ \A o \in Callers : Claimed(o, l) => o = cl
      BY <1>1, <2>1, <2>4, <3>1 DEF Fulfilled
    <3>3. \A o \in Callers : ~Claimed(o, l)' BY <1>6, <3>2
    <3>4. \A id \in SessionRows' : session'[id].login = l => id = n BY <1>4, <3>2
    <3>5. session'[n].by = login[l].by BY <1>3, <1>4, <3>1
    <3> HIDE DEF SessionRows
    <3> QED BY <1>1, <2>4, <3>2, <3>3, <3>4, <3>5 DEF Fulfilled
  <2> QED BY <2>3, <2>4
<1>8. ASSUME NEW o \in Callers PROVE Calls(o)'
  <2>1. Calls(o) /\ (o # cl => call'[o] = call[o]) BY <1>2 DEF LoginInv, Turns
  <2> HIDE DEF LoginRows
  <2> QED BY <1>1, <1>2, <2>1 DEF Calls, Begun, Browser, Same
<1>9. \A id \in SessionRows' : session'[id].login \in 0..Len(login)'
  <2>1. l \in 0..Len(login) BY <1>5, RowsAre
  <2>2. \A id \in SessionRows : session'[id].login \in 0..Len(login) BY <1>4 DEF LoginInv
  <2>3. session'[n].login = l BY <1>3, <1>4
  <2> HIDE DEF SessionRows
  <2> QED BY <1>1, <1>4, <2>1, <2>2, <2>3
<1>10. \A b \in Browsers : Begun(b, browser[b].state)' BY <1>1 DEF LoginInv, Begun
<1> QED BY <1>1, <1>7, <1>8, <1>9, <1>10 DEF LoginInv

\* The provider's answer finishes no login.
LEMMA ProviderOnce ==
    ASSUME WalkInv, LoginInv, NEW l \in LoginRows, ProviderAnswers(l)
    PROVE  LoginInv'
<1> DEFINE row == [login[l] EXCEPT !.answered = TRUE]
<1>1. /\ Typed /\ UNCHANGED <<setting, call, browser, session>> /\ LoginRows' = LoginRows
      /\ login' = [login EXCEPT ![l] = row]
  BY ProviderKept DEF WalkInv, ProviderAnswers
<1>2. login[l] \in LoginRow BY <1>1 DEF Typed, LoginRows
<1>3. row.by = login[l].by /\ row.consumed = login[l].consumed /\ row.asked = login[l].asked
  BY <1>2 DEF LoginRow
<1> HIDE DEF row
<1>4. /\ Len(login') = Len(login)
      /\ \A i \in LoginRows : /\ login'[i].by = login[i].by /\ login'[i].asked = login[i].asked
                              /\ login'[i].consumed = login[i].consumed
  BY <1>1, <1>3, RowsAre DEF LoginRows, Typed
<1>5. \A b, i : Begun(b, i) => Begun(b, i)' BY <1>4, RowsAre DEF Begun
<1>6. SessionRows' = SessionRows BY <1>1 DEF SessionRows
<1>7. ASSUME NEW i \in LoginRows PROVE Fulfilled(i)'
  <2>1. Fulfilled(i) BY DEF LoginInv
  <2>2. \A o \in Callers : Claimed(o, i)' <=> Claimed(o, i) BY <1>1 DEF Claimed
  <2> HIDE DEF SessionRows
  <2> QED BY <1>1, <1>4, <1>6, <2>1, <2>2 DEF Fulfilled
<1>8. ASSUME NEW o \in Callers PROVE Calls(o)'
  <2>1. PICK b, i : b = Browser(o) /\ i = call[o].state OBVIOUS
  <2>2. Calls(o) /\ Begun(b, i)' BY <1>5, <2>1 DEF LoginInv, Calls
  <2>3. Begun(Browser(o), call[o].state)' BY <1>1, <2>1, <2>2 DEF Begun, Browser
  <2> HIDE DEF LoginRows
  <2> QED BY <1>1, <2>2, <2>3 DEF Calls
<1>9. \A b \in Browsers : Begun(b, browser[b].state)'
  <2> SUFFICES ASSUME NEW b \in Browsers PROVE Begun(b, browser[b].state)' OBVIOUS
  <2>1. PICK i : i = browser[b].state OBVIOUS
  <2>2. Begun(b, i)' BY <1>5, <2>1 DEF LoginInv
  <2> QED BY <1>1, <2>1, <2>2 DEF Begun
<1>10. \A id \in SessionRows' : session'[id].login \in 0..Len(login)'
  BY <1>1, <1>4, <1>6 DEF LoginInv
<1> QED BY <1>1, <1>7, <1>8, <1>9, <1>10 DEF LoginInv

\* A request that goes on with the cookies it came with.
LEMMA GoesOn ==
    ASSUME WalkInv, LoginInv, NEW cl \in Callers, Turns(cl), Same(call[cl], call'[cl]),
           call'[cl].state = call[cl].state, UNCHANGED <<setting, browser, login>>,
           SessionRows' = SessionRows,
           \A id \in SessionRows : /\ session'[id].login = session[id].login
                                   /\ session'[id].by = session[id].by,
           call[cl].door = "callback" =>
               \/ call'[cl].pc = "answered"
               \/ call'[cl].pc = "claiming" /\ call[cl].state = call[cl].link
               \/ call'[cl].pc = "establishing" /\ call[cl].pc = "identifying"
    PROVE  LoginInv'
<1>1. Calls(cl) BY DEF LoginInv
<1>2. Calls(cl)'
  <2>1. LoginRows' = LoginRows BY DEF LoginRows
  <2> HIDE DEF LoginRows
  <2> QED BY <1>1, <2>1 DEF Calls, Begun, Browser, Same, LoginPcs
<1>3. \A b \in Browsers : Begun(b, browser'[b].state) BY DEF LoginInv
<1>4. \A l : Claimed(cl, l)' =>
          Claimed(cl, l) /\ (call'[cl].pc = "exchanging" <=> call[cl].pc = "exchanging")
  BY DEF Claimed, Same
<1> HIDE DEF SessionRows
<1> QED BY <1>2, <1>3, <1>4, LoginQuiet

\* Every step of a door keeps it.
LEMMA ServeOnce ==
    ASSUME WalkInv, LoginInv, NEW cl \in Callers, Serve(cl)
    PROVE  LoginInv'
<1>1. /\ Typed /\ Walks(call[cl]) /\ Turns(cl) /\ Same(call[cl], call'[cl])
      /\ UNCHANGED <<setting, browser>>
  BY ServeWalks, ServeKept DEF WalkInv, Rest
<1>2. ASSUME call'[cl].state = call[cl].state, UNCHANGED <<login, session>>,
             call[cl].door = "callback" =>
                 \/ call'[cl].pc = "answered"
                 \/ call'[cl].pc = "claiming" /\ call[cl].state = call[cl].link
                 \/ call'[cl].pc = "establishing" /\ call[cl].pc = "identifying"
      PROVE  LoginInv'
  <2>1. SessionRows' = SessionRows BY <1>2 DEF SessionRows
  <2> HIDE DEF SessionRows
  <2> QED BY <1>1, <1>2, <2>1, GoesOn
<1>3. CASE FromBasic(cl)
  BY <1>1, <1>2, <1>3, FromBasicTurns DEF FromBasic, Serves
<1>4. CASE FromSession(cl)
  BY <1>1, <1>2, <1>4, FromSessionTurns DEF FromSession, Serves
<1>5. CASE FromBearer(cl)
  BY <1>1, <1>2, <1>5, FromBearerTurns DEF FromBearer, Serves
<1>6. CASE LoginPage(cl)
  BY <1>1, <1>2, <1>6, LoginPageTurns DEF LoginPage, Serves
<1>7. CASE SignInForm(cl)
  BY <1>1, <1>2, <1>7, SignInFormTurns DEF SignInForm, Serves
<1>8. CASE LoginBegins(cl) BY <1>8, LoginBeginsOnce
<1>9. CASE CallbackArrives(cl)
  BY <1>1, <1>2, <1>9, CallbackArrivesTurns DEF CallbackArrives
<1>10. CASE ClaimLogin(cl)
  <2>1. CASE call'[cl].pc # "answered" BY <1>10, <2>1, ClaimLoginOnce
  <2>2. CASE call'[cl].pc = "answered"
    BY <1>1, <1>2, <1>10, <2>2, ClaimLoginTurns DEF ClaimLogin
  <2> QED BY <2>1, <2>2
<1>11. CASE ExchangeCode(cl)
  <2>1. CASE call'[cl].pc # "answered" BY <1>11, <2>1, ExchangeCodeOnce
  <2>2. CASE call'[cl].pc = "answered"
    BY <1>1, <1>2, <1>11, <2>2, ExchangeCodeTurns DEF ExchangeCode
  <2> QED BY <2>1, <2>2
<1>12. CASE VerifyIdToken(cl)
  BY <1>1, <1>2, <1>12, VerifyIdTokenTurns DEF VerifyIdToken, At
<1>13. CASE Accepted(cl)
  <2>1. call[cl].door # "callback" BY <1>1, <1>13 DEF Accepted, At, Walks, AuthPcs
  <2> QED BY <1>1, <1>2, <1>13, <2>1, AcceptedTurns DEF Accepted
<1>14. CASE EstablishSession(cl) BY <1>14, EstablishSessionOnce
<1>15. CASE Logout(cl)
  <2> DEFINE n == call[cl].cookie
             row == [session[n] EXCEPT !.revoked = TRUE]
  <2>1. /\ call[cl].door # "callback" /\ UNCHANGED login
        /\ session' = session \/ (n \in SessionRows /\ session' = [session EXCEPT ![n] = row])
    BY <1>15 DEF Logout, Serves
  <2>2. n \in SessionRows => row.login = session[n].login /\ row.by = session[n].by
    <3>1. n \in SessionRows => session[n] \in SessionRow BY <1>1 DEF Typed, SessionRows
    <3> QED BY <3>1 DEF SessionRow
  <2> HIDE DEF row, n
  <2>3. SessionRows' = SessionRows BY <2>1 DEF SessionRows
  <2>4. \A id \in SessionRows : /\ session'[id].login = session[id].login
                                /\ session'[id].by = session[id].by
    BY <2>1, <2>2 DEF SessionRows
  <2>5. call'[cl].state = call[cl].state BY <1>1, <1>15, LogoutTurns
  <2> HIDE DEF SessionRows
  <2> QED BY <1>1, <2>1, <2>3, <2>4, <2>5, GoesOn
<1> QED
  BY <1>3, <1>4, <1>5, <1>6, <1>7, <1>8, <1>9, <1>10, <1>11, <1>12, <1>13, <1>14, <1>15 DEF Serve

\* So do the browser's own steps, which carry only states it was given.
LEMMA SendOnce ==
    ASSUME WalkInv, LoginInv, NEW cl \in Callers,
           (\E door \in Doors : Send(cl, door)) \/ SendCallback(cl) \/ Receive(cl)
    PROVE  LoginInv'
<1> DEFINE b == Browser(cl)
           had == browser[b]
<1>1. /\ Typed /\ Turns(cl) /\ UNCHANGED <<setting, login, session>>
      /\ SessionRows' = SessionRows /\ b \in Browsers /\ LoginRows' = LoginRows
  BY SendWalks, SendKept DEF WalkInv, SessionRows, LoginRows, Typed, Setting, Browser
<1>2. call'[cl].pc \in {"sent", "idle"}
  <2>1. CASE \E door \in Doors : Send(cl, door) BY <1>1, <2>1, SendTurns
  <2>2. CASE SendCallback(cl) BY <1>1, <2>2, SendCallbackTurns
  <2>3. CASE Receive(cl) BY <1>1, <2>3, ReceiveTurns DEF Idle
  <2> QED BY <2>1, <2>2, <2>3
<1>3. Begun(b, 0) /\ Begun(b, had.state) /\ Begun(b, call[cl].state)
  BY <1>1, RowsAre DEF LoginInv, Calls, Begun
<1>4. call'[cl].state \in {0, had.state}
  <2>1. CASE \E door \in Doors : Send(cl, door) BY <1>1, <2>1, SendTurns
  <2>2. CASE SendCallback(cl) BY <1>1, <2>2, SendCallbackTurns
  <2>3. CASE Receive(cl) BY <1>1, <2>3, ReceiveTurns DEF Idle
  <2> QED BY <2>1, <2>2, <2>3
<1>5. call'[cl].door = "callback" => call'[cl].link \in LoginRows
  <2>1. CASE \E door \in Doors : Send(cl, door) BY <1>1, <2>1, SendTurns
  <2>2. CASE SendCallback(cl) BY <1>1, <2>2, SendCallbackTurns
  <2>3. CASE Receive(cl)
    BY <1>1, <2>3, ReceiveTurns, SettingsAssumption DEF Idle, Doors
  <2> QED BY <2>1, <2>2, <2>3
<1>6. Calls(cl)'
  <2>1. Begun(b, call'[cl].state) BY <1>3, <1>4
  <2>2. Begun(Browser(cl), call[cl].state)' BY <1>1, <2>1 DEF Begun, Browser
  <2> HIDE DEF LoginRows
  <2> QED BY <1>1, <1>2, <1>5, <2>2 DEF Calls, LoginPcs
<1>7. \A l : ~Claimed(cl, l)' BY <1>2 DEF Claimed
<1>8. \A a \in Browsers : Begun(a, browser'[a].state)
  <2>1. CASE ~Receive(cl)
    <3>1. UNCHANGED browser BY <2>1 DEF Send, SendCallback
    <3> QED BY <3>1 DEF LoginInv
  <2>2. CASE Receive(cl)
    <3>1. browser' = [browser EXCEPT ![b] = Cookies(call[cl], had)] BY <2>2 DEF Receive
    <3>2. Cookies(call[cl], had).state \in {0, had.state, call[cl].state}
      BY <1>1, CookiesState DEF Typed
    <3>3. Begun(b, Cookies(call[cl], had).state) BY <1>3, <3>2
    <3>4. browser \in [Browsers -> Held] BY <1>1 DEF Typed
    <3> DEFINE set == Cookies(call[cl], had)
    <3>5. Begun(b, set.state) /\ browser' = [browser EXCEPT ![b] = set] BY <3>1, <3>3
    <3> HIDE DEF set, had, b
    <3> QED BY <1>1, <3>4, <3>5 DEF LoginInv
  <2> QED BY <2>1, <2>2
<1> HIDE DEF SessionRows
<1> QED BY <1>1, <1>6, <1>7, <1>8, LoginQuiet

\* At first there is no login.
LEMMA LoginInvInit == Init => LoginInv
<1> SUFFICES ASSUME Init PROVE LoginInv OBVIOUS
<1>1. login = <<>> /\ session = <<>> BY DEF Init
<1>2. LoginRows = {} /\ SessionRows = {} /\ Len(login) = 0 BY <1>1 DEF LoginRows, SessionRows
<1>3. Idle.state = 0 /\ Idle.door = Nothing /\ NoCookies.state = 0 /\ Nothing # "callback"
  BY SettingsAssumption DEF Idle, NoCookies, Doors
<1>4. \A b : Begun(b, 0) BY <1>2 DEF Begun
<1> QED BY <1>2, <1>3, <1>4 DEF Init, LoginInv, Calls

\* Every step keeps it.
LEMMA LoginInvNext == WalkInv /\ LoginInv /\ [Next]_vars => LoginInv'
<1> SUFFICES ASSUME WalkInv, LoginInv, [Next]_vars PROVE LoginInv' OBVIOUS
<1>1. ASSUME UNCHANGED <<setting, call, browser, login, session>> PROVE LoginInv'
  BY <1>1 DEF LoginInv, Begun, Calls, Fulfilled, Claimed, Browser, LoginRows, SessionRows
<1>2. CASE UNCHANGED vars BY <1>1, <1>2 DEF vars, accountVars, webVars
<1>3. CASE Next
  <2>1. ASSUME NEW cl \in Callers, Moves(cl) PROVE LoginInv'
    <3>1. CASE (\E door \in Doors : Send(cl, door)) \/ SendCallback(cl) \/ Receive(cl)
      BY <3>1, SendOnce
    <3>2. CASE Authenticates(cl)
      <4>1. /\ Turns(cl) /\ Same(call[cl], call'[cl]) /\ call'[cl].state = call[cl].state
            /\ call[cl].pc \in AuthPcs /\ UNCHANGED <<setting, browser, login, session>>
        BY <3>2, AuthenticatesWalks DEF Authenticates, Elsewhere, webVars
      <4>2. call[cl].door # "callback" BY <4>1 DEF WalkInv, Walks
      <4>3. SessionRows' = SessionRows BY <4>1 DEF SessionRows
      <4> HIDE DEF SessionRows
      <4> QED BY <4>1, <4>2, <4>3, GoesOn
    <3>3. CASE Serve(cl) BY <3>3, ServeOnce
    <3> QED BY <2>1, <3>1, <3>2, <3>3 DEF Moves
  <2>2. ASSUME NEW l \in LoginRows, ProviderAnswers(l) PROVE LoginInv' BY <2>2, ProviderOnce
  <2>3. CASE Aside BY <1>1, <2>3, AsideStored DEF webVars
  <2>4. CASE Rotates BY <1>1, <2>4 DEF Rotates, accountVars, webVars
  <2> QED BY <1>3, <2>1, <2>2, <2>3, <2>4, Steps
<1> QED BY <1>2, <1>3

\* The token endpoint is asked once for a login, and at most one session
\* answers it, in the browser that began it, however callbacks race.
THEOREM LoginAnsweredOnceHolds == Spec => []LoginAnsweredOnce
<1>1. Spec => []LoginInv BY WalkInvHolds, LoginInvInit, LoginInvNext, PTL DEF Spec
<1>2. LoginInv => LoginAnsweredOnce
  <2> SUFFICES ASSUME LoginInv, NEW l \in LoginRows
               PROVE  LET made == {id \in SessionRows : session[id].login = l} IN
                      /\ login[l].asked <= 1
                      /\ Cardinality(made) <= login[l].asked
                      /\ \A id \in made : session[id].by = login[l].by
    BY DEF LoginAnsweredOnce
  <2> DEFINE made == {id \in SessionRows : session[id].login = l}
  <2>1. Fulfilled(l) BY DEF LoginInv
  <2>2. \A id \in made : session[id].by = login[l].by /\ login[l].asked = 1
    BY <2>1 DEF Fulfilled
  <2>3. Cardinality(made) <= login[l].asked
    <3>1. CASE made = {} BY <2>1, <3>1, FS_EmptySet DEF Fulfilled
    <3>2. CASE made # {}
      <4>1. PICK id \in made : TRUE BY <3>2
      <4>2. made = {id} BY <2>1, <4>1 DEF Fulfilled
      <4>3. login[l].asked = 1 BY <2>2, <4>1
      <4> HIDE DEF made
      <4>4. Cardinality(made) = 1 BY <4>2, FS_Singleton
      <4> QED BY <4>3, <4>4
    <3> QED BY <3>1, <3>2
  <2> QED BY <2>1, <2>2, <2>3 DEF Fulfilled
<1> QED BY <1>1, <1>2, PTL

-----------------------------------------------------------------------------
(* A process takes the provider's keys, and those it had a moment ago.     *)

\* A fetch leaves the published keys, or marks that it failed.
LEMMA GetKeyFetches ==
    ASSUME WalkInv, KeysInv, NEW p \in Processes, NEW kid, NEW up \in BOOLEAN,
           GetKey(p, kid, clock, up), UNCHANGED clock
    PROVE  KeysInv'
<1>1. /\ clock \in Nat /\ published \subseteq Kids
      /\ keys \in [Processes -> [kids : SUBSET Kids, at : Nat]]
      /\ UNCHANGED <<published, lastSeen>>
  BY DEF WalkInv, Typed, KeysInv, GetKey
<1> DEFINE set == Known(p, kid, clock, up)
<1>2. \/ set = keys[p] /\ missed' = missed
      \/ set = [kids |-> published, at |-> clock] /\ missed' = missed \ {p}
      \/ set = [kids |-> keys[p].kids, at |-> clock] /\ missed' = missed \cup {p}
  BY DEF GetKey, Known, Refreshed
<1>3. set \in [kids : SUBSET Kids, at : Nat] BY <1>1, <1>2
<1>4. keys' = [keys EXCEPT ![p] = set] BY DEF GetKey
<1> HIDE DEF set
<1>5. ASSUME NEW q \in Processes PROVE Fetched(q)'
  <2>1. Fetched(q) BY DEF KeysInv
  <2>2. CASE q = p
    <3>1. keys'[q] = set BY <1>1, <1>4, <2>2
    <3> QED BY <1>1, <1>2, <2>1, <2>2, <3>1 DEF Fetched
  <2>3. CASE q # p
    <3>1. keys'[q] = keys[q] /\ (q \in missed' <=> q \in missed) BY <1>1, <1>2, <1>4, <2>3
    <3> QED BY <1>1, <2>1, <3>1 DEF Fetched
  <2> QED BY <2>2, <2>3
<1> QED BY <1>1, <1>3, <1>4, <1>5 DEF KeysInv

\* A key that is withdrawn was published until this moment.
LEMMA RotatesFetched ==
    ASSUME WalkInv, KeysInv, NEW kid \in Kids, Publish(kid, clock) \/ Withdraw(kid, clock),
           UNCHANGED clock
    PROVE  KeysInv'
<1>1. /\ clock \in Nat /\ keys \in [Processes -> [kids : SUBSET Kids, at : Nat]]
      /\ lastSeen \in [Kids -> Nat] /\ UNCHANGED <<keys, missed>>
      /\ lastSeen' = [lastSeen EXCEPT ![kid] = clock]
      /\ \A k : k # kid => (k \in published <=> k \in published')
  BY DEF WalkInv, Typed, KeysInv, Publish, Withdraw
<1>2. ASSUME NEW q \in Processes PROVE Fetched(q)'
  <2>1. Fetched(q) /\ keys[q].kids \subseteq Kids BY <1>1 DEF KeysInv
  <2> QED BY <1>1, <2>1 DEF Fetched
<1> QED BY <1>1, <1>2 DEF KeysInv

\* At first no key is remembered.
LEMMA KeysInvInit == Init => KeysInv
BY DEF Init, KeysInv, Fetched, NoKeys

\* Every step keeps it.
LEMMA KeysInvNext == WalkInv /\ KeysInv /\ [Next]_vars => KeysInv'
<1> SUFFICES ASSUME WalkInv, KeysInv, [Next]_vars PROVE KeysInv' OBVIOUS
<1>1. ASSUME UNCHANGED <<keysVars, clock>> PROVE KeysInv'
  BY <1>1 DEF KeysInv, Fetched, keysVars
<1>2. CASE UNCHANGED vars BY <1>1, <1>2 DEF vars, accountVars
<1>3. CASE Next
  <2>1. ASSUME NEW cl \in Callers, Moves(cl) PROVE KeysInv'
    <3>1. ProcessOf[cl] \in Processes BY DEF Processes
    <3>2. CASE (\E door \in Doors : Send(cl, door)) \/ SendCallback(cl) \/ Receive(cl)
      BY <1>1, <3>2 DEF Send, SendCallback, Receive
    <3>3. CASE Authenticates(cl)
      <4>1. UNCHANGED clock
        BY <3>3 DEF Authenticates, Authenticate, Knock, ReadAccount, Verify, ClearFailures,
           Upgrade, CountReads, CountWrites, tables
      <4> QED BY <1>1, <3>3, <4>1 DEF Authenticates, Elsewhere
    <3>4. CASE Serve(cl)
      <4>1. UNCHANGED clock BY <3>4, ServeWalks DEF Rest
      <4>2. CASE FromBearer(cl)
        <5>1. UNCHANGED keysVars \/ \E up \in BOOLEAN : GetKey(ProcessOf[cl], call[cl].kid, clock, up)
          BY <4>2 DEF FromBearer
        <5> QED BY <1>1, <3>1, <4>1, <5>1, GetKeyFetches
      <4>3. CASE VerifyIdToken(cl)
        <5>1. \E up \in BOOLEAN : GetKey(ProcessOf[cl], call[cl].kid, clock, up)
          BY <4>3 DEF VerifyIdToken
        <5> QED BY <3>1, <4>1, <5>1, GetKeyFetches
      <4>4. CASE ~FromBearer(cl) /\ ~VerifyIdToken(cl)
        <5>1. UNCHANGED keysVars
          BY <3>4, <4>4 DEF Serve, FromBasic, FromSession, LoginPage, SignInForm, LoginBegins,
             CallbackArrives, ClaimLogin, ExchangeCode, Accepted, EstablishSession, Logout
        <5> QED BY <1>1, <4>1, <5>1
      <4> QED BY <4>2, <4>3, <4>4
    <3> QED BY <2>1, <3>2, <3>3, <3>4 DEF Moves
  <2>2. ASSUME NEW l \in LoginRows, ProviderAnswers(l) PROVE KeysInv'
    BY <1>1, <2>2 DEF ProviderAnswers, accountVars
  <2>3. CASE Aside
    <3>1. UNCHANGED keysVars BY <2>3, AsideStored
    <3>2. clock' \in {clock, clock + 1}
      BY <2>3 DEF Aside, Administer, CreateAccount, SetPassword, Suspend, DeleteAccount,
         ClearsLockout, ClearLockout, PurgesLockouts, PurgeLockouts, DropCounters, Ticks,
         ClockTicks, Forgets, Forget
    <3>3. clock \in Nat /\ \A p \in Processes : keys[p].at \in Nat
      BY DEF WalkInv, Typed, KeysInv
    <3> QED BY <3>1, <3>2, <3>3 DEF KeysInv, Fetched, keysVars
  <2>4. CASE Rotates
    <3>1. UNCHANGED clock /\ \E kid \in Kids : Publish(kid, clock) \/ Withdraw(kid, clock)
      BY <2>4 DEF Rotates, accountVars
    <3> QED BY <3>1, RotatesFetched
  <2> QED BY <1>3, <2>1, <2>2, <2>3, <2>4, Steps
<1> QED BY <1>2, <1>3

\* A process whose last fetch was answered takes no key that was withdrawn
\* longer ago than a fetched set lives, and refuses a published one only in
\* the moment after a fetch.
THEOREM KeysAreCurrentHolds == Spec => []KeysAreCurrent
<1>1. Spec => [](WalkInv /\ KeysInv)
  BY WalkInvHolds, KeysInvInit, KeysInvNext, PTL DEF Spec
<1>2. WalkInv /\ KeysInv => KeysAreCurrent
  <2> SUFFICES ASSUME WalkInv, KeysInv, NEW p \in Processes \ missed, NEW kid \in Kids
               PROVE  LET taken == kid \in Known(p, kid, clock, TRUE).kids IN
                      /\ taken => kid \in published \/ lastSeen[kid] + KeysLast > clock
                      /\ kid \in published /\ ~taken => clock < keys[p].at + KeysRest
    BY DEF KeysAreCurrent
  <2>1. /\ clock \in Nat /\ keys[p].at \in Nat /\ lastSeen[kid] \in Nat /\ Fetched(p)
        /\ KeysLast \in Nat /\ KeysRest \in Nat
    BY KeysAssumption DEF WalkInv, Typed, KeysInv
  <2>2. CASE AsksProvider(keys[p], kid, clock)
    BY <2>2 DEF Known, Refreshed
  <2>3. CASE ~AsksProvider(keys[p], kid, clock)
    <3>1. Known(p, kid, clock, TRUE) = keys[p] BY <2>3 DEF Known
    <3>2. /\ clock < keys[p].at + KeysLast
          /\ kid \notin keys[p].kids => clock < keys[p].at + KeysRest
      BY <2>1, <2>3 DEF AsksProvider
    <3>3. kid \in keys[p].kids => kid \in published \/ keys[p].at <= lastSeen[kid]
      BY <2>1 DEF Fetched
    <3> DEFINE at == keys[p].at
               seen == lastSeen[kid]
    <3>4. at <= seen => seen + KeysLast > clock
      <4>1. at \in Nat /\ seen \in Nat /\ clock \in Nat /\ KeysLast \in Nat /\ clock < at + KeysLast
        BY <2>1, <3>2
      <4> HIDE DEF at, seen
      <4> QED BY <4>1
    <3>5. kid \in keys[p].kids => kid \in published \/ lastSeen[kid] + KeysLast > clock
      BY <3>3, <3>4
    <3> QED BY <3>1, <3>2, <3>5
  <2> QED BY <2>2, <2>3
<1> QED BY <1>1, <1>2, PTL

-----------------------------------------------------------------------------
(* Guesses are bounded by the threshold and the requests under way.        *)

\* The sizes of sets of requests.
LEMMA Sizes ==
    ASSUME NEW M \in SUBSET Callers, NEW L \in SUBSET M
    PROVE  /\ Cardinality(L) \in Nat /\ Cardinality(M) \in Nat /\ Cardinality(Callers) \in Nat
           /\ Cardinality(L) <= Cardinality(M) /\ Cardinality(M) <= Cardinality(Callers)
           /\ \A cl \in M \ L : Cardinality(L) + 1 <= Cardinality(M)
<1>1. IsFiniteSet(Callers) BY AccountsAssumption
<1>2. IsFiniteSet(M) /\ Cardinality(M) <= Cardinality(Callers) BY <1>1, FS_Subset
<1>3. IsFiniteSet(L) /\ Cardinality(L) <= Cardinality(M) BY <1>2, FS_Subset
<1>4. Cardinality(L) \in Nat /\ Cardinality(M) \in Nat /\ Cardinality(Callers) \in Nat
  BY <1>1, <1>2, <1>3, FS_CardinalityType
<1>5. ASSUME NEW cl \in M \ L PROVE Cardinality(L) + 1 <= Cardinality(M)
  <2>1. Cardinality(L) # Cardinality(M) BY <1>2, <1>5, FS_Subset
  <2> QED BY <1>3, <1>4, <2>1
<1> QED BY <1>2, <1>3, <1>4, <1>5

\* A counter is made of numbers.
LEMMA CountFacts ==
    ASSUME WalkInv, NEW c \in Counters
    PROVE  /\ counter[c] \in Counts /\ counter[c].failures \in Nat /\ counter[c].until \in Nat
           /\ counter[c].last \in Nat /\ counter[c].row \in Nat
           /\ guesses[c] \in Nat /\ clock \in Nat /\ Threshold(c) \in Nat
BY ThresholdsAre DEF WalkInv, Typed, Counts

\* A counter stays bounded while no more requests may count on it, or it is open.
LEMMA BoundedStays ==
    ASSUME WalkInv, NEW c \in Counters, Bounded(c), counter'[c] = counter[c],
           guesses'[c] = guesses[c], clock' = clock,
           counter[c].until <= clock \/ MayCount(c)' \subseteq MayCount(c)
    PROVE  Bounded(c)'
<1> DEFINE m == Cardinality(MayCount(c))
           n == Cardinality(Callers)
<1>1. MayCount(c) \subseteq Callers /\ MayCount(c)' \subseteq Callers BY DEF MayCount
<1>2. PICK M, L : M = MayCount(c) /\ L = MayCount(c)' OBVIOUS
<1>3. M \in SUBSET Callers /\ L \in SUBSET Callers BY <1>1, <1>2
<1>4. Cardinality(M) \in Nat /\ Cardinality(L) \in Nat BY <1>3, Sizes
<1>5. L \subseteq M => Cardinality(L) <= Cardinality(M) BY <1>3, Sizes
<1>6. /\ guesses[c] \in Nat /\ clock \in Nat /\ counter[c].until \in Nat /\ Threshold(c) \in Nat
      /\ n \in Nat
  BY <1>3, CountFacts, Sizes
<1>7. counter[c].until > clock =>
          guesses[c] + Cardinality(L) < Threshold(c) + Cardinality(Callers)
  <2> SUFFICES ASSUME counter[c].until > clock
               PROVE  guesses[c] + Cardinality(L) < Threshold(c) + n
    OBVIOUS
  <2>1. L \subseteq M BY <1>2, <1>6
  <2>2. guesses[c] + Cardinality(M) < Threshold(c) + n BY <1>2 DEF Bounded
  <2> HIDE DEF n
  <2> QED BY <1>4, <1>5, <1>6, <2>1, <2>2
<1> QED BY <1>2, <1>7 DEF Bounded

\* A transaction writes one counter, which nobody else was reading.
LEMMA OneMoves ==
    ASSUME WalkInv, GuessInv, NEW cl \in Callers, NEW n \in Counters, Turns(cl),
           \A c \in Counters \ {n} : counter'[c] = counter[c] /\ guesses'[c] = guesses[c],
           clock' = clock, Clash(n, cl), call'[cl].pc # "count",
           call'[cl].pc \in {"reading", "verifying", "counting"} => call'[cl].now <= clock,
           \A c : cl \in MayCount(c)' => cl \in MayCount(c),
           n \notin contended => Bounded(n)'
    PROVE  GuessInv'
<1>1. contended \subseteq contended' BY DEF Clash
<1>2. \A o \in Callers : o # cl => call'[o] = call[o] BY DEF Turns
<1>3. ASSUME NEW o \in Callers, call'[o].pc \in {"reading", "verifying", "counting", "count"}
      PROVE  call'[o].now <= clock'
  BY <1>2, <1>3 DEF GuessInv
<1>4. ASSUME NEW c \in Counters, c \notin contended' PROVE Bounded(c)'
  <2>1. c \notin contended /\ Bounded(c) BY <1>1, <1>4 DEF GuessInv
  <2>2. MayCount(c)' \subseteq MayCount(c) BY <1>2 DEF MayCount
  <2>3. c # n => Bounded(c)' BY <2>1, <2>2, BoundedStays
  <2> QED BY <2>1, <2>3
<1>5. ASSUME NEW c \in Counters, c \notin contended' PROVE ReadOnce(c)'
  <2>1. ReadOnce(c) BY <1>1, <1>5 DEF GuessInv
  <2>2. \A o \in Callers : Reading(o, c)' => o # cl /\ Reading(o, c) /\ call'[o] = call[o]
    BY <1>2 DEF Reading
  <2>3. CASE c = n
    <3>1. \A o \in Callers \ {cl} : ~Reading(o, c) BY <1>5, <2>3 DEF Clash, Reading, At
    <3> QED BY <2>2, <3>1 DEF ReadOnce
  <2>4. CASE c # n
    <3>1. counter'[c] = counter[c] BY <2>4
    <3> QED BY <2>1, <2>2, <3>1 DEF ReadOnce
  <2> QED BY <2>3, <2>4
<1> QED BY <1>3, <1>4, <1>5 DEF GuessInv

\* A step that writes no counter, and comes to read one or to pass its lock.
LEMMA NoneMoves ==
    ASSUME WalkInv, GuessInv, NEW cl \in Callers, Turns(cl),
           UNCHANGED <<counter, guesses, clock>>, contended \subseteq contended',
           call'[cl].pc \in {"reading", "verifying", "counting", "count"} => call'[cl].now <= clock,
           \A c \in Counters : cl \in MayCount(c)' =>
               cl \in MayCount(c) \/ counter[c].until <= clock,
           \A c \in Counters \ contended' : Reading(cl, c)' =>
               /\ call'[cl].read = counter[c]
               /\ \A o \in Callers \ {cl} : ~Reading(o, c)
    PROVE  GuessInv'
<1>1. \A o \in Callers : o # cl => call'[o] = call[o] BY DEF Turns
<1>2. ASSUME NEW o \in Callers, call'[o].pc \in {"reading", "verifying", "counting", "count"}
      PROVE  call'[o].now <= clock'
  BY <1>1, <1>2 DEF GuessInv
<1>3. ASSUME NEW c \in Counters, c \notin contended' PROVE Bounded(c)'
  <2>1. Bounded(c) BY <1>3 DEF GuessInv
  <2>2. counter[c].until <= clock \/ MayCount(c)' \subseteq MayCount(c) BY <1>1 DEF MayCount
  <2> QED BY <2>1, <2>2, BoundedStays
<1>4. ASSUME NEW c \in Counters, c \notin contended' PROVE ReadOnce(c)'
  <2>1. ReadOnce(c) BY <1>4 DEF GuessInv
  <2>2. \A o \in Callers : o # cl => (Reading(o, c)' <=> Reading(o, c))
    BY <1>1 DEF Reading
  <2>3. /\ Reading(cl, c)' => call'[cl].read = counter[c]
        /\ Reading(cl, c)' => \A o \in Callers \ {cl} : ~Reading(o, c)
    BY <1>4
  <2> QED BY <1>1, <2>1, <2>2, <2>3 DEF ReadOnce
<1> QED BY <1>2, <1>3, <1>4 DEF GuessInv

\* The write of a count that nobody else has read.
LEMMA CountBounded ==
    ASSUME WalkInv, GuessInv, NEW cl \in Callers, CountWrites(cl),
           NEW c \in Counters \ contended, c = call[cl].counts, Threshold(c) # 1,
           cl \notin MayCount(c)', MayCount(c)' \subseteq MayCount(c)
    PROVE  Bounded(c)'
<1> DEFINE count == counter[c]
           now == call[cl].now
           fresh == Fresh(count, now)
           T == Threshold(c)
           n == Cardinality(Callers)
<1>1. /\ call[cl].pc = "count" /\ Reading(cl, c) /\ call[cl].read = count /\ now <= clock
      /\ now \in Nat /\ Bounded(c) /\ clock' = clock
  BY DEF CountWrites, At, GuessInv, ReadOnce, Reading, WalkInv, Typed, Call
<1>2. /\ count \in Counts /\ count.failures \in Nat /\ count.until \in Nat /\ guesses[c] \in Nat
      /\ clock \in Nat /\ T \in Nat /\ T > 1 /\ Lockout \in Nat /\ Lockout > 0
  BY CountFacts, ThresholdsAre, AccountsAssumption
<1>3. PICK M, L : M = MayCount(c) /\ L = MayCount(c)' OBVIOUS
<1>4. /\ Cardinality(L) \in Nat /\ Cardinality(M) \in Nat /\ n \in Nat
      /\ Cardinality(L) + 1 <= Cardinality(M) /\ Cardinality(M) <= n
  <2>1. M \in SUBSET Callers /\ L \in SUBSET M /\ cl \in M \ L
    BY <1>1, <1>3 DEF MayCount
  <2> QED BY <2>1, Sizes
<1>5. \/ UNCHANGED <<counter, guesses>>
      \/ /\ \/ \E id : counter' = [counter EXCEPT ![c] = Started(count, now, id)]
               /\ (count.row = 0 \/ fresh)
            \/ counter' = [counter EXCEPT ![c] = Counted(count, now, T)] /\ ~fresh /\ count.row # 0
         /\ guesses' = [guesses EXCEPT ![c] = IF counter'[c].until \in 1..clock THEN 0
                                              ELSE IF fresh THEN 1 ELSE guesses[c] + 1]
  BY <1>1 DEF CountWrites
<1>6. counter \in [Counters -> Counts] /\ guesses \in [Counters -> Nat] BY DEF WalkInv, Typed
<1>7. CASE UNCHANGED <<counter, guesses>> BY <1>1, <1>7, BoundedStays
<1>8. ASSUME NEW id, counter' = [counter EXCEPT ![c] = Started(count, now, id)],
             count.row = 0 \/ fresh,
             guesses' = [guesses EXCEPT ![c] = IF counter'[c].until \in 1..clock THEN 0
                                               ELSE IF fresh THEN 1 ELSE guesses[c] + 1]
      PROVE  Bounded(c)'
  <2>1. counter'[c].until = 0 /\ counter'[c].failures = 1 BY <1>6, <1>8 DEF Started
  <2>2. fresh BY <1>8 DEF Fresh
  <2>3. guesses'[c] = 1 BY <1>2, <1>6, <1>8, <2>1, <2>2
  <2> QED BY <1>1, <1>2, <2>1, <2>3 DEF Bounded
<1>9. ASSUME counter' = [counter EXCEPT ![c] = Counted(count, now, T)], ~fresh,
             guesses' = [guesses EXCEPT ![c] = IF counter'[c].until \in 1..clock THEN 0
                                               ELSE IF fresh THEN 1 ELSE guesses[c] + 1]
      PROVE  Bounded(c)'
  <2> DEFINE f == count.failures
             u == count.until
             g == guesses[c]
             until == IF f + 1 >= T /\ ~(u > now) THEN now + Lockout ELSE u
             cm == Cardinality(M)
             cL == Cardinality(L)
  <2>1. Counted(count, now, T).failures = f + 1 /\ Counted(count, now, T).until = until
    BY <1>2 DEF Counted, Locks, Counts
  <2>2. counter'[c].failures = f + 1 /\ counter'[c].until = until BY <1>6, <1>9, <2>1
  <2>3. guesses'[c] = IF until \in 1..clock THEN 0 ELSE g + 1 BY <1>6, <1>9, <2>2
  <2>4. /\ u = 0 => g <= f /\ f < T
        /\ u \in 1..clock => g = 0
        /\ u > clock => g + cm < T + n
    BY <1>1, <1>3 DEF Bounded
  <2>5. /\ f \in Nat /\ u \in Nat /\ g \in Nat /\ clock \in Nat /\ now \in Nat /\ now <= clock
        /\ T \in Nat /\ T > 1 /\ Lockout \in Nat /\ Lockout > 0 /\ cm \in Nat /\ cL \in Nat
        /\ n \in Nat /\ cL + 1 <= cm /\ cm <= n
    BY <1>1, <1>2, <1>4
  <2> HIDE DEF f, u, g, now, T, n, cm, cL
  <2>6. until \in Nat /\ (u > now => until = u) BY <2>5
  <2>7. until = 0 => g + 1 <= f + 1 /\ f + 1 < T BY <2>4, <2>5
  <2>8. until > clock => g + 1 + cL < T + n
    <3>1. CASE u > clock BY <2>4, <2>5, <3>1
    <3>2. CASE u \in 1..clock BY <2>4, <2>5, <3>2
    <3>3. CASE u = 0 BY <2>4, <2>5, <3>3
    <3> QED BY <2>5, <3>1, <3>2, <3>3
  <2>9. until \in Nat BY <2>6
  <2> HIDE DEF until
  <2>10. /\ until = 0 => guesses'[c] <= f + 1 /\ f + 1 < T
         /\ until \in 1..clock => guesses'[c] = 0
         /\ until > clock => guesses'[c] + cL < T + n
    BY <2>3, <2>5, <2>7, <2>8, <2>9
  <2> QED BY <1>1, <1>3, <2>2, <2>10 DEF Bounded, T, n, cL
<1> HIDE DEF count, now, fresh, T
<1> QED BY <1>5, <1>7, <1>8, <1>9

\* Every step of the password chain keeps the bound.
LEMMA AuthenticatesBounded ==
    ASSUME WalkInv, GuessInv, NEW cl \in Callers, Authenticates(cl),
           SubjectThreshold # 1, SourceThreshold # 1
    PROVE  GuessInv'
<1>1. /\ Typed /\ Walks(call[cl]) /\ Turns(cl) /\ Same(call[cl], call'[cl])
      /\ call[cl].name \in Names /\ SourceOf[cl] \in Counters /\ clock \in Nat
  BY AuthenticatesWalks DEF WalkInv, Typed, Walks, Counters, Sources
<1>2. call'[cl].name = call[cl].name BY <1>1 DEF Same
<1>3. \A c : Threshold(c) # 1 BY DEF Threshold
<1>4. CASE Knock(cl)
  <2>1. UNCHANGED <<counter, guesses, clock, contended>> BY <1>4 DEF Knock, tables
  <2>2. \/ call'[cl].pc = "answered"
        \/ /\ \A c \in {call[cl].name, SourceOf[cl]} : ~Locks(counter[c], clock)
           /\ call'[cl].pc = "reading" /\ call'[cl].now = clock
    BY <1>1, <1>4, KnockTurns
  <2>3. \A c \in Counters : cl \in MayCount(c)' => counter[c].until <= clock
    <3> SUFFICES ASSUME NEW c \in Counters, cl \in MayCount(c)' PROVE counter[c].until <= clock
      OBVIOUS
    <3>1. c \in {call[cl].name, SourceOf[cl]} BY <1>2, <2>2 DEF MayCount
    <3>2. ~Locks(counter[c], clock) BY <2>2, <3>1 DEF MayCount
    <3> QED BY <3>2, CountFacts DEF Locks
  <2> QED BY <1>1, <2>1, <2>2, <2>3, NoneMoves DEF Reading
<1>5. CASE ReadAccount(cl)
  <2>1. /\ UNCHANGED <<counter, guesses, clock, contended>> /\ call[cl].pc = "reading"
        /\ call'[cl].pc = "verifying" /\ call'[cl].now = call[cl].now
    BY <1>1, <1>5, ReadAccountTurns DEF ReadAccount, tables, At
  <2>2. \A c \in Counters : cl \in MayCount(c)' => cl \in MayCount(c)
    BY <1>2, <2>1 DEF MayCount
  <2> QED BY <1>1, <2>1, <2>2, NoneMoves DEF Reading, GuessInv
<1>6. CASE Verify(cl)
  <2>1. /\ UNCHANGED <<counter, guesses, clock, contended>> /\ call[cl].pc = "verifying"
        /\ \/ call'[cl].pc = "clearing"
           \/ /\ call'[cl].pc = "counting" /\ call'[cl].counts = call[cl].name
              /\ call'[cl].now = call[cl].now
    BY <1>1, <1>6, VerifyTurns DEF Verify, At
  <2>2. \A c \in Counters : cl \in MayCount(c)' => cl \in MayCount(c)
    BY <1>2, <2>1 DEF MayCount
  <2> QED BY <1>1, <2>1, <2>2, NoneMoves DEF Reading, GuessInv
<1>7. CASE ClearFailures(cl)
  <2>1. PICK n : n = call[cl].name OBVIOUS
  <2>2. /\ n \in Counters /\ counter' = [counter EXCEPT ![n] = NoCount]
        /\ guesses' = [guesses EXCEPT ![n] = 0] /\ clock' = clock /\ Clash(n, cl)
    BY <1>1, <1>7, <2>1 DEF ClearFailures, Counters
  <2>3. call'[cl].pc \in {"upgrading", "accepted"} BY <1>1, <1>7, ClearFailuresTurns
  <2>4. counter \in [Counters -> Counts] /\ guesses \in [Counters -> Nat] BY <1>1 DEF Typed
  <2>5. Bounded(n)'
    <3>1. counter'[n].until = 0 /\ counter'[n].failures = 0 /\ guesses'[n] = 0
      BY <2>2, <2>4 DEF NoCount
    <3>2. Threshold(n) \in Nat /\ Threshold(n) > 0 BY ThresholdsAre
    <3> QED BY <1>1, <2>2, <3>1, <3>2 DEF Bounded
  <2>6. \A c \in Counters \ {n} : counter'[c] = counter[c] /\ guesses'[c] = guesses[c]
    BY <2>2, <2>4
  <2>7. \A c : cl \notin MayCount(c)' BY <2>3 DEF MayCount
  <2> QED BY <1>1, <2>2, <2>3, <2>5, <2>6, <2>7, OneMoves
<1>8. CASE Upgrade(cl)
  <2>1. UNCHANGED <<counter, guesses, clock, contended>> /\ To(cl, "accepted")
    BY <1>8 DEF Upgrade
  <2>2. call'[cl].pc = "accepted" BY <1>1, <2>1, ToTurns DEF Pcs, AuthPcs
  <2>3. \A c : cl \notin MayCount(c)' BY <2>2 DEF MayCount
  <2> QED BY <1>1, <2>1, <2>2, <2>3, NoneMoves DEF Reading
<1>9. CASE CountReads(cl)
  <2>1. PICK c : c = call[cl].counts OBVIOUS
  <2>2. /\ c \in Counters /\ UNCHANGED <<counter, guesses, clock>> /\ Clash(c, cl)
        /\ call[cl].pc = "counting" /\ call'[cl].pc = "count" /\ call'[cl].counts = c
        /\ call'[cl].now = call[cl].now /\ call'[cl].read = counter[c]
    BY <1>1, <1>9, <2>1, CountReadsTurns DEF CountReads, tables, At, Walks
  <2>3. \A d \in Counters : cl \in MayCount(d)' => cl \in MayCount(d)
    BY <2>1, <2>2 DEF MayCount
  <2>4. ASSUME NEW d \in Counters \ contended', Reading(cl, d)'
        PROVE  call'[cl].read = counter[d] /\ \A o \in Callers \ {cl} : ~Reading(o, d)
    <3>1. d = c BY <2>2, <2>4 DEF Reading
    <3> QED BY <2>2, <2>4, <3>1 DEF Clash, Reading, At
  <2>5. contended \subseteq contended' BY <2>2 DEF Clash
  <2>6. call'[cl].now <= clock BY <2>2 DEF GuessInv
  <2> QED BY <1>1, <2>2, <2>3, <2>4, <2>5, <2>6, NoneMoves
<1>10. CASE CountWrites(cl)
  <2>1. PICK c : c = call[cl].counts OBVIOUS
  <2>2. call[cl].pc = "count" /\ c \in Counters /\ clock' = clock /\ Clash(c, cl)
    BY <1>1, <1>10, <2>1 DEF CountWrites, At, Walks
  <2>3. \/ call'[cl].pc = "answered"
        \/ /\ c \in Names /\ call'[cl].pc = "counting"
           /\ call'[cl].counts = SourceOf[cl] /\ call'[cl].now = call[cl].now
    BY <1>1, <1>10, <2>1, CountWritesTurns
  <2>4. \A d : cl \in MayCount(d)' => d = SourceOf[cl] /\ cl \in MayCount(d) /\ c \in Names
    BY <2>1, <2>2, <2>3 DEF MayCount
  <2>5. SourceOf[cl] \notin Names BY AccountsAssumption
  <2>6. cl \notin MayCount(c)' BY <2>4, <2>5
  <2>7. MayCount(c)' \subseteq MayCount(c) BY <1>1, <2>6 DEF MayCount, Turns
  <2>8. c \notin contended => Bounded(c)' BY <1>3, <1>10, <2>1, <2>2, <2>6, <2>7, CountBounded
  <2>9. \A d \in Counters \ {c} : counter'[d] = counter[d] /\ guesses'[d] = guesses[d]
    <3>1. counter \in [Counters -> Counts] /\ guesses \in [Counters -> Nat] BY <1>1 DEF Typed
    <3>2. \E x, y : /\ counter' = counter \/ counter' = [counter EXCEPT ![c] = x]
                    /\ guesses' = guesses \/ guesses' = [guesses EXCEPT ![c] = y]
      BY <1>10, <2>1 DEF CountWrites
    <3> QED BY <3>1, <3>2
  <2>10. call'[cl].pc = "counting" => call'[cl].now <= clock BY <2>2, <2>3 DEF GuessInv
  <2> QED BY <1>1, <2>2, <2>3, <2>4, <2>8, <2>9, <2>10, OneMoves
<1> QED
  BY <1>4, <1>5, <1>6, <1>7, <1>8, <1>9, <1>10 DEF Authenticates, Authenticate

\* A counter that is dropped starts from nothing.
LEMMA DropsBounded ==
    ASSUME WalkInv, GuessInv, NEW gone, DropCounters(gone)
    PROVE  GuessInv'
<1>1. UNCHANGED <<call, clock>> /\ contended \subseteq contended' /\ clock \in Nat
  BY DEF DropCounters, WalkInv, Typed
<1>2. ASSUME NEW c \in Counters, c \notin contended' PROVE Bounded(c)' /\ ReadOnce(c)'
  <2>1. Bounded(c) /\ ReadOnce(c) BY <1>1, <1>2 DEF GuessInv
  <2>2. CASE c \in gone
    <3>1. counter'[c] = NoCount /\ guesses'[c] = 0 BY <2>2 DEF DropCounters
    <3>2. Threshold(c) \in Nat /\ Threshold(c) > 0 BY ThresholdsAre
    <3>3. \A o \in Callers : ~Reading(o, c) BY <1>2, <2>2 DEF DropCounters, Reading, At
    <3>4. \A o \in Callers : ~Reading(o, c)' BY <1>1, <3>3 DEF Reading
    <3>5. Bounded(c)' BY <1>1, <3>1, <3>2 DEF Bounded, NoCount
    <3> QED BY <3>4, <3>5 DEF ReadOnce
  <2>3. CASE c \notin gone
    <3>1. counter'[c] = counter[c] /\ guesses'[c] = guesses[c] BY <2>3 DEF DropCounters
    <3>2. MayCount(c)' = MayCount(c) BY <1>1 DEF MayCount
    <3>3. Bounded(c)' BY <1>1, <2>1, <3>1, <3>2, BoundedStays
    <3> QED BY <1>1, <2>1, <3>1, <3>3 DEF ReadOnce, Reading
  <2> QED BY <2>2, <2>3
<1> QED BY <1>1, <1>2 DEF GuessInv

\* A lock that runs out ends its guesses.
LEMMA TicksBounded ==
    ASSUME WalkInv, GuessInv, ClockTicks PROVE GuessInv'
<1>1. UNCHANGED <<call, counter, contended>> /\ clock \in Nat /\ clock' = clock + 1
  BY DEF ClockTicks, WalkInv, Typed
<1>2. ASSUME NEW c \in Counters, c \notin contended' PROVE Bounded(c)' /\ ReadOnce(c)'
  <2>1. Bounded(c) /\ ReadOnce(c) BY <1>1, <1>2 DEF GuessInv
  <2>2. PICK M : M = MayCount(c) OBVIOUS
  <2>3. MayCount(c)' = M BY <1>1, <2>2 DEF MayCount
  <2>4. guesses'[c] = IF counter[c].until = clock + 1 THEN 0 ELSE guesses[c]
    BY DEF ClockTicks
  <2>5. counter[c].until \in Nat /\ counter[c].failures \in Nat /\ guesses[c] \in Nat
    BY CountFacts
  <2>6. counter[c].until > clock + 1 => counter[c].until > clock BY <1>1, <2>5
  <2>7. counter[c].until \in 1..(clock + 1) => counter[c].until \in 1..clock \/ counter[c].until = clock + 1
    BY <1>1, <2>5
  <2>8. Bounded(c)' BY <1>1, <2>1, <2>2, <2>3, <2>4, <2>5, <2>6, <2>7 DEF Bounded
  <2> QED BY <1>1, <2>1, <2>8 DEF ReadOnce, Reading
<1>3. \A cl \in Callers : call[cl].now \in Nat BY DEF WalkInv, Typed, Call
<1> QED BY <1>1, <1>2, <1>3 DEF GuessInv

\* The doors count nothing.
LEMMA ServeBounded ==
    ASSUME WalkInv, GuessInv, NEW cl \in Callers, Serve(cl)
    PROVE  GuessInv'
<1>1. Typed /\ Turns(cl) /\ UNCHANGED <<counter, guesses, clock, contended>>
  BY ServeWalks DEF WalkInv, Rest
<1>2. call'[cl].pc \in {"answered", "knocking", "establishing", "claiming", "exchanging", "identifying"}
  BY <1>1, FromBasicTurns, FromSessionTurns, FromBearerTurns, LoginPageTurns, SignInFormTurns,
     LoginBeginsTurns, CallbackArrivesTurns, ClaimLoginTurns, ExchangeCodeTurns,
     VerifyIdTokenTurns, AcceptedTurns, EstablishSessionTurns, LogoutTurns DEF Serve
<1>3. \A c : cl \notin MayCount(c)' BY <1>2 DEF MayCount
<1> QED BY <1>1, <1>2, <1>3, NoneMoves DEF Reading

\* At first nothing is counted.
LEMMA GuessInvInit == Init => GuessInv
<1> SUFFICES ASSUME Init PROVE GuessInv OBVIOUS
<1>1. Idle.pc = "idle" BY DEF Idle
<1>2. \A c : Threshold(c) \in Nat /\ Threshold(c) > 0 BY ThresholdsAre
<1>3. \A c \in Counters : Bounded(c) BY <1>2 DEF Init, Bounded, NoCount
<1> QED BY <1>1, <1>3 DEF Init, GuessInv, ReadOnce, Reading

\* Every step keeps the bound.
LEMMA GuessInvNext ==
    ASSUME SubjectThreshold # 1, SourceThreshold # 1
    PROVE  WalkInv /\ GuessInv /\ [Next]_vars => GuessInv'
<1> SUFFICES ASSUME WalkInv, GuessInv, [Next]_vars PROVE GuessInv' OBVIOUS
<1>1. ASSUME UNCHANGED <<call, counter, guesses, clock, contended>> PROVE GuessInv'
  BY <1>1 DEF GuessInv, Bounded, ReadOnce, Reading, MayCount
<1>2. CASE UNCHANGED vars BY <1>1, <1>2 DEF vars, accountVars
<1>3. CASE Next
  <2>1. ASSUME NEW cl \in Callers, Moves(cl) PROVE GuessInv'
    <3>1. CASE (\E door \in Doors : Send(cl, door)) \/ SendCallback(cl) \/ Receive(cl)
      <4>1. Typed /\ Turns(cl) /\ UNCHANGED <<counter, guesses, clock, contended>>
        BY <2>1, <3>1, MovesWalk DEF WalkInv, Send, SendCallback, Receive
      <4>2. call'[cl].pc \in {"sent", "idle"}
        <5>1. CASE \E door \in Doors : Send(cl, door) BY <4>1, <5>1, SendTurns
        <5>2. CASE SendCallback(cl) BY <4>1, <5>2, SendCallbackTurns
        <5>3. CASE Receive(cl) BY <4>1, <5>3, ReceiveTurns DEF Idle
        <5> QED BY <3>1, <5>1, <5>2, <5>3
      <4>3. \A c : cl \notin MayCount(c)' BY <4>2 DEF MayCount
      <4> QED BY <4>1, <4>2, <4>3, NoneMoves DEF Reading
    <3>2. CASE Authenticates(cl) BY <3>2, AuthenticatesBounded
    <3>3. CASE Serve(cl) BY <3>3, ServeBounded
    <3> QED BY <2>1, <3>1, <3>2, <3>3 DEF Moves
  <2>2. ASSUME NEW l \in LoginRows, ProviderAnswers(l) PROVE GuessInv'
    BY <1>1, <2>2 DEF ProviderAnswers, accountVars
  <2>3. CASE Administer
    BY <1>1, <2>3 DEF Administer, CreateAccount, SetPassword, Suspend, DeleteAccount
  <2>4. CASE ClearsLockout \/ PurgesLockouts
    BY <2>4, DropsBounded DEF ClearsLockout, ClearLockout, PurgesLockouts, PurgeLockouts
  <2>5. CASE Ticks BY <2>5, TicksBounded DEF Ticks
  <2>6. CASE Forgets BY <1>1, <2>6 DEF Forgets, Forget
  <2>7. CASE Rotates BY <1>1, <2>7 DEF Rotates, accountVars
  <2> QED BY <1>3, <2>1, <2>2, <2>3, <2>4, <2>5, <2>6, <2>7, Steps DEF Aside
<1> QED BY <1>2, <1>3

\* A name or a source is guessed at no more often than its threshold and once
\* more by each request that had passed the lock, while no other transaction
\* comes between a read and its write.  A threshold of one is left out: the
\* first failure inserts the row without looking at the threshold, so that the
\* lock comes with the second.
THEOREM GuessesBoundedHolds ==
    ASSUME SubjectThreshold # 1, SourceThreshold # 1
    PROVE  Spec => []GuessesBounded
<1>1. Spec => [](WalkInv /\ GuessInv)
  BY WalkInvHolds, GuessInvInit, GuessInvNext, PTL DEF Spec
<1>2. WalkInv /\ GuessInv => GuessesBounded
  <2> SUFFICES ASSUME WalkInv, GuessInv, NEW c \in Counters \ contended
               PROVE  guesses[c] < Threshold(c) + Cardinality(Callers)
    BY DEF GuessesBounded
  <2> DEFINE m == Cardinality(MayCount(c))
             n == Cardinality(Callers)
             u == counter[c].until
             f == counter[c].failures
             g == guesses[c]
             T == Threshold(c)
  <2>1. MayCount(c) \in SUBSET Callers BY DEF MayCount
  <2>2. m \in Nat /\ n \in Nat BY <2>1, Sizes
  <2>3. /\ u \in Nat /\ f \in Nat /\ g \in Nat /\ clock \in Nat /\ T \in Nat /\ T > 0
    BY CountFacts, ThresholdsAre
  <2>4. /\ u = 0 => g <= f /\ f < T
        /\ u \in 1..clock => g = 0
        /\ u > clock => g + m < T + n
    BY DEF GuessInv, Bounded
  <2> HIDE DEF m, n, u, f, g, T
  <2>5. g < T + n
    <3>1. CASE u = 0 BY <2>2, <2>3, <2>4, <3>1
    <3>2. CASE u \in 1..clock BY <2>2, <2>3, <2>4, <3>2
    <3>3. CASE u > clock BY <2>2, <2>3, <2>4, <3>3
    <3> QED BY <2>3, <3>1, <3>2, <3>3
  <2> QED BY <2>5 DEF g, T, n
<1> QED BY <1>1, <1>2, PTL

-----------------------------------------------------------------------------
(***************************************************************************)
(* What whoever was let in may do: the properties of AccessControl, whose  *)
(* specification, AccessSpec, is one of its own beside SignIn's.           *)
(*                                                                         *)
(* AccessShape is the shape of a state.  TrailInv is what a change knows   *)
(* of its pair between its read, its write and its audit row, which no     *)
(* property names; ReachInv is that whatever a request has read or built   *)
(* its caller held.  WellMade is what a door's checks must be for its act, *)
(* and every door is shown to be so made, one by one.                      *)
(***************************************************************************)
\* A request that changes something names a subject and a place there are, once
\* it is past its first read.
ChangeOK(r) ==
    /\ r.act \in ChangeActs
    /\ r.change.subject \in Subjects
    /\ r.act \in GrantActs => r.change.connection \in Connections \cup {Missing}
    /\ r.act \in OversightActs => r.change.connection = NoConnection
    /\ r.act \in {"grant", "change"} => r.change.level \in Levels
    /\ r.pc = "checking" => r.act = "change"
    /\ r.pc \in {"writing", "recording", "returning"} => r.change.connection # Missing
    /\ r.pc = "returning" => r.act \in {"grant", "change", "issue"}

RequestFields == {"pc", "credential", "reads", "principal", "act", "change", "seen",
                  "answer"}

RequestOK(r, credentials) ==
    /\ r = [field \in RequestFields |-> r[field]]
    /\ r.pc \in {"idle", "arrived", "grants read", "known", "checking", "reading",
                 "writing", "recording", "returning", "answered"}
    /\ r.pc # "idle" => r.credential \in credentials
    /\ r.pc \in {"checking", "reading", "writing", "recording", "returning"} => ChangeOK(r)

TablesOK ==
    /\ grant \in [Subjects -> [Connections ->
                     [level : Levels \cup {NoLevel}, id : Nat]]]
    /\ oversight \in [Subjects -> Nat]
    /\ serial \in Nat
    /\ told \in [Subjects -> [Places -> Levels \cup {NoLevel, "oversight"}]]
    /\ \A s \in Subjects, c \in Connections :
          (grant[s][c].id = 0) <=> (grant[s][c].level = NoLevel)

RequestsOK ==
    /\ request = [cl \in Clients |-> request[cl]]
    /\ \A cl \in Clients : RequestOK(request[cl], CredentialsOf[cl])

AccessShape == TablesOK /\ RequestsOK

LEMMA AccessShapeInit == AccessInit => AccessShape
<1> SUFFICES ASSUME AccessInit PROVE AccessShape
  OBVIOUS
<1>1. TablesOK
  BY LevelsAssumption DEF AccessInit, TablesOK, NoRow, Levels, Places
<1>2. \A cl \in Clients : RequestOK(NoRequest, CredentialsOf[cl])
  BY DEF RequestOK, RequestFields, NoRequest
<1>3. RequestsOK
  BY <1>2 DEF AccessInit, RequestsOK
<1> QED BY <1>1, <1>3 DEF AccessShape

\* A request moves, and no other does.
OnlyMoves(cl) ==
    /\ request' = [x \in Clients |-> request'[x]]
    /\ \A o \in Clients \ {cl} : request'[o] = request[o]

LEMMA RequestsMove ==
    ASSUME RequestsOK, NEW cl \in Clients, OnlyMoves(cl),
           RequestOK(request'[cl], CredentialsOf[cl])
    PROVE  RequestsOK'
BY DEF RequestsOK, OnlyMoves

LEMMA RowsOfSeat ==
    ASSUME RequestsOK, NEW cl \in Clients, NEW r, request' = [request EXCEPT ![cl] = r]
    PROVE  OnlyMoves(cl) /\ request'[cl] = r
BY DEF RequestsOK, OnlyMoves

\* The kinds of step that leave the tables alone.
LEMMA ReadsShape ==
    ASSUME AccessShape, NEW cl \in Clients,
           \/ Arrive(cl) \/ ReadGrants(cl) \/ ReadOversight(cl)
           \/ ServeRequest(cl) \/ Finish(cl)
    PROVE  /\ OnlyMoves(cl) /\ RequestOK(request'[cl], CredentialsOf[cl])
           /\ UNCHANGED <<grant, oversight, serial, told>>
<1> DEFINE r == request[cl]
<1>0. RequestOK(r, CredentialsOf[cl]) BY DEF AccessShape, RequestsOK
<1> USE DEF Unmoved, Tables, Ghosts
<1>1. CASE Arrive(cl)
  <2>1. PICK who \in CredentialsOf[cl] :
           request' = [request EXCEPT ![cl] =
                    [NoRequest EXCEPT !.pc = "arrived", !.credential = who]]
    BY <1>1 DEF Arrive
  <2>2. RequestOK([NoRequest EXCEPT !.pc = "arrived", !.credential = who], CredentialsOf[cl])
    BY DEF RequestOK, RequestFields, NoRequest
  <2> QED BY <1>1, <2>1, <2>2, RowsOfSeat DEF Arrive, AccessShape
<1>2. CASE ReadGrants(cl)
  <2> DEFINE q == [r EXCEPT !.pc = "grants read",
                     !.reads = [c \in Connections |-> grant[r.credential.subject][c].level]]
  <2>1. r.pc = "arrived" /\ request' = [request EXCEPT ![cl] = q]
    BY <1>2 DEF ReadGrants, AccessShape, RequestsOK
  <2>2. RequestOK(q, CredentialsOf[cl])
    BY <1>0, <2>1 DEF RequestOK, RequestFields
  <2> HIDE DEF q
  <2> QED BY <1>2, <2>1, <2>2, RowsOfSeat DEF ReadGrants, AccessShape
<1>3. CASE ReadOversight(cl)
  <2> DEFINE q == [r EXCEPT !.pc = "known", !.reads = Unset,
                     !.principal = PrincipalOf(r.credential, r.reads,
                                        oversight[r.credential.subject] # 0)]
  <2>1. r.pc = "grants read" /\ request' = [request EXCEPT ![cl] = q]
    BY <1>3 DEF ReadOversight, AccessShape, RequestsOK
  <2>2. RequestOK(q, CredentialsOf[cl])
    BY <1>0, <2>1 DEF RequestOK, RequestFields
  <2> HIDE DEF q
  <2> QED BY <1>3, <2>1, <2>2, RowsOfSeat DEF ReadOversight, AccessShape
<1>4. CASE ServeRequest(cl) \/ Finish(cl)
  <2>1. request' = [request EXCEPT ![cl] = NoRequest]
    BY <1>4 DEF ServeRequest, Finish
  <2>2. RequestOK(NoRequest, CredentialsOf[cl])
    BY DEF RequestOK, RequestFields, NoRequest
  <2> QED BY <1>4, <2>1, <2>2, RowsOfSeat DEF ServeRequest, Finish, AccessShape
<1> QED BY <1>1, <1>2, <1>3, <1>4

-----------------------------------------------------------------------------
ChangePcs == {"checking", "reading", "writing", "recording", "returning"}

\* What a change knows about the pair it is about: the trail says the level in
\* force, but between its write and its audit row, when it is its own level that
\* is in force; and the row it saw is the row there is.
Recorded(r) ==
    CASE r.act \in {"grant", "change"} -> r.change.level
      [] r.act = "issue"               -> "oversight"
      [] OTHER                         -> NoLevel

Says(cl) ==
    LET r == request[cl]
        s == request[cl].change.subject
        c == request[cl].change.connection
    IN  c \in Places =>
            /\ r.pc # "recording" => told[s][c] = InForce(s, c)
            /\ r.pc = "recording" => InForce(s, c) = Recorded(r)
            /\ r.pc = "writing" /\ r.act \in {"grant", "change"} =>
                  r.seen = grant[s][c].id

Truthful(s, c) == told[s][c] = InForce(s, c)

\* A step of the change: it goes on with its pair, or leaves the trail right.
Follows(cl) ==
    IF request'[cl].pc \in ChangePcs
    THEN Pair(cl)' = Pair(cl) /\ Says(cl)'
    ELSE \A s, c : Pair(cl) = <<s, c>> /\ c \in Places => Truthful(s, c)'

\* What a step leaves of the row and of the trail of a pair.
Undisturbed(s, c) ==
    /\ told'[s][c] = told[s][c]
    /\ InForce(s, c)' = InForce(s, c)
    /\ c \in Connections => grant'[s][c] = grant[s][c]

OtherPairs(cl) ==
    \A s \in Subjects, c \in Places : <<s, c>> # Pair(cl) => Undisturbed(s, c)

\* A step of a change keeps its request, but for the step it is at.
Keeps(cl) ==
    /\ OnlyMoves(cl)
    /\ request'[cl] = [field \in RequestFields |-> request'[cl][field]]
    /\ request'[cl].credential = request[cl].credential
    /\ request'[cl].act = request[cl].act
    /\ request'[cl].change = request[cl].change

LEMMA GoesKeeps ==
    ASSUME RequestsOK, NEW cl \in Clients, NEW pc, Goes(cl, pc)
    PROVE  Keeps(cl) /\ request'[cl].pc = pc /\ request'[cl].seen = request[cl].seen
<1> DEFINE r == request[cl]
           q == [r EXCEPT !.pc = pc]
<1>1. request' = [request EXCEPT ![cl] = q]
  BY DEF Goes, RequestsOK
<1>2. r = [field \in RequestFields |-> r[field]]
  BY DEF RequestsOK, RequestOK
<1>3. /\ q = [field \in RequestFields |-> q[field]]
      /\ q.pc = pc /\ q.seen = r.seen /\ q.credential = r.credential
      /\ q.act = r.act /\ q.change = r.change
  BY <1>2 DEF RequestFields
<1> HIDE DEF q
<1>4. OnlyMoves(cl) /\ request'[cl] = q BY <1>1, RowsOfSeat
<1> QED BY <1>3, <1>4 DEF Keeps

LEMMA AnswersKeeps ==
    ASSUME RequestsOK, NEW cl \in Clients, NEW answer, AnswersWith(cl, answer)
    PROVE  Keeps(cl) /\ request'[cl].pc = "answered"
<1> DEFINE r == request[cl]
           q == [r EXCEPT !.pc = "answered", !.answer = answer]
<1>1. request' = [request EXCEPT ![cl] = q]
  BY DEF AnswersWith, RequestsOK
<1>2. r = [field \in RequestFields |-> r[field]]
  BY DEF RequestsOK, RequestOK
<1>3. /\ q = [field \in RequestFields |-> q[field]]
      /\ q.pc = "answered" /\ q.credential = r.credential
      /\ q.act = r.act /\ q.change = r.change
  BY <1>2 DEF RequestFields
<1> HIDE DEF q
<1>4. OnlyMoves(cl) /\ request'[cl] = q BY <1>1, RowsOfSeat
<1> QED BY <1>3, <1>4 DEF Keeps

\* The row of the grant as it was read, and the write that comes next.
LEMMA SeesKeeps ==
    ASSUME RequestsOK, NEW cl \in Clients, NEW id,
           request' = [request EXCEPT ![cl].pc = "writing", ![cl].seen = id]
    PROVE  Keeps(cl) /\ request'[cl].pc = "writing" /\ request'[cl].seen = id
<1> DEFINE r == request[cl]
           q == [r EXCEPT !.pc = "writing", !.seen = id]
<1>1. request' = [request EXCEPT ![cl] = q]
  BY DEF RequestsOK
<1>2. r = [field \in RequestFields |-> r[field]]
  BY DEF RequestsOK, RequestOK
<1>3. /\ q = [field \in RequestFields |-> q[field]]
      /\ q.pc = "writing" /\ q.seen = id /\ q.credential = r.credential
      /\ q.act = r.act /\ q.change = r.change
  BY <1>2 DEF RequestFields
<1> HIDE DEF q
<1>4. OnlyMoves(cl) /\ request'[cl] = q BY <1>1, RowsOfSeat
<1> QED BY <1>3, <1>4 DEF Keeps

\* Where a change is, it is still about what it was about.
LEMMA KeepsOK ==
    ASSUME RequestsOK, NEW cl \in Clients, Keeps(cl), request[cl].pc \in ChangePcs,
           request'[cl].pc \in {"reading", "writing", "recording", "returning", "answered"},
           request'[cl].pc \in {"writing", "recording", "returning"} =>
               request[cl].change.connection # Missing,
           request'[cl].pc = "returning" => request[cl].act \in {"grant", "change", "issue"}
    PROVE  RequestOK(request'[cl], CredentialsOf[cl])
<1>1. RequestOK(request[cl], CredentialsOf[cl]) BY DEF RequestsOK
<1> QED BY <1>1 DEF RequestOK, Keeps, ChangePcs, ChangeOK

LEMMA KeepsPair ==
    ASSUME NEW cl \in Clients, Keeps(cl)
    PROVE  Pair(cl)' = Pair(cl)
BY DEF Keeps, Pair

-----------------------------------------------------------------------------
\* What each step of a change does, but for the loss of its process.
ChangeEffect(cl) ==
    /\ Keeps(cl) /\ request[cl].pc \in ChangePcs
    /\ RequestOK(request'[cl], CredentialsOf[cl])
    /\ TablesOK'
    /\ UNCHANGED <<disputed, silent>>
    /\ OtherPairs(cl)
    /\ Says(cl) => Follows(cl)

\* The steps that only read.
LEMMA UntouchedRows ==
    ASSUME TablesOK, NEW cl \in Clients, UNCHANGED <<grant, oversight, serial, told>>
    PROVE  TablesOK' /\ OtherPairs(cl)
BY DEF TablesOK, OtherPairs, Undisturbed, InForce

LEMMA ReadsFollows ==
    ASSUME NEW cl \in Clients, Keeps(cl), UNCHANGED <<grant, oversight, serial, told>>,
           request[cl].pc \in ChangePcs \ {"recording"},
           request'[cl].pc \in {"reading", "writing", "answered"},
           Says(cl),
           \/ request'[cl].pc # "writing" \/ request[cl].act \notin {"grant", "change"}
           \/ request'[cl].seen = grant[request[cl].change.subject][request[cl].change.connection].id
    PROVE  Follows(cl)
<1>1. Pair(cl)' = Pair(cl) BY KeepsPair
<1>2. \A s, c : InForce(s, c)' = InForce(s, c) BY DEF InForce
<1>3. CASE request'[cl].pc \in ChangePcs
  <2>1. Says(cl)'
    BY <1>2, <1>3 DEF Keeps, Says, ChangePcs
  <2> QED BY <1>1, <1>3, <2>1 DEF Follows
<1>4. CASE request'[cl].pc \notin ChangePcs
  <2>1. ASSUME NEW s, NEW c, Pair(cl) = <<s, c>>, c \in Places
        PROVE  Truthful(s, c)'
    <3>1. s = request[cl].change.subject /\ c = request[cl].change.connection
      BY <2>1 DEF Pair
    <3>2. told[s][c] = InForce(s, c)
      BY <2>1, <3>1 DEF Says, ChangePcs
    <3> QED BY <1>2, <3>2 DEF Truthful
  <2> QED BY <1>4, <2>1 DEF Follows
<1> QED BY <1>3, <1>4

LEMMA CheckHeldEffect ==
    ASSUME AccessShape, NEW cl \in Clients, CheckHeld(cl)
    PROVE  ChangeEffect(cl)
<1>1. /\ request[cl].pc = "checking"
      /\ UNCHANGED <<grant, oversight, serial, told>> /\ UNCHANGED <<disputed, silent>>
  BY DEF CheckHeld, Doing, Unmoved, Tables, Ghosts
<1>2. Keeps(cl) /\ request'[cl].pc \in {"reading", "answered"}
  BY GoesKeeps, AnswersKeeps DEF CheckHeld, AccessShape
<1>3. RequestOK(request'[cl], CredentialsOf[cl])
  BY <1>1, <1>2, KeepsOK DEF AccessShape, ChangePcs
<1>4. Says(cl) => Follows(cl)
  BY <1>1, <1>2, ReadsFollows DEF ChangePcs
<1> QED BY <1>1, <1>2, <1>3, <1>4, UntouchedRows DEF ChangeEffect, AccessShape, ChangePcs

LEMMA GrantReadsEffect ==
    ASSUME AccessShape, NEW cl \in Clients, GrantReads(cl)
    PROVE  ChangeEffect(cl)
<1> DEFINE ch == request[cl].change
<1>1. /\ request[cl].pc = "reading" /\ request[cl].act \in {"grant", "change"}
      /\ UNCHANGED <<grant, oversight, serial, told>> /\ UNCHANGED <<disputed, silent>>
  BY DEF GrantReads, Doing, Unmoved, Tables, Ghosts
<1>2. Keeps(cl) /\ \/ request'[cl].pc = "answered"
                   \/ /\ request'[cl].pc = "writing" /\ ch.connection # Missing
                      /\ request'[cl].seen = grant[ch.subject][ch.connection].id
  BY SeesKeeps, AnswersKeeps DEF GrantReads, AccessShape
<1>3. RequestOK(request'[cl], CredentialsOf[cl])
  BY <1>1, <1>2, KeepsOK DEF AccessShape, ChangePcs
<1>4. Says(cl) => Follows(cl)
  BY <1>1, <1>2, ReadsFollows DEF ChangePcs
<1> QED BY <1>1, <1>2, <1>3, <1>4, UntouchedRows DEF ChangeEffect, AccessShape, ChangePcs

LEMMA GrantReturnsEffect ==
    ASSUME AccessShape, NEW cl \in Clients, GrantReturns(cl)
    PROVE  ChangeEffect(cl)
<1>1. /\ request[cl].pc = "returning"
      /\ UNCHANGED <<grant, oversight, serial, told>> /\ UNCHANGED <<disputed, silent>>
  BY DEF GrantReturns, Doing, Unmoved, Tables, Ghosts
<1>2. Keeps(cl) /\ request'[cl].pc = "answered"
  BY AnswersKeeps DEF GrantReturns, AccessShape
<1>3. RequestOK(request'[cl], CredentialsOf[cl])
  BY <1>1, <1>2, KeepsOK DEF AccessShape, ChangePcs
<1>4. Says(cl) => Follows(cl)
  BY <1>1, <1>2, ReadsFollows DEF ChangePcs
<1> QED BY <1>1, <1>2, <1>3, <1>4, UntouchedRows DEF ChangeEffect, AccessShape, ChangePcs

\* A level in force is in force at a place.
LEMMA ForceIsSomewhere ==
    ASSUME NEW s, InForce(s, Missing) # NoLevel
    PROVE  FALSE
BY MissingAssumption DEF InForce

LEMMA RevokeReadsEffect ==
    ASSUME AccessShape, NEW cl \in Clients, RevokeReads(cl)
    PROVE  ChangeEffect(cl)
<1>1. /\ request[cl].pc = "reading" /\ request[cl].act \in {"revoke", "withdraw"}
      /\ UNCHANGED <<grant, oversight, serial, told>> /\ UNCHANGED <<disputed, silent>>
  BY DEF RevokeReads, Doing, Unmoved, Tables, Ghosts
<1>2. Keeps(cl) /\ \/ request'[cl].pc = "answered"
                   \/ request'[cl].pc = "writing" /\ request[cl].change.connection # Missing
  BY GoesKeeps, AnswersKeeps, ForceIsSomewhere DEF RevokeReads, AccessShape
<1>3. RequestOK(request'[cl], CredentialsOf[cl])
  BY <1>1, <1>2, KeepsOK DEF AccessShape, ChangePcs
<1>4. Says(cl) => Follows(cl)
  BY <1>1, <1>2, ReadsFollows DEF ChangePcs
<1> QED BY <1>1, <1>2, <1>3, <1>4, UntouchedRows DEF ChangeEffect, AccessShape, ChangePcs

LEMMA IssueReadsEffect ==
    ASSUME AccessShape, NEW cl \in Clients, IssueReads(cl)
    PROVE  ChangeEffect(cl)
<1>1. /\ request[cl].pc = "reading" /\ request[cl].act = "issue"
      /\ UNCHANGED <<grant, oversight, serial, told>> /\ UNCHANGED <<disputed, silent>>
  BY DEF IssueReads, Doing, Unmoved, Tables, Ghosts
<1>2. Keeps(cl) /\ request'[cl].pc \in {"writing", "answered"}
  BY GoesKeeps, AnswersKeeps DEF IssueReads, AccessShape
<1>3. request[cl].change.connection = NoConnection
  BY <1>1 DEF AccessShape, RequestsOK, RequestOK, ChangeOK, OversightActs
<1>4. RequestOK(request'[cl], CredentialsOf[cl])
  BY <1>1, <1>2, <1>3, KeepsOK, MissingAssumption DEF AccessShape, ChangePcs
<1>5. Says(cl) => Follows(cl)
  BY <1>1, <1>2, ReadsFollows DEF ChangePcs
<1> QED BY <1>1, <1>2, <1>4, <1>5, UntouchedRows DEF ChangeEffect, AccessShape, ChangePcs

-----------------------------------------------------------------------------
\* The steps that write: a row of connection_grant, one of oversight_grant, or
\* one of the trail.
WritesGrant(s, c, row) == grant' = [grant EXCEPT ![s][c] = row]

Tells(s, c, level) == told' = [told EXCEPT ![s][c] = level]

LEMMA GrantWritten ==
    ASSUME TablesOK, NEW s \in Subjects, NEW c \in Connections,
           NEW row \in [level : Levels \cup {NoLevel}, id : Nat],
           (row.id = 0) <=> (row.level = NoLevel),
           WritesGrant(s, c, row), serial' \in Nat,
           UNCHANGED <<oversight, told>>
    PROVE  /\ TablesOK'
           /\ \A t \in Subjects, d \in Places : <<t, d>> # <<s, c>> => Undisturbed(t, d)
           /\ InForce(s, c)' = row.level
<1>1. grant' \in [Subjects -> [Connections -> [level : Levels \cup {NoLevel}, id : Nat]]]
  BY DEF TablesOK, WritesGrant
<1>2. grant'[s][c] = row
  BY DEF TablesOK, WritesGrant
<1>3. \A t \in Subjects, d \in Connections : <<t, d>> # <<s, c>> => grant'[t][d] = grant[t][d]
  BY DEF TablesOK, WritesGrant
<1>4. \A t \in Subjects, d \in Connections :
         (grant'[t][d].id = 0) <=> (grant'[t][d].level = NoLevel)
  <2> SUFFICES ASSUME NEW t \in Subjects, NEW d \in Connections
               PROVE  (grant'[t][d].id = 0) <=> (grant'[t][d].level = NoLevel)
    OBVIOUS
  <2>1. CASE t = s /\ d = c BY <2>1, <1>2
  <2>2. CASE <<t, d>> # <<s, c>>
    <3>1. (grant[t][d].id = 0) <=> (grant[t][d].level = NoLevel) BY DEF TablesOK
    <3> QED BY <2>2, <3>1, <1>3
  <2> QED BY <2>1, <2>2
<1>5. TablesOK'
  BY <1>1, <1>4 DEF TablesOK
<1>6. \A t \in Subjects, d \in Places : <<t, d>> # <<s, c>> => Undisturbed(t, d)
  BY <1>3 DEF Undisturbed, InForce, Places
<1>7. InForce(s, c)' = row.level
  BY <1>2 DEF InForce
<1> QED BY <1>5, <1>6, <1>7

LEMMA OversightWritten ==
    ASSUME TablesOK, NEW s \in Subjects, NEW id \in Nat,
           oversight' = [oversight EXCEPT ![s] = id], serial' \in Nat,
           UNCHANGED <<grant, told>>
    PROVE  /\ TablesOK'
           /\ \A t \in Subjects, d \in Places :
                 <<t, d>> # <<s, NoConnection>> => Undisturbed(t, d)
           /\ InForce(s, NoConnection)' = IF id = 0 THEN NoLevel ELSE "oversight"
<1>1. oversight' \in [Subjects -> Nat] /\ oversight'[s] = id
  BY DEF TablesOK
<1>2. \A t \in Subjects : t # s => oversight'[t] = oversight[t]
  BY DEF TablesOK
<1>3. TablesOK'
  BY <1>1 DEF TablesOK
<1>4. \A t \in Subjects, d \in Places : <<t, d>> # <<s, NoConnection>> => Undisturbed(t, d)
  BY <1>2 DEF Undisturbed, InForce, Places
<1>5. InForce(s, NoConnection)' = IF id = 0 THEN NoLevel ELSE "oversight"
  BY <1>1, ConnectionsAssumption DEF InForce
<1> QED BY <1>3, <1>4, <1>5

LEMMA ToldWritten ==
    ASSUME TablesOK, NEW s \in Subjects, NEW c \in Places,
           NEW level \in Levels \cup {NoLevel, "oversight"},
           Tells(s, c, level),
           UNCHANGED <<grant, oversight, serial>>
    PROVE  /\ TablesOK'
           /\ \A t \in Subjects, d \in Places : <<t, d>> # <<s, c>> => Undisturbed(t, d)
           /\ told'[s][c] = level /\ InForce(s, c)' = InForce(s, c)
<1>1. told' \in [Subjects -> [Places -> Levels \cup {NoLevel, "oversight"}]]
  BY DEF TablesOK, Tells
<1>2. told'[s][c] = level
  BY DEF TablesOK, Tells
<1>3. \A t \in Subjects, d \in Places : <<t, d>> # <<s, c>> => told'[t][d] = told[t][d]
  BY DEF TablesOK, Tells
<1>4. TablesOK'
  BY <1>1 DEF TablesOK
<1> QED BY <1>2, <1>3, <1>4 DEF Undisturbed, InForce

\* A change that has read knows where it writes.
LEMMA WritesWhere ==
    ASSUME AccessShape, NEW cl \in Clients,
           request[cl].pc \in {"writing", "recording", "returning"}
    PROVE  /\ request[cl].change.subject \in Subjects
           /\ request[cl].change.connection # Missing
           /\ request[cl].change.connection \in Places
           /\ request[cl].act \in {"grant", "change", "revoke"} =>
                 request[cl].change.connection \in Connections
           /\ request[cl].act \in {"grant", "change"} =>
                 request[cl].change.level \in Levels
           /\ request[cl].act \in {"issue", "withdraw"} =>
                 request[cl].change.connection = NoConnection
BY DEF AccessShape, RequestsOK, RequestOK, ChangeOK, ChangeActs, GrantActs,
       OversightActs, Places

LEMMA GrantInsertsEffect ==
    ASSUME AccessShape, NEW cl \in Clients, GrantInserts(cl)
    PROVE  ChangeEffect(cl)
<1>0. PICK s, c, level, row :
         /\ s = request[cl].change.subject /\ c = request[cl].change.connection
         /\ level = request[cl].change.level
         /\ row = [level |-> request[cl].change.level, id |-> serial + 1]
  OBVIOUS
<1>1. /\ request[cl].pc = "writing" /\ request[cl].act \in {"grant", "change"}
      /\ UNCHANGED <<oversight, told>> /\ UNCHANGED <<disputed, silent>>
  BY <1>0 DEF GrantInserts, Doing, Ghosts
<1>2. s \in Subjects /\ c \in Connections /\ request[cl].change.level \in Levels
      /\ c # Missing
  BY <1>0, <1>1, WritesWhere
<1>3. CASE grant[s][c].id # 0
  <2>1. UNCHANGED <<grant, oversight, serial, told>> /\ AnswersWith(cl, "500")
    BY <1>0, <1>1, <1>3 DEF GrantInserts
  <2>2. Keeps(cl) /\ request'[cl].pc = "answered"
    BY <1>0, <2>1, AnswersKeeps DEF AccessShape
  <2>3. RequestOK(request'[cl], CredentialsOf[cl])
    BY <1>0, <1>1, <2>2, KeepsOK DEF AccessShape, ChangePcs
  <2>4. Says(cl) => Follows(cl)
    BY <1>0, <1>1, <2>1, <2>2, ReadsFollows DEF ChangePcs
  <2> QED BY <1>0, <1>1, <2>1, <2>2, <2>3, <2>4, UntouchedRows DEF ChangeEffect, AccessShape, ChangePcs
<1>4. CASE grant[s][c].id = 0
  <2>1. /\ serial' = serial + 1 /\ WritesGrant(s, c, row)
        /\ Goes(cl, "recording")
    BY <1>0, <1>1, <1>4 DEF GrantInserts, WritesGrant
  <2>2. /\ row \in [level : Levels \cup {NoLevel}, id : Nat] /\ serial' \in Nat
        /\ row.level = level /\ ((row.id = 0) <=> (row.level = NoLevel))
    BY <1>0, <1>2, <2>1, LevelsAssumption DEF AccessShape, TablesOK
  <2>3. Keeps(cl) /\ request'[cl].pc = "recording"
    BY <1>0, <2>1, GoesKeeps DEF AccessShape
  <2>4. RequestOK(request'[cl], CredentialsOf[cl])
    BY <1>0, <1>1, <1>2, <2>3, KeepsOK DEF AccessShape, ChangePcs
  <2>5. /\ TablesOK' /\ InForce(s, c)' = level
        /\ \A t \in Subjects, d \in Places : <<t, d>> # <<s, c>> => Undisturbed(t, d)
    BY <1>0, <1>1, <1>2, <2>1, <2>2, GrantWritten DEF AccessShape
  <2>6. OtherPairs(cl) BY <1>0, <2>5 DEF OtherPairs, Pair
  <2>7. Follows(cl)
    BY <1>0, <1>1, <2>3, <2>5, KeepsPair DEF Follows, Keeps, Says, Recorded, ChangePcs
  <2> QED BY <1>0, <1>1, <2>3, <2>4, <2>5, <2>6, <2>7 DEF ChangeEffect, ChangePcs
<1> QED BY <1>0, <1>3, <1>4

LEMMA GrantUpdatesEffect ==
    ASSUME AccessShape, NEW cl \in Clients, GrantUpdates(cl)
    PROVE  ChangeEffect(cl)
<1>0. PICK s, c, level : /\ s = request[cl].change.subject
                         /\ c = request[cl].change.connection
                         /\ level = request[cl].change.level
  OBVIOUS
<1>r. PICK row : row = [level |-> level, id |-> grant[s][c].id]
  OBVIOUS
<1>1. /\ request[cl].pc = "writing" /\ request[cl].act \in {"grant", "change"}
      /\ UNCHANGED <<oversight, serial, told>> /\ UNCHANGED <<disputed, silent>>
      /\ Goes(cl, "recording") /\ request[cl].seen # 0
  BY <1>0 DEF GrantUpdates, Doing, Ghosts
<1>2. s \in Subjects /\ c \in Connections /\ request[cl].change.level \in Levels
      /\ c # Missing /\ c \in Places
  BY <1>0, <1>r, <1>1, WritesWhere
<1>3. Keeps(cl) /\ request'[cl].pc = "recording"
  BY <1>0, <1>r, <1>1, GoesKeeps DEF AccessShape
<1>4. RequestOK(request'[cl], CredentialsOf[cl])
  BY <1>0, <1>r, <1>1, <1>2, <1>3, KeepsOK DEF AccessShape, ChangePcs
<1>5. CASE grant[s][c].id = request[cl].seen
  <2>1. WritesGrant(s, c, row)
    <3>1. grant' = [grant EXCEPT ![s][c].level = level]
      BY <1>0, <1>r, <1>5 DEF GrantUpdates
    <3>2. [grant[s][c] EXCEPT !.level = level] = row
      <4>1. PICK old \in [level : Levels \cup {NoLevel}, id : Nat] : old = grant[s][c]
        BY <1>0, <1>2 DEF AccessShape, TablesOK
      <4>2. row = [level |-> level, id |-> old.id] BY <1>r, <4>1
      <4>3. [old EXCEPT !.level = level] = [level |-> level, id |-> old.id]
        OBVIOUS
      <4> QED BY <4>1, <4>2, <4>3
    <3> QED BY <1>0, <1>r, <1>2, <3>1, <3>2 DEF AccessShape, TablesOK, WritesGrant
  <2>2. /\ row \in [level : Levels \cup {NoLevel}, id : Nat]
        /\ row.level = level /\ ((row.id = 0) <=> (row.level = NoLevel))
    BY <1>0, <1>r, <1>1, <1>2, <1>5, LevelsAssumption DEF AccessShape, TablesOK
  <2>5. /\ TablesOK' /\ InForce(s, c)' = level
        /\ \A t \in Subjects, d \in Places : <<t, d>> # <<s, c>> => Undisturbed(t, d)
    <3>1. TablesOK /\ serial' \in Nat BY <1>1 DEF AccessShape, TablesOK
    <3>2. UNCHANGED <<oversight, told>> BY <1>1
    <3> HIDE DEF AccessShape
    <3> QED BY <1>2, <2>1, <2>2, <3>1, <3>2, GrantWritten
  <2>6. OtherPairs(cl) BY <1>0, <1>r, <2>5 DEF OtherPairs, Pair
  <2>7. Follows(cl)
    BY <1>0, <1>r, <1>1, <1>3, <2>5, KeepsPair DEF Follows, Keeps, Says, Recorded, ChangePcs
  <2> QED BY <1>0, <1>r, <1>1, <1>3, <1>4, <2>5, <2>6, <2>7 DEF ChangeEffect, ChangePcs
<1>6. CASE grant[s][c].id # request[cl].seen
  <2>1. grant' = grant BY <1>0, <1>r, <1>6 DEF GrantUpdates
  <2>2. ~Says(cl) BY <1>0, <1>r, <1>1, <1>2, <1>6 DEF Says
  <2> QED BY <1>0, <1>r, <1>1, <1>3, <1>4, <2>1, <2>2, UntouchedRows DEF ChangeEffect, AccessShape, ChangePcs
<1> QED BY <1>0, <1>r, <1>5, <1>6

LEMMA RevokeDeletesEffect ==
    ASSUME AccessShape, NEW cl \in Clients, RevokeDeletes(cl)
    PROVE  ChangeEffect(cl)
<1>0. PICK s, c : s = request[cl].change.subject /\ c = request[cl].change.connection
  OBVIOUS
<1>1. /\ request[cl].pc = "writing" /\ request[cl].act = "revoke"
      /\ UNCHANGED <<oversight, serial, told>> /\ UNCHANGED <<disputed, silent>>
      /\ Goes(cl, "recording")
      /\ WritesGrant(s, c, NoRow)
  BY <1>0 DEF WritesGrant, RevokeDeletes, Doing, Ghosts
<1>2. s \in Subjects /\ c \in Connections /\ c # Missing
  BY <1>0, <1>1, WritesWhere
<1>3. Keeps(cl) /\ request'[cl].pc = "recording"
  BY <1>0, <1>1, GoesKeeps DEF AccessShape
<1>4. RequestOK(request'[cl], CredentialsOf[cl])
  BY <1>0, <1>1, <1>2, <1>3, KeepsOK DEF AccessShape, ChangePcs
<1>5. /\ NoRow \in [level : Levels \cup {NoLevel}, id : Nat]
      /\ NoRow.id = 0 /\ NoRow.level = NoLevel
  BY <1>0 DEF NoRow
<1>6. /\ TablesOK' /\ InForce(s, c)' = NoLevel
      /\ \A t \in Subjects, d \in Places : <<t, d>> # <<s, c>> => Undisturbed(t, d)
  BY <1>0, <1>1, <1>2, <1>5, GrantWritten DEF AccessShape, TablesOK
<1>7. OtherPairs(cl) BY <1>0, <1>6 DEF OtherPairs, Pair
<1>8. Follows(cl)
  BY <1>0, <1>1, <1>3, <1>6, KeepsPair DEF Follows, Keeps, Says, Recorded, ChangePcs
<1> QED BY <1>0, <1>1, <1>3, <1>4, <1>6, <1>7, <1>8 DEF ChangeEffect, ChangePcs

LEMMA IssueInsertsEffect ==
    ASSUME AccessShape, NEW cl \in Clients, IssueInserts(cl)
    PROVE  ChangeEffect(cl)
<1>0. PICK s : s = request[cl].change.subject
  OBVIOUS
<1>1. /\ request[cl].pc = "writing" /\ request[cl].act = "issue"
      /\ UNCHANGED <<grant, told>> /\ UNCHANGED <<disputed, silent>>
  BY <1>0 DEF IssueInserts, Doing, Ghosts
<1>2. s \in Subjects /\ request[cl].change.connection = NoConnection
      /\ request[cl].change.connection # Missing
  BY <1>0, <1>1, WritesWhere
<1>3. CASE oversight[s] # 0
  <2>1. UNCHANGED <<grant, oversight, serial, told>> /\ AnswersWith(cl, "500")
    BY <1>0, <1>1, <1>3 DEF IssueInserts
  <2>2. Keeps(cl) /\ request'[cl].pc = "answered"
    BY <1>0, <2>1, AnswersKeeps DEF AccessShape
  <2>3. RequestOK(request'[cl], CredentialsOf[cl])
    BY <1>0, <1>1, <2>2, KeepsOK DEF AccessShape, ChangePcs
  <2>4. Says(cl) => Follows(cl)
    BY <1>0, <1>1, <2>1, <2>2, ReadsFollows DEF ChangePcs
  <2> QED BY <1>0, <1>1, <2>1, <2>2, <2>3, <2>4, UntouchedRows DEF ChangeEffect, AccessShape, ChangePcs
<1>4. CASE oversight[s] = 0
  <2>1. /\ serial' = serial + 1 /\ oversight' = [oversight EXCEPT ![s] = serial + 1]
        /\ Goes(cl, "recording")
    BY <1>0, <1>1, <1>4 DEF IssueInserts
  <2>2. serial' \in Nat /\ serial + 1 \in Nat /\ serial + 1 # 0
    BY <1>0, <2>1 DEF AccessShape, TablesOK
  <2>3. Keeps(cl) /\ request'[cl].pc = "recording"
    BY <1>0, <2>1, GoesKeeps DEF AccessShape
  <2>4. RequestOK(request'[cl], CredentialsOf[cl])
    BY <1>0, <1>1, <1>2, <2>3, KeepsOK DEF AccessShape, ChangePcs
  <2>5. /\ TablesOK' /\ InForce(s, NoConnection)' = "oversight"
        /\ \A t \in Subjects, d \in Places : <<t, d>> # <<s, NoConnection>> => Undisturbed(t, d)
    BY <1>0, <1>1, <1>2, <2>1, <2>2, OversightWritten DEF AccessShape
  <2>6. OtherPairs(cl) BY <1>0, <1>2, <2>5 DEF OtherPairs, Pair
  <2>7. Follows(cl)
    BY <1>0, <1>1, <1>2, <2>3, <2>5, KeepsPair DEF Follows, Keeps, Says, Recorded, ChangePcs
  <2> QED BY <1>0, <1>1, <2>3, <2>4, <2>5, <2>6, <2>7 DEF ChangeEffect, ChangePcs
<1> QED BY <1>0, <1>3, <1>4

LEMMA WithdrawDeletesEffect ==
    ASSUME AccessShape, NEW cl \in Clients, WithdrawDeletes(cl)
    PROVE  ChangeEffect(cl)
<1>0. PICK s : s = request[cl].change.subject
  OBVIOUS
<1>1. /\ request[cl].pc = "writing" /\ request[cl].act = "withdraw"
      /\ UNCHANGED <<grant, serial, told>> /\ UNCHANGED <<disputed, silent>>
      /\ Goes(cl, "recording")
      /\ oversight' = [oversight EXCEPT ![s] = 0]
  BY <1>0 DEF WithdrawDeletes, Doing, Ghosts
<1>2. s \in Subjects /\ request[cl].change.connection = NoConnection
      /\ request[cl].change.connection # Missing
  BY <1>0, <1>1, WritesWhere
<1>3. Keeps(cl) /\ request'[cl].pc = "recording"
  BY <1>0, <1>1, GoesKeeps DEF AccessShape
<1>4. RequestOK(request'[cl], CredentialsOf[cl])
  BY <1>0, <1>1, <1>2, <1>3, KeepsOK DEF AccessShape, ChangePcs
<1>5. /\ TablesOK' /\ InForce(s, NoConnection)' = NoLevel
      /\ \A t \in Subjects, d \in Places : <<t, d>> # <<s, NoConnection>> => Undisturbed(t, d)
  BY <1>0, <1>1, <1>2, OversightWritten DEF AccessShape, TablesOK
<1>6. OtherPairs(cl) BY <1>0, <1>2, <1>5 DEF OtherPairs, Pair
<1>7. Follows(cl)
  BY <1>0, <1>1, <1>2, <1>3, <1>5, KeepsPair DEF Follows, Keeps, Says, Recorded, ChangePcs
<1> QED BY <1>0, <1>1, <1>3, <1>4, <1>5, <1>6, <1>7 DEF ChangeEffect, ChangePcs

\* The audit row: what is told is what the change did.
LEMMA RecordsEffect ==
    ASSUME AccessShape, NEW cl \in Clients,
           GrantRecords(cl) \/ RevokeRecords(cl) \/ IssueRecords(cl)
    PROVE  ChangeEffect(cl)
<1>0. PICK s, c, level : /\ s = request[cl].change.subject
                         /\ c = request[cl].change.connection
                         /\ level = Recorded(request[cl])
  OBVIOUS
<1>1. /\ request[cl].pc = "recording"
      /\ request[cl].act \in {"grant", "change", "revoke", "withdraw", "issue"}
      /\ UNCHANGED <<grant, oversight, serial>> /\ UNCHANGED <<disputed, silent>>
      /\ Tells(s, c, level)
  BY <1>0 DEF Tells, GrantRecords, RevokeRecords, IssueRecords, Doing,
         Ghosts, Recorded
<1>2. s \in Subjects /\ c \in Places /\ c # Missing
      /\ level \in Levels \cup {NoLevel, "oversight"}
  BY <1>0, <1>1, WritesWhere DEF Recorded
<1>3. /\ Keeps(cl)
      /\ \/ request'[cl].pc = "answered"
         \/ request'[cl].pc = "returning" /\ request[cl].act \in {"grant", "change", "issue"}
  BY GoesKeeps, AnswersKeeps
  DEF GrantRecords, RevokeRecords, IssueRecords, Doing, AccessShape
<1>4. RequestOK(request'[cl], CredentialsOf[cl])
  BY <1>0, <1>1, <1>2, <1>3, KeepsOK DEF AccessShape, ChangePcs
<1>5. /\ TablesOK' /\ told'[s][c] = level /\ InForce(s, c)' = InForce(s, c)
      /\ \A t \in Subjects, d \in Places : <<t, d>> # <<s, c>> => Undisturbed(t, d)
  BY <1>0, <1>1, <1>2, ToldWritten DEF AccessShape
<1>6. OtherPairs(cl) BY <1>0, <1>5 DEF OtherPairs, Pair
<1>7. ASSUME Says(cl) PROVE Follows(cl)
  <2>1. InForce(s, c)' = level /\ told'[s][c] = level
    BY <1>0, <1>1, <1>2, <1>5, <1>7 DEF Says
  <2>2. CASE request'[cl].pc = "returning"
    <3>1. Says(cl)'
      BY <1>0, <1>3, <2>1, <2>2 DEF Says, Keeps
    <3> QED BY <1>3, <2>2, <3>1, KeepsPair DEF Follows, ChangePcs
  <2>3. CASE request'[cl].pc = "answered"
    <3>1. \A t, d : Pair(cl) = <<t, d>> => t = s /\ d = c
      BY <1>0 DEF Pair
    <3>2. Truthful(s, c)' BY <2>1 DEF Truthful
    <3> QED BY <2>3, <3>1, <3>2 DEF Follows, ChangePcs
  <2> QED BY <1>3, <2>2, <2>3
<1> QED BY <1>0, <1>1, <1>3, <1>4, <1>5, <1>6, <1>7 DEF ChangeEffect, ChangePcs

-----------------------------------------------------------------------------
\* A change begins.
LEMMA ServeChangeEffect ==
    ASSUME AccessShape, NEW cl \in Clients, ServeChange(cl)
    PROVE  /\ OnlyMoves(cl) /\ RequestOK(request'[cl], CredentialsOf[cl])
           /\ request[cl].pc = "known" /\ request'[cl].pc \in {"checking", "reading"}
           /\ UNCHANGED <<grant, oversight, serial, told>> /\ UNCHANGED silent
           /\ disputed \subseteq disputed'
           /\ \A o \in Clients \ {cl} :
                 /\ request[o].pc \in ChangePcs /\ Pair(o) = Pair(cl)'
                 /\ Pair(cl)' \in Subjects \X Places
                 => Pair(cl)' \in disputed'
<1> DEFINE busy(pair) == \E o \in Clients : Changing(o) /\ Pair(o) = pair
           r == request[cl]
<1>1. /\ request[cl].pc = "known"
      /\ UNCHANGED <<grant, oversight, serial, told>> /\ UNCHANGED silent
  BY DEF ServeChange, Tables
<1>2. PICK door, change :
        /\ door.act \in ChangeActs /\ change \in ChangesOf(door.act)
        /\ request' = [request EXCEPT
                         ![cl].pc = IF door.act = "change" THEN "checking" ELSE "reading",
                         ![cl].principal = Unset,
                         ![cl].act = door.act, ![cl].change = change]
        /\ disputed' = disputed \cup
             (IF busy(<<change.subject, change.connection>>)
              THEN {<<change.subject, change.connection>>} \cap (Subjects \X Places)
              ELSE {})
  BY DEF ServeChange
<1> DEFINE q == [r EXCEPT !.pc = IF door.act = "change" THEN "checking" ELSE "reading",
                          !.principal = Unset, !.act = door.act, !.change = change]
<1>3. request' = [request EXCEPT ![cl] = q]
  BY <1>2 DEF AccessShape, RequestsOK
<1>4. RequestOK(r, CredentialsOf[cl])
  BY DEF AccessShape, RequestsOK
<1>5. /\ q = [field \in RequestFields |-> q[field]]
      /\ q.pc = (IF door.act = "change" THEN "checking" ELSE "reading")
      /\ q.credential = r.credential /\ q.act = door.act /\ q.change = change
  BY <1>4 DEF RequestOK, RequestFields
<1>6. ChangeOK(q)
  <2>1. CASE door.act \in GrantActs
    BY <2>1, <1>2, <1>5 DEF ChangesOf, ChangeOK, ChangeActs, GrantActs,
       OversightActs
  <2>2. CASE door.act \in OversightActs
    BY <2>2, <1>2, <1>5 DEF ChangesOf, ChangeOK, ChangeActs, GrantActs,
       OversightActs
  <2> QED BY <1>2, <2>1, <2>2 DEF ChangeActs
<1> HIDE DEF q
<1>7. RequestOK(q, CredentialsOf[cl])
  BY <1>1, <1>4, <1>5, <1>6 DEF RequestOK
<1>8. OnlyMoves(cl) /\ request'[cl] = q BY <1>3, RowsOfSeat DEF AccessShape
<1>9. Pair(cl)' = <<change.subject, change.connection>>
  BY <1>5, <1>8 DEF Pair
<1>10. ASSUME NEW o \in Clients \ {cl}, request[o].pc \in ChangePcs,
              Pair(o) = Pair(cl)',
              Pair(cl)' \in Subjects \X Places
       PROVE  Pair(cl)' \in disputed'
  BY <1>2, <1>9, <1>10 DEF Changing, ChangePcs
<1> QED BY <1>1, <1>2, <1>5, <1>7, <1>8, <1>10

\* A change is lost with its process.
LEMMA LoseEffect ==
    ASSUME AccessShape, NEW cl \in Clients, Lose(cl)
    PROVE  /\ OnlyMoves(cl) /\ RequestOK(request'[cl], CredentialsOf[cl])
           /\ request[cl].pc \in ChangePcs /\ request'[cl].pc = "idle"
           /\ UNCHANGED <<grant, oversight, serial, told>> /\ UNCHANGED disputed
           /\ silent \subseteq silent'
           /\ request[cl].pc = "recording" => Pair(cl) \in silent'
<1>1. request' = [request EXCEPT ![cl] = NoRequest]
  BY DEF Lose
<1>2. RequestOK(NoRequest, CredentialsOf[cl]) /\ NoRequest.pc = "idle"
  BY DEF RequestOK, RequestFields, NoRequest
<1>3. OnlyMoves(cl) /\ request'[cl] = NoRequest BY <1>1, RowsOfSeat DEF AccessShape
<1> QED BY <1>2, <1>3 DEF Lose, Changing, ChangePcs, Tables

\* The steps of a change but its loss.
OfAChange(cl) ==
    \/ CheckHeld(cl) \/ GrantReads(cl) \/ GrantInserts(cl)
    \/ GrantUpdates(cl) \/ GrantRecords(cl) \/ GrantReturns(cl)
    \/ RevokeReads(cl) \/ RevokeDeletes(cl) \/ RevokeRecords(cl)
    \/ IssueReads(cl) \/ IssueInserts(cl) \/ IssueRecords(cl)
    \/ WithdrawDeletes(cl)

\* The steps of a request that changes nothing.
JustAsks(cl) ==
    \/ Arrive(cl) \/ ReadGrants(cl) \/ ReadOversight(cl)
    \/ ServeRequest(cl) \/ Finish(cl)

LEMMA AsksGoes ==
    ASSUME AccessShape, NEW cl \in Clients, JustAsks(cl)
    PROVE  request'[cl].pc \in {"idle", "arrived", "grants read", "known"}
<1>1. request[cl] = [field \in RequestFields |-> request[cl][field]] /\ DOMAIN request = Clients
  BY DEF AccessShape, RequestsOK, RequestOK
<1>2. CASE Arrive(cl)
  BY <1>1, <1>2 DEF Arrive, NoRequest
<1>3. CASE ReadGrants(cl)
  BY <1>1, <1>3 DEF ReadGrants, RequestFields
<1>4. CASE ReadOversight(cl)
  BY <1>1, <1>4 DEF ReadOversight, RequestFields
<1>5. CASE ServeRequest(cl) \/ Finish(cl)
  <2>1. request' = [request EXCEPT ![cl] = NoRequest]
    BY <1>5 DEF ServeRequest, Finish
  <2> QED BY <1>1, <2>1 DEF NoRequest
<1> QED BY <1>2, <1>3, <1>4, <1>5 DEF JustAsks

LEMMA StepsAre ==
    ASSUME AccessNext
    PROVE  \E cl \in Clients : JustAsks(cl) \/ OfAChange(cl) \/ ServeChange(cl)
                                  \/ Lose(cl)
<1>1. PICK cl \in Clients :
        \/ Arrive(cl) \/ ReadGrants(cl) \/ ReadOversight(cl)
        \/ ServeRequest(cl) \/ ServeChange(cl) \/ Finish(cl)
        \/ CheckHeld(cl) \/ GrantReads(cl) \/ GrantInserts(cl)
        \/ GrantUpdates(cl) \/ GrantRecords(cl) \/ GrantReturns(cl)
        \/ RevokeReads(cl) \/ RevokeDeletes(cl) \/ RevokeRecords(cl)
        \/ IssueReads(cl) \/ IssueInserts(cl) \/ IssueRecords(cl)
        \/ WithdrawDeletes(cl) \/ Lose(cl)
  BY Zenon DEF AccessNext
<1> QED BY <1>1, Zenon DEF JustAsks, OfAChange

LEMMA ChangesEffect ==
    ASSUME AccessShape, NEW cl \in Clients, OfAChange(cl)
    PROVE  ChangeEffect(cl)
BY CheckHeldEffect, GrantReadsEffect, GrantInsertsEffect, GrantUpdatesEffect, RecordsEffect,
   GrantReturnsEffect, RevokeReadsEffect, RevokeDeletesEffect, IssueReadsEffect,
   IssueInsertsEffect, WithdrawDeletesEffect DEF OfAChange

LEMMA AccessShapeNext ==
    ASSUME AccessShape, [AccessNext]_accessVars
    PROVE  AccessShape'
<1>1. CASE UNCHANGED accessVars
  BY <1>1 DEF accessVars, AccessShape, TablesOK, RequestsOK
<1>2. ASSUME NEW cl \in Clients,
             JustAsks(cl) \/ OfAChange(cl) \/ ServeChange(cl) \/ Lose(cl)
      PROVE  AccessShape'
  <2>1. OnlyMoves(cl) /\ RequestOK(request'[cl], CredentialsOf[cl])
    BY <1>2, ReadsShape, ChangesEffect, ServeChangeEffect, LoseEffect
    DEF JustAsks, ChangeEffect, Keeps
  <2>2. TablesOK'
    <3>1. CASE OfAChange(cl) BY <3>1, ChangesEffect DEF ChangeEffect
    <3>2. CASE JustAsks(cl) \/ ServeChange(cl) \/ Lose(cl)
      <4>1. UNCHANGED <<grant, oversight, serial, told>>
        BY <3>2, ReadsShape, ServeChangeEffect, LoseEffect DEF JustAsks
      <4> QED BY <4>1 DEF AccessShape, TablesOK
    <3> QED BY <1>2, <3>1, <3>2
  <2> QED BY <2>1, <2>2, RequestsMove DEF AccessShape
<1> QED BY <1>1, <1>2, StepsAre

\* Rows, and requests under way, are what they can be.
THEOREM AccessShapeHolds == AccessSpec => []AccessShape
BY AccessShapeInit, AccessShapeNext, PTL DEF AccessSpec

-----------------------------------------------------------------------------
(* The trail.  A pair is changed by one request at a time, unless it is in   *)
(* dispute; while it is, the request knows where row and trail stand, and    *)
(* while it is not they agree.                                               *)

Under(cl, s, c) == request[cl].pc \in ChangePcs /\ Pair(cl) = <<s, c>>

TrailAt(s, c) ==
    /\ \A a, b \in Clients : Under(a, s, c) /\ Under(b, s, c) => a = b
    /\ \A a \in Clients : Under(a, s, c) => Says(a)
    /\ (\A a \in Clients : ~Under(a, s, c)) => Truthful(s, c)

TrailInv ==
    \A s \in Subjects, c \in Places :
        <<s, c>> \notin disputed \cup silent => TrailAt(s, c)

LEMMA TrailInit == AccessInit => TrailInv
<1> SUFFICES ASSUME AccessInit, NEW s \in Subjects, NEW c \in Places
             PROVE  TrailAt(s, c)
  BY DEF TrailInv
<1>1. \A a \in Clients : ~Under(a, s, c)
  BY DEF AccessInit, Under, ChangePcs, NoRequest
<1>2. Truthful(s, c)
  BY ConnectionsAssumption DEF AccessInit, Truthful, InForce, NoRow, Places
<1> QED BY <1>1, <1>2 DEF TrailAt

\* Who does not move is about the same pair as before.
LEMMA OthersUnder ==
    ASSUME NEW cl \in Clients, OnlyMoves(cl), NEW o \in Clients \ {cl}, NEW s, NEW c
    PROVE  Under(o, s, c)' <=> Under(o, s, c)
BY DEF OnlyMoves, Under, Pair

\* A pair the step of another is not about.
LEMMA TrailApart ==
    ASSUME AccessShape, NEW cl \in Clients, OnlyMoves(cl), NEW s \in Subjects, NEW c \in Places,
           TrailAt(s, c), Undisturbed(s, c), ~Under(cl, s, c), ~Under(cl, s, c)'
    PROVE  TrailAt(s, c)'
<1>1. \A o \in Clients : Under(o, s, c)' <=> Under(o, s, c)
  BY OthersUnder
<1>2. \A o \in Clients : Under(o, s, c) => Says(o)'
  <2> SUFFICES ASSUME NEW o \in Clients, Under(o, s, c) PROVE Says(o)'
    OBVIOUS
  <2>1. /\ request'[o] = request[o] /\ Says(o)
        /\ s = request[o].change.subject /\ c = request[o].change.connection
    BY DEF OnlyMoves, TrailAt, Under, Pair
  <2>2. CASE c \in Connections BY <2>1, <2>2 DEF Says, Undisturbed, Recorded
  <2>3. CASE c \notin Connections
    <3>1. request[o].pc = "writing" => request[o].act \notin {"grant", "change"}
      BY <2>1, <2>3, WritesWhere
    <3> QED BY <2>1, <2>3, <3>1 DEF Says, Undisturbed, Recorded
  <2> QED BY <2>2, <2>3
<1>3. Truthful(s, c) => Truthful(s, c)'
  BY DEF Truthful, Undisturbed
<1> QED BY <1>1, <1>2, <1>3 DEF TrailAt


\* The pair of a change that goes on, or ends.
LEMMA TrailFollowed ==
    ASSUME NEW cl \in Clients, OnlyMoves(cl), NEW s \in Subjects, NEW c \in Places,
           TrailAt(s, c), Under(cl, s, c), Follows(cl)
    PROVE  TrailAt(s, c)'
<1>1. /\ s = request[cl].change.subject /\ c = request[cl].change.connection
      /\ Pair(cl) = <<s, c>>
  BY DEF Under, Pair
<1>2. \A o \in Clients \ {cl} : ~Under(o, s, c)'
  BY OthersUnder DEF TrailAt
<1>3. Under(cl, s, c)' => Says(cl)'
  BY DEF Follows, Under
<1>4. ~Under(cl, s, c)' => Truthful(s, c)'
  <2>1. CASE request'[cl].pc \in ChangePcs
    BY <2>1, <1>1 DEF Follows, Under
  <2>2. CASE request'[cl].pc \notin ChangePcs
    BY <2>2, <1>1 DEF Follows
  <2> QED BY <2>1, <2>2
<1>5. \A a, b \in Clients : Under(a, s, c)' /\ Under(b, s, c)' => a = b
  BY <1>2
<1>6. \A a \in Clients : Under(a, s, c)' => Says(a)'
  BY <1>2, <1>3
<1>7. (\A a \in Clients : ~Under(a, s, c)') => Truthful(s, c)'
  BY <1>4
<1> QED BY <1>5, <1>6, <1>7 DEF TrailAt

\* The pair of a change that begins while there is no other.
LEMMA TrailBegun ==
    ASSUME NEW cl \in Clients, OnlyMoves(cl), NEW s \in Subjects, NEW c \in Places,
           TrailAt(s, c), Undisturbed(s, c), ~Under(cl, s, c),
           Under(cl, s, c)', request'[cl].pc \in {"checking", "reading"},
           \A o \in Clients \ {cl} : ~Under(o, s, c)
    PROVE  TrailAt(s, c)'
<1>1. \A o \in Clients \ {cl} : ~Under(o, s, c)'
  BY OthersUnder
<1>2. Truthful(s, c)
  BY DEF TrailAt
<1>3. /\ s = request'[cl].change.subject /\ c = request'[cl].change.connection
  BY DEF Under, Pair
<1>4. Says(cl)'
  BY <1>2, <1>3 DEF Says, Truthful, Undisturbed
<1>5. \A a, b \in Clients : Under(a, s, c)' /\ Under(b, s, c)' => a = b
  BY <1>1
<1>6. \A a \in Clients : Under(a, s, c)' => Says(a)'
  BY <1>1, <1>4
<1>7. (\A a \in Clients : ~Under(a, s, c)') => Truthful(s, c)'
  OBVIOUS
<1> QED BY <1>5, <1>6, <1>7 DEF TrailAt

LEMMA TrailNext ==
    ASSUME AccessShape, TrailInv, [AccessNext]_accessVars
    PROVE  TrailInv'
<1>1. CASE UNCHANGED accessVars
  <2>1. UNCHANGED <<grant, oversight, told, request, disputed, silent>>
    BY <1>1 DEF accessVars
  <2>2. \A s, c : InForce(s, c)' = InForce(s, c) /\ Truthful(s, c)' = Truthful(s, c)
    BY <2>1 DEF InForce, Truthful
  <2>3. \A a : \A s, c : Under(a, s, c)' = Under(a, s, c)
    BY <2>1 DEF Under, Pair
  <2>4. \A a : Says(a)' = Says(a)
    BY <2>1, <2>2 DEF Says, Recorded
  <2>5. \A s, c : TrailAt(s, c)' = TrailAt(s, c)
    BY <2>2, <2>3, <2>4 DEF TrailAt
  <2> QED BY <2>1, <2>5 DEF TrailInv
<1>2. ASSUME NEW cl \in Clients,
             JustAsks(cl) \/ OfAChange(cl) \/ ServeChange(cl) \/ Lose(cl)
      PROVE  TrailInv'
  <2>1. OnlyMoves(cl) /\ disputed \subseteq disputed' /\ silent \subseteq silent'
    <3>1. CASE JustAsks(cl)
      BY <3>1, ReadsShape DEF JustAsks, Arrive, ReadGrants, ReadOversight,
         ServeRequest, Finish, Unmoved, Ghosts
    <3>2. CASE OfAChange(cl) \/ ServeChange(cl) \/ Lose(cl)
      BY <3>2, ChangesEffect, ServeChangeEffect, LoseEffect DEF ChangeEffect, Keeps
    <3> QED BY <1>2, <3>1, <3>2
  <2> SUFFICES ASSUME NEW s \in Subjects, NEW c \in Places,
                      <<s, c>> \notin disputed' \cup silent'
               PROVE  TrailAt(s, c)'
    BY DEF TrailInv
  <2>2. TrailAt(s, c)
    BY <2>1 DEF TrailInv
  <2>3. CASE JustAsks(cl)
    <3>1. /\ UNCHANGED <<grant, oversight, serial, told>>
          /\ ~Under(cl, s, c) /\ ~Under(cl, s, c)'
      <4>1. UNCHANGED <<grant, oversight, serial, told>>
        BY <2>3, ReadsShape DEF JustAsks
      <4>2. request[cl].pc \notin ChangePcs
        BY <2>3 DEF JustAsks, Arrive, ReadGrants, ReadOversight,
           ServeRequest, Finish, ChangePcs
      <4>3. request'[cl].pc \notin ChangePcs
        BY <2>3, AsksGoes DEF ChangePcs
      <4> QED BY <4>1, <4>2, <4>3 DEF Under
    <3>2. Undisturbed(s, c) BY <3>1 DEF Undisturbed, InForce
    <3> QED BY <2>1, <2>2, <3>1, <3>2, TrailApart
  <2>4. CASE OfAChange(cl)
    <3>1. ChangeEffect(cl) BY <2>4, ChangesEffect
    <3>2. CASE Under(cl, s, c)
      <4>1. Follows(cl) BY <3>1, <3>2, <2>2 DEF ChangeEffect, TrailAt
      <4> QED BY <4>1, <3>2, <2>1, <2>2, TrailFollowed
    <3>3. CASE ~Under(cl, s, c)
      <4>1. Pair(cl)' = Pair(cl) /\ request[cl].pc \in ChangePcs
        BY <3>1, KeepsPair DEF ChangeEffect
      <4>2. Pair(cl) # <<s, c>> BY <4>1, <3>3 DEF Under
      <4>3. Undisturbed(s, c) BY <3>1, <4>2 DEF ChangeEffect, OtherPairs
      <4>4. ~Under(cl, s, c)' BY <4>1, <4>2 DEF Under
      <4> QED BY <3>3, <4>3, <4>4, <2>1, <2>2, TrailApart
    <3> QED BY <3>2, <3>3
  <2>5. CASE ServeChange(cl)
    <3>1. /\ UNCHANGED <<grant, oversight, serial, told>>
          /\ ~Under(cl, s, c) /\ request'[cl].pc \in {"checking", "reading"}
      BY <2>5, ServeChangeEffect DEF Under, ChangePcs
    <3>2. Undisturbed(s, c) BY <3>1 DEF Undisturbed, InForce
    <3>3. CASE Under(cl, s, c)'
      <4>1. Pair(cl)' = <<s, c>> BY <3>3 DEF Under
      <4>2. \A o \in Clients \ {cl} : ~Under(o, s, c)
        BY <2>5, <4>1, ServeChangeEffect DEF Under
      <4> QED BY <2>1, <2>2, <3>1, <3>2, <3>3, <4>2, TrailBegun
    <3>4. CASE ~Under(cl, s, c)'
      BY <2>1, <2>2, <3>1, <3>2, <3>4, TrailApart
    <3> QED BY <3>3, <3>4
  <2>6. CASE Lose(cl)
    <3>1. /\ UNCHANGED <<grant, oversight, serial, told>>
          /\ ~Under(cl, s, c)' /\ request'[cl].pc \notin ChangePcs
          /\ Under(cl, s, c) => request[cl].pc # "recording"
      BY <2>6, LoseEffect DEF Under, ChangePcs
    <3>2. Undisturbed(s, c) BY <3>1 DEF Undisturbed, InForce
    <3>3. CASE Under(cl, s, c)
      <4>1. /\ Says(cl) /\ request[cl].change.subject = s
            /\ request[cl].change.connection = c
        BY <2>2, <3>3 DEF TrailAt, Under, Pair
      <4>2. Truthful(s, c)' BY <4>1, <3>1, <3>2, <3>3 DEF Says, Truthful, Undisturbed
      <4>3. Follows(cl)
        <5>1. \A t, d : Pair(cl) = <<t, d>> => t = s /\ d = c
          BY <3>3 DEF Under
        <5> QED BY <3>1, <4>2, <5>1 DEF Follows
      <4> QED BY <4>3, <3>3, <2>1, <2>2, TrailFollowed
    <3>4. CASE ~Under(cl, s, c)
      BY <2>1, <2>2, <3>1, <3>2, <3>4, TrailApart
    <3> QED BY <3>3, <3>4
  <2> QED BY <1>2, <2>3, <2>4, <2>5, <2>6
<1> QED BY <1>1, <1>2, StepsAre

\* The last audit row about a pair says the level in force, however grants,
\* changes, revocations and lost processes of other pairs interleave
\* (access.py, Grants).
THEOREM TrailSaysLevelInForceHolds == AccessSpec => []TrailSaysLevelInForce
<1>1. AccessShape /\ TrailInv => TrailSaysLevelInForce
  BY DEF TrailInv, TrailAt, Truthful, Under, TrailSaysLevelInForce, Changing,
         ChangePcs
<1> QED BY <1>1, TrailInit, TrailNext, AccessShapeHolds, PTL DEF AccessSpec

-----------------------------------------------------------------------------
(* The doors.                                                              *)

CheckKinds == {"asks", "asks on", "administrator", "loads", "form"}

\* The scopes no level and no oversight carries.
OwnersScopes == {"connections:write", "webhooks:manage"}

Shields(check) == \/ check.is = "asks on"
                  \/ check.is = "asks" /\ check.scope \in OwnersScopes

\* A row is loaded behind a check its caller fails, or one it fails comes next.
Discreet(checks) ==
    \A i \in DOMAIN checks : checks[i].is = "loads" =>
        \/ \E j \in DOMAIN checks : j < i /\ Shields(checks[j])
        \/ i + 1 \in DOMAIN checks /\ checks[i + 1].is = "asks on"

ChecksOf(checks) == {checks[i] : i \in DOMAIN checks}

AsksFor(asked, kinds, scopes) == \E check \in asked : check.is \in kinds /\ check.scope \in scopes

ViewersScopes == ReadScopes \ {"webhooks:read"}

OperatorsScopes == {"payments:submit", "orders:replay", "schedules:manage"}

\* What each act takes of the checks before it.
Enough(act, asked) ==
    CASE act \in {"list", "overview", "see own"}   -> TRUE
      [] act = "see"                               -> AsksFor(asked, {"asks on"}, ViewersScopes)
      [] act = "see endpoint"                      -> AsksFor(asked, {"asks on"}, {"webhooks:read"})
      [] act \in {"pay", "decide", "schedule"}     -> AsksFor(asked, {"asks on"}, OperatorsScopes)
      [] OTHER -> \/ \E check \in asked : check.is = "administrator"
                  \/ AsksFor(asked, {"asks", "asks on"}, OwnersScopes)

WellMade(door) ==
    /\ DOMAIN door.checks \subseteq Nat
    /\ \A check \in ChecksOf(door.checks) : check.is \in CheckKinds
    /\ Discreet(door.checks)
    /\ Enough(door.act, ChecksOf(door.checks))

LEMMA KindsOf ==
    /\ \A s : Asks(s).is = "asks" /\ Asks(s).scope = s
    /\ \A s : AsksOn(s).is = "asks on" /\ AsksOn(s).scope = s
    /\ Administrator.is = "administrator"
    /\ Loads.is = "loads"
    /\ Form.is = "form"
BY DEF Asks, AsksOn, Administrator, Loads, Form

LEMMA WellMadeIs ==
    ASSUME NEW what, NEW act, NEW checks, DOMAIN checks \subseteq Nat,
           \A check \in ChecksOf(checks) : check.is \in CheckKinds, Discreet(checks),
           Enough(act, ChecksOf(checks))
    PROVE  WellMade(Door(what, checks, act))
<1>1. Door(what, checks, act).checks = checks /\ Door(what, checks, act).act = act
  BY DEF Door
<1> QED BY <1>1 DEF WellMade

LEMMA TuplesAre ==
    /\ DOMAIN <<>> = {}
    /\ \A a : DOMAIN <<a>> = 1..1 /\ <<a>>[1] = a
    /\ \A a, b : DOMAIN <<a, b>> = 1..2 /\ <<a, b>>[1] = a /\ <<a, b>>[2] = b
    /\ \A a, b, c : /\ DOMAIN <<a, b, c>> = 1..3
                    /\ <<a, b, c>>[1] = a /\ <<a, b, c>>[2] = b /\ <<a, b, c>>[3] = c
    /\ \A a, b, c, d : /\ DOMAIN <<a, b, c, d>> = 1..4
                       /\ <<a, b, c, d>>[1] = a /\ <<a, b, c, d>>[2] = b
                       /\ <<a, b, c, d>>[3] = c /\ <<a, b, c, d>>[4] = d
<1>1. DOMAIN <<>> = {} OBVIOUS
<1>2. \A a : DOMAIN <<a>> = 1..1 /\ <<a>>[1] = a OBVIOUS
<1>3. \A a, b : DOMAIN <<a, b>> = 1..2 /\ <<a, b>>[1] = a /\ <<a, b>>[2] = b OBVIOUS
<1>4. \A a, b, c : /\ DOMAIN <<a, b, c>> = 1..3
                   /\ <<a, b, c>>[1] = a /\ <<a, b, c>>[2] = b /\ <<a, b, c>>[3] = c
  OBVIOUS
<1>5. \A a, b, c, d : /\ DOMAIN <<a, b, c, d>> = 1..4
                      /\ <<a, b, c, d>>[1] = a /\ <<a, b, c, d>>[2] = b
                      /\ <<a, b, c, d>>[3] = c /\ <<a, b, c, d>>[4] = d
  OBVIOUS
<1> QED BY <1>1, <1>2, <1>3, <1>4, <1>5

LEMMA TwoAre ==
    ASSUME NEW a, NEW b, NEW q, q = <<a, b>>
    PROVE  DOMAIN q = {1, 2} /\ q[1] = a /\ q[2] = b
BY TuplesAre

LEMMA ThreeAre ==
    ASSUME NEW a, NEW b, NEW c, NEW q, q = <<a, b, c>>
    PROVE  DOMAIN q = {1, 2, 3} /\ q[1] = a /\ q[2] = b /\ q[3] = c
<1>1. DOMAIN q = 1..3 /\ q[1] = a /\ q[2] = b /\ q[3] = c BY TuplesAre
<1>2. 1..3 = {1, 2, 3} OBVIOUS
<1> QED BY <1>1, <1>2

LEMMA FourAre ==
    ASSUME NEW a, NEW b, NEW c, NEW d, NEW q, q = <<a, b, c, d>>
    PROVE  DOMAIN q = {1, 2, 3, 4} /\ q[1] = a /\ q[2] = b /\ q[3] = c /\ q[4] = d
<1>1. DOMAIN q = 1..4 /\ q[1] = a /\ q[2] = b /\ q[3] = c /\ q[4] = d BY TuplesAre
<1>2. 1..4 = {1, 2, 3, 4} OBVIOUS
<1> QED BY <1>1, <1>2

LEMMA NoneWell ==
    ASSUME NEW what, NEW act \in {"list", "overview", "see own"}
    PROVE  WellMade(Door(what, <<>>, act))
<1>1. DOMAIN <<>> = {} BY TuplesAre
<1>2. ChecksOf(<<>>) = {} /\ Discreet(<<>>) BY <1>1 DEF ChecksOf, Discreet
<1>3. Enough(act, {}) BY DEF Enough
<1> QED BY <1>1, <1>2, <1>3, WellMadeIs

LEMMA OneWell ==
    ASSUME NEW what, NEW act, NEW a, a.is \in CheckKinds \ {"loads"}, Enough(act, {a})
    PROVE  WellMade(Door(what, <<a>>, act))
<1>1. PICK q : q = <<a>> OBVIOUS
<1>2. DOMAIN q = {1} /\ q[1] = a BY <1>1, TuplesAre
<1>3. ChecksOf(q) = {a} BY <1>2 DEF ChecksOf
<1>4. Discreet(q) BY <1>2 DEF Discreet
<1> QED BY <1>1, <1>2, <1>3, <1>4, WellMadeIs

\* The checks of a door in the order it makes them.
TwoSuit(a, b) ==
    /\ a.is \in CheckKinds \ {"loads"} /\ b.is \in CheckKinds
    /\ b.is = "loads" => Shields(a)

ThreeSuit(a, b, c) ==
    /\ a.is \in CheckKinds \ {"loads"} /\ b.is \in CheckKinds /\ c.is \in CheckKinds
    /\ b.is = "loads" => Shields(a) \/ c.is = "asks on"
    /\ c.is = "loads" => Shields(a) \/ Shields(b)

FourSuit(a, b, c, d) ==
    /\ a.is \in CheckKinds \ {"loads"} /\ b.is \in CheckKinds /\ c.is \in CheckKinds
    /\ d.is \in CheckKinds
    /\ b.is = "loads" => Shields(a) \/ c.is = "asks on"
    /\ c.is = "loads" => Shields(a) \/ Shields(b) \/ d.is = "asks on"
    /\ d.is = "loads" => Shields(a) \/ Shields(b) \/ Shields(c)

LEMMA TwoWell ==
    ASSUME NEW what, NEW act, NEW a, NEW b,
           TwoSuit(a, b), Enough(act, {a, b})
    PROVE  WellMade(Door(what, <<a, b>>, act))
<1>1. PICK q : q = <<a, b>> OBVIOUS
<1>2. DOMAIN q = {1, 2} /\ q[1] = a /\ q[2] = b BY <1>1, TwoAre
<1>3. ChecksOf(q) = {a, b} BY <1>2 DEF ChecksOf
<1>4. Discreet(q)
  <2> SUFFICES ASSUME NEW i \in DOMAIN q, q[i].is = "loads"
               PROVE  \/ \E j \in DOMAIN q : j < i /\ Shields(q[j])
                      \/ i + 1 \in DOMAIN q /\ q[i + 1].is = "asks on"
    BY DEF Discreet
  <2>1. CASE i = 1 BY <2>1, <1>2 DEF TwoSuit
  <2>2. CASE i = 2 BY <2>2, <1>2 DEF TwoSuit
  <2> QED BY <1>2, <2>1, <2>2
<1>5. DOMAIN q \subseteq Nat BY <1>2
<1>6. \A check \in ChecksOf(q) : check.is \in CheckKinds BY <1>3 DEF TwoSuit
<1>7. WellMade(Door(what, q, act)) BY <1>3, <1>4, <1>5, <1>6, WellMadeIs
<1> QED BY <1>1, <1>7

LEMMA ThreeWell ==
    ASSUME NEW what, NEW act, NEW a, NEW b, NEW c,
           ThreeSuit(a, b, c), Enough(act, {a, b, c})
    PROVE  WellMade(Door(what, <<a, b, c>>, act))
<1>1. PICK q : q = <<a, b, c>> OBVIOUS
<1>2. DOMAIN q = {1, 2, 3} /\ q[1] = a /\ q[2] = b /\ q[3] = c BY <1>1, ThreeAre
<1>3. ChecksOf(q) = {a, b, c} BY <1>2 DEF ChecksOf
<1>4. Discreet(q)
  <2> SUFFICES ASSUME NEW i \in DOMAIN q, q[i].is = "loads"
               PROVE  \/ \E j \in DOMAIN q : j < i /\ Shields(q[j])
                      \/ i + 1 \in DOMAIN q /\ q[i + 1].is = "asks on"
    BY DEF Discreet
  <2>1. CASE i = 1 BY <2>1, <1>2 DEF ThreeSuit
  <2>2. CASE i = 2
    <3>1. Shields(q[1]) \/ q[3].is = "asks on" BY <2>2, <1>2 DEF ThreeSuit
    <3>2. 1 \in DOMAIN q /\ i + 1 = 3 /\ 3 \in DOMAIN q /\ 1 < i BY <2>2, <1>2
    <3> QED BY <3>1, <3>2
  <2>3. CASE i = 3
    <3>1. Shields(q[1]) \/ Shields(q[2]) BY <2>3, <1>2 DEF ThreeSuit
    <3>2. 1 \in DOMAIN q /\ 2 \in DOMAIN q /\ 1 < i /\ 2 < i BY <2>3, <1>2
    <3> QED BY <3>1, <3>2
  <2> QED BY <1>2, <2>1, <2>2, <2>3
<1>5. DOMAIN q \subseteq Nat BY <1>2
<1>6. \A check \in ChecksOf(q) : check.is \in CheckKinds BY <1>3 DEF ThreeSuit
<1>7. WellMade(Door(what, q, act)) BY <1>3, <1>4, <1>5, <1>6, WellMadeIs
<1> QED BY <1>1, <1>7

LEMMA FourWell ==
    ASSUME NEW what, NEW act, NEW a, NEW b, NEW c, NEW d,
           FourSuit(a, b, c, d), Enough(act, {a, b, c, d})
    PROVE  WellMade(Door(what, <<a, b, c, d>>, act))
<1>1. PICK q : q = <<a, b, c, d>> OBVIOUS
<1>2. DOMAIN q = {1, 2, 3, 4} /\ q[1] = a /\ q[2] = b /\ q[3] = c /\ q[4] = d BY <1>1, FourAre
<1>3. ChecksOf(q) = {a, b, c, d} BY <1>2 DEF ChecksOf
<1>4. Discreet(q)
  <2> SUFFICES ASSUME NEW i \in DOMAIN q, q[i].is = "loads"
               PROVE  \/ \E j \in DOMAIN q : j < i /\ Shields(q[j])
                      \/ i + 1 \in DOMAIN q /\ q[i + 1].is = "asks on"
    BY DEF Discreet
  <2>1. CASE i = 1 BY <2>1, <1>2 DEF FourSuit
  <2>2. CASE i = 2
    <3>1. Shields(q[1]) \/ q[3].is = "asks on" BY <2>2, <1>2 DEF FourSuit
    <3>2. 1 \in DOMAIN q /\ i + 1 = 3 /\ 3 \in DOMAIN q /\ 1 < i BY <2>2, <1>2
    <3> QED BY <3>1, <3>2
  <2>3. CASE i = 3
    <3>1. Shields(q[1]) \/ Shields(q[2]) \/ q[4].is = "asks on" BY <2>3, <1>2 DEF FourSuit
    <3>2. 1 \in DOMAIN q /\ 2 \in DOMAIN q /\ i + 1 = 4 /\ 4 \in DOMAIN q /\ 1 < i /\ 2 < i
      BY <2>3, <1>2
    <3> QED BY <3>1, <3>2
  <2>4. CASE i = 4
    <3>1. Shields(q[1]) \/ Shields(q[2]) \/ Shields(q[3]) BY <2>4, <1>2 DEF FourSuit
    <3>2. /\ 1 \in DOMAIN q /\ 2 \in DOMAIN q /\ 3 \in DOMAIN q
          /\ 1 < i /\ 2 < i /\ 3 < i
      BY <2>4, <1>2
    <3> QED BY <3>1, <3>2
  <2> QED BY <1>2, <2>1, <2>2, <2>3, <2>4
<1>5. DOMAIN q \subseteq Nat BY <1>2
<1>6. \A check \in ChecksOf(q) : check.is \in CheckKinds BY <1>3 DEF FourSuit
<1>7. WellMade(Door(what, q, act)) BY <1>3, <1>4, <1>5, <1>6, WellMadeIs
<1> QED BY <1>1, <1>7

LEMMA EnoughMore ==
    ASSUME NEW act, NEW asked, NEW more, asked \subseteq more, Enough(act, asked)
    PROVE  Enough(act, more)
BY DEF Enough, AsksFor

\* What asks of the connection suits any order the code has of it.
LEMMA AsksOnWell ==
    ASSUME NEW what, NEW s, NEW act, Enough(act, {AsksOn(s)})
    PROVE  /\ WellMade(Door(what, <<AsksOn(s), Loads>>, act))
           /\ WellMade(Door(what, <<AsksOn(s), Form, Loads>>, act))
           /\ WellMade(Door(what, <<AsksOn(s), Loads, Form>>, act))
           /\ WellMade(Door(what, <<Asks(s), Loads, AsksOn(s)>>, act))
           /\ WellMade(Door(what, <<Asks(s), Form, AsksOn(s)>>, act))
           /\ WellMade(Door(what, <<Asks(s), Form, AsksOn(s),
                                           Loads>>, act))
           /\ WellMade(Door(what, <<Asks(s), Form, Loads,
                                           AsksOn(s)>>, act))
           /\ WellMade(Door(what, <<Asks(s), Loads, AsksOn(s),
                                           Form>>, act))
<1>0. /\ Asks(s).is = "asks" /\ AsksOn(s).is = "asks on"
      /\ Loads.is = "loads" /\ Form.is = "form"
  BY KindsOf
<1> DEFINE a == Asks(s)
           o == AsksOn(s)
           l == Loads
           f == Form
<1> HIDE DEF a, o, l, f
<1>01. a.is = "asks" /\ o.is = "asks on" /\ l.is = "loads" /\ f.is = "form" /\ Enough(act, {o})
  BY <1>0 DEF a, o, l, f
<1>02. Shields(o) BY <1>01 DEF Shields
<1>03. ASSUME NEW more, o \in more PROVE Enough(act, more)
  <2>1. {o} \subseteq more BY <1>03
  <2> QED BY <1>01, <2>1, EnoughMore
<1>1. TwoSuit(o, l)
  BY <1>01, <1>02 DEF TwoSuit, CheckKinds
<1>2. ThreeSuit(o, f, l)
  BY <1>01, <1>02 DEF ThreeSuit, CheckKinds
<1>3. ThreeSuit(o, l, f)
  BY <1>01, <1>02 DEF ThreeSuit, CheckKinds
<1>4. ThreeSuit(a, l, o)
  BY <1>01, <1>02 DEF ThreeSuit, CheckKinds
<1>5. ThreeSuit(a, f, o)
  BY <1>01, <1>02 DEF ThreeSuit, CheckKinds
<1>6. FourSuit(a, f, o, l)
  BY <1>01, <1>02 DEF FourSuit, CheckKinds
<1>7. FourSuit(a, f, l, o)
  BY <1>01, <1>02 DEF FourSuit, CheckKinds
<1>8. FourSuit(a, l, o, f)
  BY <1>01, <1>02 DEF FourSuit, CheckKinds
<1>9. /\ WellMade(Door(what, <<o, l>>, act))
      /\ WellMade(Door(what, <<o, f, l>>, act))
      /\ WellMade(Door(what, <<o, l, f>>, act))
      /\ WellMade(Door(what, <<a, l, o>>, act))
      /\ WellMade(Door(what, <<a, f, o>>, act))
  BY <1>1, <1>2, <1>3, <1>4, <1>5, <1>03, TwoWell, ThreeWell
<1>10. /\ WellMade(Door(what, <<a, f, o, l>>, act))
       /\ WellMade(Door(what, <<a, f, l, o>>, act))
       /\ WellMade(Door(what, <<a, l, o, f>>, act))
  BY <1>6, <1>7, <1>8, <1>03, FourWell
<1> QED BY <1>9, <1>10 DEF a, o, l, f

\* What asks for a scope anywhere loads nothing, or asks for an owner's.
LEMMA AsksWell ==
    ASSUME NEW what, NEW s, NEW act, Enough(act, {Asks(s)})
    PROVE  /\ WellMade(Door(what, <<Asks(s)>>, act))
           /\ WellMade(Door(what, <<Asks(s), Form>>, act))
           /\ s \in OwnersScopes =>
                 WellMade(Door(what, <<Asks(s), Form, Loads>>, act))
<1> DEFINE a == Asks(s)
           l == Loads
           f == Form
<1>1. /\ a.is = "asks" /\ a.scope = s /\ l.is = "loads" /\ f.is = "form"
      /\ Enough(act, {a})
  BY KindsOf
<1> HIDE DEF a, l, f
<1>2. TwoSuit(a, f) /\ Enough(act, {a, f})
  BY <1>1, EnoughMore DEF TwoSuit, CheckKinds
<1>3. s \in OwnersScopes => ThreeSuit(a, f, l) /\ Enough(act, {a, f, l})
  BY <1>1, EnoughMore DEF ThreeSuit, CheckKinds, Shields
<1>4. a.is \in CheckKinds \ {"loads"} BY <1>1 DEF CheckKinds
<1>5. /\ WellMade(Door(what, <<a>>, act))
      /\ WellMade(Door(what, <<a, f>>, act))
      /\ s \in OwnersScopes => WellMade(Door(what, <<a, f, l>>, act))
  BY <1>1, <1>2, <1>3, <1>4, OneWell, TwoWell, ThreeWell
<1> QED BY <1>5 DEF a, l, f

\* The administrator guard, before the form or after it.
LEMMA AdministratorWell ==
    ASSUME NEW what, NEW act, Enough(act, {Administrator})
    PROVE  /\ WellMade(Door(what, <<Administrator>>, act))
           /\ WellMade(Door(what, <<Administrator, Form>>, act))
           /\ WellMade(Door(what, <<Form, Administrator>>, act))
<1> DEFINE a == Administrator
           f == Form
<1>1. a.is = "administrator" /\ f.is = "form" /\ Enough(act, {a})
  BY KindsOf
<1> HIDE DEF a, f
<1>2. TwoSuit(a, f) /\ TwoSuit(f, a) /\ Enough(act, {a, f}) /\ Enough(act, {f, a})
  BY <1>1, EnoughMore DEF TwoSuit, CheckKinds
<1>3. a.is \in CheckKinds \ {"loads"} BY <1>1 DEF CheckKinds
<1>4. /\ WellMade(Door(what, <<a>>, act))
      /\ WellMade(Door(what, <<a, f>>, act))
      /\ WellMade(Door(what, <<f, a>>, act))
  BY <1>1, <1>2, <1>3, OneWell, TwoWell
<1> QED BY <1>4 DEF a, f

LEMMA EnoughAre ==
    /\ \A k : Enough("list", k) /\ Enough("overview", k) /\ Enough("see own", k)
    /\ \A s \in ViewersScopes : Enough("see", {AsksOn(s)})
    /\ Enough("see endpoint", {AsksOn("webhooks:read")})
    /\ \A s \in OperatorsScopes, act \in {"pay", "decide", "schedule"} :
          Enough(act, {AsksOn(s)})
    /\ \A s \in OwnersScopes : /\ Enough("deploy", {Asks(s)})
                               /\ Enough("deploy", {AsksOn(s)})
    /\ \A act \in {"see people", "account"} \cup ChangeActs :
          Enough(act, {Administrator})
<1>1. \A k : Enough("list", k) /\ Enough("overview", k) /\ Enough("see own", k)
  BY DEF Enough
<1>2. \A s \in ViewersScopes : Enough("see", {AsksOn(s)})
  BY KindsOf DEF Enough, AsksFor
<1>3. Enough("see endpoint", {AsksOn("webhooks:read")})
  BY KindsOf DEF Enough, AsksFor
<1>4. \A s \in OperatorsScopes, act \in {"pay", "decide", "schedule"} :
         Enough(act, {AsksOn(s)})
  BY KindsOf DEF Enough, AsksFor
<1>5. \A s \in OwnersScopes : /\ Enough("deploy", {Asks(s)})
                              /\ Enough("deploy", {AsksOn(s)})
  BY KindsOf DEF Enough, AsksFor
<1>6. \A act \in {"see people", "account"} \cup ChangeActs :
         Enough(act, {Administrator})
  BY KindsOf DEF Enough, ChangeActs, GrantActs, OversightActs
<1> QED BY <1>1, <1>2, <1>3, <1>4, <1>5, <1>6

LEMMA ConcatsAre ==
    /\ \A a, b, c : <<a>> \o <<b, c>> = <<a, b, c>>
    /\ \A a, b, c, d : <<a, b>> \o <<c, d>> = <<a, b, c, d>>
<1>1. ASSUME NEW a, NEW b, NEW c PROVE <<a>> \o <<b, c>> = <<a, b, c>>
  <2> DEFINE S == {a, b, c}
  <2>1. <<a>> \in Seq(S) /\ <<b, c>> \in Seq(S) /\ <<a, b, c>> \in Seq(S)
    OBVIOUS
  <2>2. Len(<<a>>) = 1 /\ Len(<<b, c>>) = 2 /\ Len(<<a, b, c>>) = 3
    OBVIOUS
  <2>3. <<a>>[1] = a /\ <<b, c>>[1] = b /\ <<b, c>>[2] = c
    BY TuplesAre
  <2>4. <<a, b, c>>[1] = a /\ <<a, b, c>>[2] = b /\ <<a, b, c>>[3] = c
    BY TuplesAre
  <2> DEFINE q == <<a>> \o <<b, c>>
  <2> HIDE DEF S
  <2>5. /\ q \in Seq(S) /\ Len(q) = 3
        /\ \A i \in 1..3 : q[i] = IF i <= 1 THEN <<a>>[i] ELSE <<b, c>>[i - 1]
    BY <2>1, <2>2, ConcatProperties
  <2> HIDE DEF q
  <2>6. q[1] = a /\ q[2] = b /\ q[3] = c BY <2>3, <2>5
  <2>7. \A i \in 1..Len(q) : q[i] = <<a, b, c>>[i]
    BY <2>4, <2>5, <2>6
  <2>8. q = <<a, b, c>> BY <2>1, <2>2, <2>5, <2>7, SeqEqual
  <2> QED BY <2>8 DEF q
<1>2. ASSUME NEW a, NEW b, NEW c, NEW d PROVE <<a, b>> \o <<c, d>> = <<a, b, c, d>>
  <2> DEFINE S == {a, b, c, d}
  <2>1. <<a, b>> \in Seq(S) /\ <<c, d>> \in Seq(S) /\ <<a, b, c, d>> \in Seq(S)
    OBVIOUS
  <2>2. Len(<<a, b>>) = 2 /\ Len(<<c, d>>) = 2 /\ Len(<<a, b, c, d>>) = 4
    OBVIOUS
  <2>3. <<a, b>>[1] = a /\ <<a, b>>[2] = b /\ <<c, d>>[1] = c /\ <<c, d>>[2] = d
    BY TuplesAre
  <2>4. /\ <<a, b, c, d>>[1] = a /\ <<a, b, c, d>>[2] = b
        /\ <<a, b, c, d>>[3] = c /\ <<a, b, c, d>>[4] = d
    BY TuplesAre
  <2> DEFINE q == <<a, b>> \o <<c, d>>
  <2> HIDE DEF S
  <2>5. /\ q \in Seq(S) /\ Len(q) = 4
        /\ \A i \in 1..4 : q[i] = IF i <= 2 THEN <<a, b>>[i] ELSE <<c, d>>[i - 2]
    BY <2>1, <2>2, ConcatProperties
  <2> HIDE DEF q
  <2>6. q[1] = a /\ q[2] = b /\ q[3] = c /\ q[4] = d BY <2>3, <2>5
  <2>7. \A i \in 1..Len(q) : q[i] = <<a, b, c, d>>[i]
    BY <2>4, <2>5, <2>6
  <2>8. q = <<a, b, c, d>> BY <2>1, <2>2, <2>5, <2>7, SeqEqual
  <2> QED BY <2>8 DEF q
<1> QED BY <1>1, <1>2


LEMMA HeldWell ==
    ASSUME NEW what, NEW s, NEW act, Enough(act, {AsksOn(s)})
    PROVE  /\ WellMade(Door(what, <<Asks(s)>>
                                           \o <<Loads, AsksOn(s)>>, act))
           /\ WellMade(Door(what, <<Asks(s), Form>>
                                           \o <<Loads, AsksOn(s)>>, act))
<1>1. /\ <<Asks(s)>> \o <<Loads, AsksOn(s)>>
            = <<Asks(s), Loads, AsksOn(s)>>
      /\ <<Asks(s), Form>> \o <<Loads, AsksOn(s)>>
            = <<Asks(s), Form, Loads, AsksOn(s)>>
  BY ConcatsAre
<1>2. /\ WellMade(Door(what, <<Asks(s), Loads, AsksOn(s)>>, act))
      /\ WellMade(Door(what, <<Asks(s), Form, Loads,
                                      AsksOn(s)>>, act))
  BY AsksOnWell
<1> QED BY <1>1, <1>2

-----------------------------------------------------------------------------
\* Every door of the service is well made.
LEMMA DoorsWell == \A door \in EveryDoor : WellMade(door)
<1>1. \A door \in ApiPayments : WellMade(door)
  BY AsksOnWell, EnoughAre DEF ApiPayments, RowDoor, ViewersScopes,
     ReadScopes, OperatorsScopes
<1>2. \A door \in ApiConnections : WellMade(door)
  BY NoneWell, AsksWell, EnoughAre DEF ApiConnections, OwnersScopes
<1>3. \A door \in ApiAudit : WellMade(door)
  BY AsksWell, EnoughAre DEF ApiAudit
<1>4. \A door \in ApiWebhooks : WellMade(door)
  BY AsksOnWell, AsksWell, EnoughAre DEF ApiWebhooks, RowDoor,
     ViewersScopes, ReadScopes, OwnersScopes
<1>5. \A door \in ApiWebhookChanges : WellMade(door)
  BY EnoughAre, HeldWell DEF ApiWebhookChanges, HeldSubscription,
     ViewersScopes, ReadScopes, OwnersScopes
<1>6. \A door \in ApiSchedules : WellMade(door)
  BY AsksOnWell, AsksWell, EnoughAre DEF ApiSchedules, ViewersScopes,
     ReadScopes, OperatorsScopes
<1>7. \A door \in ApiScheduleChanges : WellMade(door)
  BY EnoughAre, HeldWell DEF ApiScheduleChanges, HeldSchedule,
     ViewersScopes, ReadScopes, OperatorsScopes
<1>8. \A door \in ApiGrants : WellMade(door)
  BY AdministratorWell, EnoughAre DEF ApiGrants, ChangeActs,
     GrantActs, OversightActs
<1>9. \A door \in ApiOversight : WellMade(door)
  BY AdministratorWell, EnoughAre DEF ApiOversight, ChangeActs,
     GrantActs, OversightActs
<1>10. \A door \in ApiAccounts : WellMade(door)
  BY AdministratorWell, EnoughAre DEF ApiAccounts
<1>11. \A door \in ConsoleConnections : WellMade(door)
  BY NoneWell, AsksOnWell, AsksWell, EnoughAre DEF ConsoleConnections,
     ViewersScopes, ReadScopes, OwnersScopes
<1>12. \A door \in ConsoleKeys : WellMade(door)
  BY AsksOnWell, EnoughAre DEF ConsoleKeys, ViewersScopes, ReadScopes,
     OwnersScopes
<1>13. \A door \in ConsoleRecovery : WellMade(door)
  BY NoneWell, AsksOnWell, AsksWell, EnoughAre DEF ConsoleRecovery,
     ViewersScopes, ReadScopes, OwnersScopes
<1>14. \A door \in ConsoleOrders : WellMade(door)
  BY AsksOnWell, AsksWell, EnoughAre DEF ConsoleOrders, RowDoor,
     ViewersScopes, ReadScopes, OperatorsScopes
<1>15. \A door \in ConsoleReplay : WellMade(door)
  BY AsksOnWell, EnoughAre DEF ConsoleReplay, OperatorsScopes
<1>16. \A door \in ConsoleStatement : WellMade(door)
  BY AsksOnWell, EnoughAre DEF ConsoleStatement, RowDoor, ViewersScopes,
     ReadScopes
<1>17. \A door \in ConsoleSchedules : WellMade(door)
  BY AsksOnWell, AsksWell, EnoughAre DEF ConsoleSchedules, RowDoor,
     ViewersScopes, ReadScopes, OperatorsScopes
<1>18. \A door \in ConsoleScheduleActions : WellMade(door)
  BY AsksOnWell, EnoughAre DEF ConsoleScheduleActions, OperatorsScopes
<1>19. \A door \in ConsoleWebhooks : WellMade(door)
  BY AsksOnWell, AsksWell, EnoughAre DEF ConsoleWebhooks, RowDoor,
     ViewersScopes, ReadScopes, OwnersScopes
<1>20. \A door \in ConsoleWebhookActions : WellMade(door)
  BY AsksOnWell, EnoughAre DEF ConsoleWebhookActions, OwnersScopes
<1>21. \A door \in ConsoleDeliveries : WellMade(door)
  BY AsksOnWell, EnoughAre DEF ConsoleDeliveries, RowDoor, OwnersScopes
<1>22. \A door \in ConsoleReturns : WellMade(door)
  BY AsksOnWell, EnoughAre DEF ConsoleReturns, OperatorsScopes
<1>23. \A door \in ConsoleStatements : WellMade(door)
  BY AsksWell, EnoughAre DEF ConsoleStatements
<1>24. \A door \in ConsoleReread : WellMade(door)
  BY AsksOnWell, EnoughAre DEF ConsoleReread, OperatorsScopes
<1>25. \A door \in ConsolePayment : WellMade(door)
  BY AsksOnWell, EnoughAre DEF ConsolePayment, OperatorsScopes
<1>26. \A door \in ConsoleCatalogue : WellMade(door)
  BY AsksOnWell, EnoughAre DEF ConsoleCatalogue, ViewersScopes, ReadScopes
<1>27. \A door \in ConsoleAudit : WellMade(door)
  BY AsksWell, EnoughAre DEF ConsoleAudit
<1>28. \A door \in ConsoleReference : WellMade(door)
  BY NoneWell, EnoughAre DEF ConsoleReference
<1>29. \A door \in ConsoleAccess : WellMade(door)
  BY AdministratorWell, EnoughAre DEF ConsoleAccess, ChangeActs,
     GrantActs, OversightActs
<1>30. \A door \in ConsoleAccounts : WellMade(door)
  BY AdministratorWell, EnoughAre DEF ConsoleAccounts
<1> QED
  BY <1>1, <1>2, <1>3, <1>4, <1>5, <1>6, <1>7, <1>8, <1>9, <1>10, <1>11, <1>12, <1>13,
     <1>14, <1>15, <1>16, <1>17, <1>18, <1>19, <1>20, <1>21, <1>22, <1>23, <1>24, <1>25,
     <1>26, <1>27, <1>28, <1>29, <1>30 DEF EveryDoor

-----------------------------------------------------------------------------
\* The first check that fails gives the answer.
LEMMA LeastIs ==
    ASSUME NEW S \in SUBSET Nat, S # {}
    PROVE  Min(S) \in S /\ \A n \in S : Min(S) <= n
<1> DEFINE R == OpToRel(<, Nat)
<1>1. IsWellFoundedOn(R, Nat) BY NatLessThanWellFounded
<1>2. \A m, n \in Nat : m < n => <<m, n>> \in R BY DEF OpToRel
<1> HIDE DEF R
<1>3. PICK n \in S : \A m \in S : <<m, n>> \notin R BY <1>1, WFMin
<1>4. n \in Nat /\ \A m \in S : m \in Nat /\ ~ (m < n) BY <1>2, <1>3
<1>5. \A m \in S : n <= m BY <1>4
<1> QED BY <1>5 DEF Min

Failing(p, door, target, formed) ==
    {i \in DOMAIN door.checks : Outcome(p, door.checks[i], target, formed) # "ok"}

LEMMA ReplyIs ==
    ASSUME NEW p, NEW door, NEW target, NEW formed
    PROVE  Reply(p, door, target, formed) =
               IF Failing(p, door, target, formed) = {} THEN "ok"
               ELSE Outcome(p, door.checks[Min(Failing(p, door, target, formed))],
                                   target, formed)
BY DEF Reply, Failing

LEMMA OkPassesAll ==
    ASSUME NEW p, NEW door, NEW target, NEW formed, DOMAIN door.checks \subseteq Nat,
           Reply(p, door, target, formed) = "ok"
    PROVE  \A check \in ChecksOf(door.checks) :
               Outcome(p, check, target, formed) = "ok"
<1> DEFINE failing == Failing(p, door, target, formed)
<1>1. failing \in SUBSET Nat BY DEF Failing
<1>2. \A i \in failing : Outcome(p, door.checks[i], target, formed) # "ok"
  BY DEF Failing
<1>3. failing # {} => Min(failing) \in failing BY <1>1, LeastIs
<1>4. failing = {} BY <1>2, <1>3, ReplyIs
<1> QED BY <1>4 DEF Failing, ChecksOf

-----------------------------------------------------------------------------
(* What a principal may do, from what its caller holds.                      *)

\* What a principal says of its caller was held, and no scope of it is an owner's
\* unless it is an administrator.
KnownBy(p, holds, admin) ==
    /\ p.admin = admin
    /\ ~admin =>
        /\ \A c \in Connections : p.grants[c] # NoLevel =>
              p.grants[c] \in Levels /\ <<c, p.grants[c]>> \in holds
        /\ p.oversight => <<NoConnection, "oversight">> \in holds
        /\ p.scopes \cap OwnersScopes = {}

LEMMA NoLevelOwns == \A level : LevelScopes(level) \cap OwnersScopes = {}
BY DEF LevelScopes, ReadScopes, OwnersScopes

LEMMA GrantedOwns ==
    ASSUME NEW grants, NEW watching
    PROVE  Granted(FALSE, grants, watching) \cap OwnersScopes = {}
<1>1. OversightScopes \cap OwnersScopes = {}
  BY DEF OversightScopes, ReadScopes, OwnersScopes
<1>2. ASSUME NEW s \in Granted(FALSE, grants, watching)
      PROVE  \/ \E c \in Connections : s \in LevelScopes(grants[c])
             \/ s \in OversightScopes
  <2>1. PICK byGrant, byWatch :
          /\ byGrant = UNION {LevelScopes(grants[c]) : c \in Connections}
          /\ byWatch = IF watching THEN OversightScopes ELSE {}
    OBVIOUS
  <2>2. Granted(FALSE, grants, watching) = byGrant \cup byWatch
    BY <2>1 DEF Granted
  <2>3. s \in byGrant \/ s \in byWatch BY <1>2, <2>2
  <2>4. s \in byGrant => \E c \in Connections : s \in LevelScopes(grants[c])
    BY <2>1
  <2> QED BY <2>1, <2>3, <2>4
<1> QED BY <1>1, <1>2, NoLevelOwns

LEMMA BuiltIsKnown ==
    ASSUME NEW admin \in BOOLEAN, NEW reads, NEW watching \in BOOLEAN, NEW claim, NEW holds,
           ~admin => /\ \A c \in Connections : reads[c] # NoLevel =>
                           reads[c] \in Levels /\ <<c, reads[c]>> \in holds
                     /\ watching => <<NoConnection, "oversight">> \in holds
    PROVE  KnownBy(BuildPrincipal(admin, reads, watching, claim), holds, admin)
<1> DEFINE p == BuildPrincipal(admin, reads, watching, claim)
<1>1. /\ p.admin = admin
      /\ p.grants = [c \in Connections |-> IF admin THEN NoLevel ELSE reads[c]]
      /\ p.oversight = (watching /\ ~admin)
      /\ p.scopes = Narrowed(Granted(admin, reads, watching), claim)
  BY DEF BuildPrincipal
<1>2. p.scopes \subseteq Granted(admin, reads, watching)
  BY <1>1 DEF Narrowed
<1> HIDE DEF p
<1>3. ASSUME admin = TRUE PROVE KnownBy(p, holds, admin)
  BY <1>1, <1>3 DEF KnownBy
<1>4. ASSUME admin = FALSE PROVE KnownBy(p, holds, admin)
  <2>1. p.scopes \cap OwnersScopes = {} BY <1>2, <1>4, GrantedOwns
  <2> QED BY <1>1, <1>4, <2>1 DEF KnownBy
<1>5. KnownBy(p, holds, admin) BY <1>3, <1>4
<1> QED BY <1>5 DEF p

\* What it takes to be let through a check on a connection.
LEMMA OnItTakes ==
    ASSUME NEW p, NEW holds, KnownBy(p, holds, FALSE), NEW s, NEW c,
           Require(p, c, {s}) = "ok"
    PROVE  /\ s \notin OwnersScopes
           /\ \/ p.oversight /\ s \in OversightScopes
                 /\ <<NoConnection, "oversight">> \in holds
              \/ /\ c \in Connections /\ s \in LevelScopes(p.grants[c])
                 /\ p.grants[c] \in Levels /\ <<c, p.grants[c]>> \in holds
<1>1. May(p, s, c)
  BY DEF Require
<1>2. s \in p.scopes /\ s \notin OwnersScopes
  BY <1>1 DEF KnownBy, May, ScopesOn
<1>3. LevelScopes(NoLevel) = {}
  BY LevelsAssumption DEF Levels, LevelScopes
<1>4. CASE p.oversight /\ s \in OversightScopes
  BY <1>2, <1>4 DEF KnownBy
<1>5. CASE ~(p.oversight /\ s \in OversightScopes)
  <2>1. s \in LevelScopes(LevelOn(p, c))
    BY <1>1, <1>5 DEF KnownBy, May, ScopesOn
  <2>2. c \in Connections /\ p.grants[c] # NoLevel /\ LevelOn(p, c) = p.grants[c]
    BY <2>1, <1>3 DEF LevelOn
  <2> QED BY <1>2, <2>1, <2>2 DEF KnownBy
<1> QED BY <1>4, <1>5


\* A caller is let do what it holds something for.
LEMMA OkIsMandated ==
    ASSUME NEW p, NEW holds, NEW admin \in BOOLEAN, KnownBy(p, holds, admin),
           NEW door, WellMade(door), NEW target, NEW formed,
           Reply(p, door, target, formed) = "ok",
           door.act \notin {"list", "overview"}
    PROVE  Mandated(door.act, target, holds, admin)
<1>1. CASE admin = TRUE BY <1>1 DEF Mandated
<1>2. CASE admin = FALSE
  <2>0. KnownBy(p, holds, FALSE) BY <1>2
  <2>1. \A check \in ChecksOf(door.checks) : Outcome(p, check, target, formed) = "ok"
    BY OkPassesAll DEF WellMade
  <2>2. Enough(door.act, ChecksOf(door.checks)) BY DEF WellMade
  <2>3. \A check \in ChecksOf(door.checks) :
           check.is = "asks on" => Require(p, target, {check.scope}) = "ok"
    BY <2>1 DEF Outcome
  <2>4. \A check \in ChecksOf(door.checks) :
           check.is = "asks" => check.scope \notin OwnersScopes
    BY <2>0, <2>1 DEF Outcome, HasAll, KnownBy
  <2>5. \A check \in ChecksOf(door.checks) : check.is # "administrator"
    BY <2>0, <2>1 DEF Outcome, KnownBy
  <2>6. ASSUME NEW scopes, AsksFor(ChecksOf(door.checks), {"asks on"}, scopes)
        PROVE  \E s \in scopes :
                  \/ p.oversight /\ s \in OversightScopes
                     /\ <<NoConnection, "oversight">> \in holds
                  \/ /\ target \in Connections /\ s \in LevelScopes(p.grants[target])
                     /\ p.grants[target] \in Levels /\ <<target, p.grants[target]>> \in holds
    <3>1. PICK check \in ChecksOf(door.checks) : check.is = "asks on" /\ check.scope \in scopes
      BY <2>6 DEF AsksFor
    <3>2. Require(p, target, {check.scope}) = "ok" BY <3>1, <2>3
    <3> QED BY <3>1, <3>2, <2>0, OnItTakes
  <2>7. CASE door.act = "see own" BY <2>7 DEF Mandated
  <2>8. CASE door.act = "see"
    <3>1. \/ <<NoConnection, "oversight">> \in holds
          \/ target \in Connections /\ <<target, p.grants[target]>> \in holds
      BY <2>2, <2>6, <2>8 DEF Enough
    <3> QED BY <2>8, <3>1 DEF Mandated
  <2>9. CASE door.act = "see endpoint"
    <3>1. "webhooks:read" \notin LevelScopes("viewer")
      BY DEF LevelScopes
    <3>2. AsksFor(ChecksOf(door.checks), {"asks on"}, {"webhooks:read"})
      BY <2>2, <2>9 DEF Enough
    <3>3. \E s \in {"webhooks:read"} :
            \/ p.oversight /\ s \in OversightScopes
               /\ <<NoConnection, "oversight">> \in holds
            \/ /\ target \in Connections /\ s \in LevelScopes(p.grants[target])
               /\ p.grants[target] \in Levels /\ <<target, p.grants[target]>> \in holds
      BY <2>6, <3>2
    <3>4. p.grants[target] \in Levels
             => p.grants[target] = "viewer" \/ p.grants[target] = "operator"
      BY DEF Levels
    <3>5. \/ <<NoConnection, "oversight">> \in holds
          \/ target \in Connections /\ <<target, "operator">> \in holds
      BY <3>1, <3>3, <3>4
    <3> QED BY <2>9, <3>5 DEF Mandated
  <2>10. CASE door.act \in {"pay", "decide", "schedule"}
    <3>1. OperatorsScopes \cap LevelScopes("viewer") = {}
      BY DEF LevelScopes, OperatorsScopes, ReadScopes
    <3>2. OperatorsScopes \cap OversightScopes = {}
      BY DEF OversightScopes, OperatorsScopes, ReadScopes
    <3>3. target \in Connections /\ <<target, "operator">> \in holds
      BY <2>2, <2>6, <2>10, <3>1, <3>2 DEF Enough, Levels
    <3> QED BY <2>10, <3>3 DEF Mandated
  <2>11. CASE door.act \notin {"see own", "see", "see endpoint", "pay", "decide", "schedule"}
    <3>1. AsksFor(ChecksOf(door.checks), {"asks", "asks on"}, OwnersScopes)
      BY <2>2, <2>5, <2>11 DEF Enough
    <3>2. PICK check \in ChecksOf(door.checks) :
             check.is \in {"asks", "asks on"} /\ check.scope \in OwnersScopes
      BY <3>1 DEF AsksFor
    <3>3. check.is = "asks on" BY <3>2, <2>4
    <3> QED BY <2>0, <2>3, <3>2, <3>3, OnItTakes
  <2> QED BY <2>7, <2>8, <2>9, <2>10, <2>11
<1> QED BY <1>1, <1>2

\* A list shows what its caller holds something on.
LEMMA ListedIsMandated ==
    ASSUME NEW p, NEW holds, NEW admin \in BOOLEAN, KnownBy(p, holds, admin),
           NEW door, door.act \in {"list", "overview"}, NEW target,
           NEW c \in Listed(p, door, target)
    PROVE  Mandated(door.act, c, holds, admin)
<1>1. CASE admin = TRUE BY <1>1 DEF Mandated
<1>2. CASE admin = FALSE
  <2>0. KnownBy(p, holds, FALSE) BY <1>2
  <2>1. c \in VisibleConnections(p)
    BY DEF Listed, RestrictTo
  <2>2. \/ <<NoConnection, "oversight">> \in holds
        \/ c \in Connections /\ <<c, p.grants[c]>> \in holds
    BY <2>0, <2>1 DEF VisibleConnections, KnownBy
  <2>3. CASE <<NoConnection, "oversight">> \in holds
    BY <2>3 DEF Mandated
  <2>4. CASE c \in Connections /\ <<c, p.grants[c]>> \in holds
    <3>1. PICK hold : hold = <<c, p.grants[c]>> OBVIOUS
    <3>2. hold \in holds /\ hold[1] = c BY <2>4, <3>1
    <3>3. {other \in holds : other[1] = c /\ c \in Connections} # {} BY <2>4, <3>2
    <3> QED BY <3>3 DEF Mandated
  <2> QED BY <2>2, <2>3, <2>4
<1> QED BY <1>1, <1>2

\* A connection a caller holds nothing on is answered as one there is not.
LEMMA UnseenIsAbsent ==
    ASSUME NEW p, NEW holds, NEW admin \in BOOLEAN, KnownBy(p, holds, admin),
           NEW door, WellMade(door), NEW c \in Connections, NEW formed, ~Visible(p, c)
    PROVE  /\ Reply(p, door, c, formed) = Reply(p, door, Missing, formed)
           /\ Listed(p, door, c) = Listed(p, door, Missing)
<1>0. Missing \notin Connections /\ Missing # NoConnection /\ NoConnection \notin Connections
  BY MissingAssumption, ConnectionsAssumption
<1>1. ~p.admin /\ ~p.oversight /\ p.grants[c] = NoLevel /\ ~Visible(p, Missing)
  BY <1>0 DEF Visible, LevelOn
<1>2. p.scopes \cap OwnersScopes = {} BY <1>1 DEF KnownBy
<1> DEFINE Out(i, t) == Outcome(p, door.checks[i], t, formed)
           here == Failing(p, door, c, formed)
           there == Failing(p, door, Missing, formed)
<1>3. ASSUME NEW i \in DOMAIN door.checks
      PROVE  /\ door.checks[i].is = "loads" => Out(i, c) = "ok" /\ Out(i, Missing) = "404"
             /\ door.checks[i].is = "asks on" => Out(i, c) = "404" /\ Out(i, Missing) = "404"
             /\ door.checks[i].is # "loads" => Out(i, c) = Out(i, Missing)
             /\ Shields(door.checks[i]) => Out(i, Missing) # "ok"
  <2> DEFINE check == door.checks[i]
  <2>1. check.is \in CheckKinds BY DEF WellMade, ChecksOf
  <2>2. CASE check.is = "asks"
    BY <2>2, <1>2 DEF Outcome, Shields, HasAll
  <2>3. CASE check.is = "asks on"
    BY <2>3, <1>1 DEF Outcome, Require
  <2>4. CASE check.is = "administrator"
    BY <2>4 DEF Outcome, Shields
  <2>5. CASE check.is = "loads"
    BY <2>5, <1>0 DEF Outcome, Shields
  <2>6. CASE check.is = "form"
    BY <2>6 DEF Outcome, Shields
  <2> QED BY <2>1, <2>2, <2>3, <2>4, <2>5, <2>6 DEF CheckKinds
<1>4. here \subseteq there /\ there \in SUBSET Nat
  BY <1>3 DEF Failing, WellMade
<1>5. \A i \in there : i \notin here => door.checks[i].is = "loads"
  BY <1>3 DEF Failing
<1>6. Reply(p, door, c, formed) = Reply(p, door, Missing, formed)
  <2>1. CASE there = {}
    BY <2>1, <1>4, ReplyIs
  <2>2. CASE there # {}
    <3> DEFINE m == Min(there)
    <3>1. m \in there /\ m \in Nat /\ m \in DOMAIN door.checks /\ \A n \in there : m <= n
      BY <1>4, <2>2, LeastIs DEF Failing
    <3>2. Reply(p, door, Missing, formed) = Out(m, Missing)
      BY <2>2, ReplyIs
    <3> HIDE DEF m
    <3>3. CASE m \in here
      <4>1. Min(here) \in here /\ \A n \in here : Min(here) <= n
        BY <3>3, <1>4, LeastIs
      <4>2. Min(here) = m BY <4>1, <3>1, <3>3, <1>4
      <4>3. Reply(p, door, c, formed) = Out(m, c) BY <3>3, <4>2, ReplyIs
      <4>4. door.checks[m].is # "loads" BY <3>1, <3>3, <1>3 DEF Failing
      <4> QED BY <3>1, <3>2, <4>3, <4>4, <1>3
    <3>4. CASE m \notin here
      <4>1. door.checks[m].is = "loads" BY <3>1, <3>4, <1>5
      <4>2. \A j \in DOMAIN door.checks : j < m => ~Shields(door.checks[j])
        <5> SUFFICES ASSUME NEW j \in DOMAIN door.checks, j < m, Shields(door.checks[j])
                     PROVE  FALSE
          OBVIOUS
        <5>1. j \in there BY <1>3 DEF Failing
        <5>2. m <= j /\ j \in Nat BY <5>1, <3>1, <1>4
        <5> QED BY <5>2, <3>1
      <4>3. m + 1 \in DOMAIN door.checks /\ door.checks[m + 1].is = "asks on"
        BY <3>1, <4>1, <4>2 DEF WellMade, Discreet
      <4>4. m + 1 \in here BY <4>3, <1>3 DEF Failing
      <4>5. Min(here) \in here /\ \A n \in here : Min(here) <= n
        BY <4>4, <1>4, LeastIs
      <4>6. Min(here) \in Nat /\ m <= Min(here) /\ Min(here) # m
            /\ Min(here) <= m + 1
        BY <4>4, <4>5, <3>1, <3>4, <1>4
      <4>7. Min(here) = m + 1 BY <4>6, <3>1
      <4>8. Reply(p, door, c, formed) = Out(m + 1, c) BY <4>4, <4>7, ReplyIs
      <4>9. Out(m + 1, c) = "404" /\ Out(m, Missing) = "404" BY <4>1, <4>3, <3>1, <1>3
      <4> QED BY <4>8, <4>9, <3>2
    <3> QED BY <3>3, <3>4
  <2> QED BY <2>1, <2>2
<1>7. Listed(p, door, c) = Listed(p, door, Missing)
  <2>1. c \notin VisibleConnections(p) /\ Missing \notin VisibleConnections(p)
    BY <1>0, <1>1 DEF VisibleConnections
  <2>2. c # NoConnection BY <1>0
  <2> QED BY <1>0, <2>1, <2>2 DEF Listed, RestrictTo
<1> QED BY <1>6, <1>7

-----------------------------------------------------------------------------
(* What a request under way has read and built was held by its caller.       *)

Reached(cl) ==
    LET r == request[cl] IN
    /\ (r.pc = "grants read" /\ ~IsAdministrator(r.credential)) =>
          \A c \in Connections : r.reads[c] # NoLevel =>
              r.reads[c] \in Levels /\ <<c, r.reads[c]>> \in held[cl]
    /\ r.pc = "known" =>
          KnownBy(r.principal, held[cl], IsAdministrator(r.credential))

ReachInv == \A cl \in Clients : Reached(cl)

LEMMA RoleDecides == \A who : IsAdministrator(who) \in BOOLEAN
<1> SUFFICES ASSUME NEW who PROVE IsAdministrator(who) \in BOOLEAN
  OBVIOUS
<1>1. \A roles : IsAdmin(roles) \in BOOLEAN BY DEF IsAdmin
<1>2. ("admin" \in who.roles) \in BOOLEAN OBVIOUS
<1> QED BY <1>1, <1>2, Zenon DEF IsAdministrator

LEMMA StepsObserve ==
    ASSUME NEW cl \in Clients,
           JustAsks(cl) \/ OfAChange(cl) \/ ServeChange(cl) \/ Lose(cl)
    PROVE  NoteHeld
BY DEF JustAsks, OfAChange, Unmoved, Arrive, ReadGrants, ReadOversight,
   ServeRequest, Finish, ServeChange, Lose, CheckHeld,
   GrantReads, GrantInserts, GrantUpdates, GrantRecords,
   GrantReturns, RevokeReads, RevokeDeletes, RevokeRecords,
   IssueReads, IssueInserts, IssueRecords, WithdrawDeletes

\* While a request is under way nothing it held is forgotten, and what it holds
\* is added.
LEMMA HeldGrows ==
    ASSUME NoteHeld, NEW cl \in Clients, request'[cl].pc # "idle",
           ~IsAdministrator(request'[cl].credential)
    PROVE  held'[cl] = held[cl] \cup Holding(request'[cl].credential.subject,
                                                    grant', oversight')
BY DEF NoteHeld

LEMMA KnownGrows ==
    ASSUME NEW p, NEW admin, NEW before, NEW after, KnownBy(p, before, admin),
           ~admin => before \subseteq after
    PROVE  KnownBy(p, after, admin)
BY DEF KnownBy

LEMMA HoldsRow ==
    ASSUME NEW s, NEW rows, NEW watch, NEW c \in Connections, rows[s][c].id # 0
    PROVE  <<c, rows[s][c].level>> \in Holding(s, rows, watch)
BY DEF Holding

LEMMA HoldsWatch ==
    ASSUME NEW s, NEW rows, NEW watch, watch[s] # 0
    PROVE  <<NoConnection, "oversight">> \in Holding(s, rows, watch)
BY DEF Holding

\* What the two selects of a request leave in it.
LEMMA ReadGrantsLeaves ==
    ASSUME AccessShape, NEW cl \in Clients, ReadGrants(cl)
    PROVE  /\ request[cl].pc = "arrived" /\ request'[cl].pc = "grants read"
           /\ request'[cl].credential = request[cl].credential
           /\ request'[cl].reads =
                 [c \in Connections |-> grant[request[cl].credential.subject][c].level]
<1> DEFINE r == request[cl]
           q == [r EXCEPT !.pc = "grants read",
                     !.reads = [c \in Connections |-> grant[r.credential.subject][c].level]]
<1>0. r = [field \in RequestFields |-> r[field]]
  BY DEF AccessShape, RequestsOK, RequestOK
<1>1. r.pc = "arrived" /\ request' = [request EXCEPT ![cl] = q]
  BY DEF ReadGrants, AccessShape, RequestsOK
<1>2. /\ q.pc = "grants read" /\ q.credential = r.credential
      /\ q.reads = [c \in Connections |-> grant[r.credential.subject][c].level]
  BY <1>0 DEF RequestFields
<1> HIDE DEF q
<1>3. request'[cl] = q BY <1>1, RowsOfSeat DEF AccessShape
<1> QED BY <1>1, <1>2, <1>3

LEMMA ReadOversightLeaves ==
    ASSUME AccessShape, NEW cl \in Clients, ReadOversight(cl)
    PROVE  /\ request[cl].pc = "grants read" /\ request'[cl].pc = "known"
           /\ request'[cl].credential = request[cl].credential
           /\ request'[cl].principal =
                 PrincipalOf(request[cl].credential, request[cl].reads,
                                    oversight[request[cl].credential.subject] # 0)
<1> DEFINE r == request[cl]
           q == [r EXCEPT !.pc = "known", !.reads = Unset,
                     !.principal = PrincipalOf(r.credential, r.reads,
                                        oversight[r.credential.subject] # 0)]
<1>0. r = [field \in RequestFields |-> r[field]]
  BY DEF AccessShape, RequestsOK, RequestOK
<1>1. r.pc = "grants read" /\ request' = [request EXCEPT ![cl] = q]
  BY DEF ReadOversight, AccessShape, RequestsOK
<1>2. /\ q.pc = "known" /\ q.credential = r.credential
      /\ q.principal = PrincipalOf(r.credential, r.reads,
                                        oversight[r.credential.subject] # 0)
  BY <1>0 DEF RequestFields
<1> HIDE DEF q
<1>3. request'[cl] = q BY <1>1, RowsOfSeat DEF AccessShape
<1> QED BY <1>1, <1>2, <1>3

\* Where a step can leave a request that reads or knows.
LEMMA OtherStepsLeave ==
    ASSUME AccessShape, NEW cl \in Clients,
           JustAsks(cl) \/ OfAChange(cl) \/ ServeChange(cl) \/ Lose(cl),
           ~ReadGrants(cl), ~ReadOversight(cl)
    PROVE  request'[cl].pc \notin {"grants read", "known"}
<1>0. request[cl] = [field \in RequestFields |-> request[cl][field]] /\ DOMAIN request = Clients
  BY DEF AccessShape, RequestsOK, RequestOK
<1>1. CASE Arrive(cl)
  BY <1>0, <1>1 DEF Arrive, NoRequest
<1>2. CASE ServeRequest(cl) \/ Finish(cl)
  <2>1. request' = [request EXCEPT ![cl] = NoRequest]
    BY <1>2 DEF ServeRequest, Finish
  <2> QED BY <1>0, <2>1 DEF NoRequest
<1>3. CASE ServeChange(cl) \/ Lose(cl)
  BY <1>3, ServeChangeEffect, LoseEffect
<1>4. CASE OfAChange(cl)
  <2>1. ChangeEffect(cl) BY <1>4, ChangesEffect
  <2>2. request'[cl].pc \in {"reading", "writing", "recording", "returning", "answered"}
    BY <1>4, GoesKeeps, AnswersKeeps, SeesKeeps
    DEF OfAChange, AccessShape, CheckHeld, GrantReads, GrantInserts,
        GrantUpdates, GrantRecords, GrantReturns, RevokeReads,
        RevokeDeletes, RevokeRecords, IssueReads, IssueInserts,
        IssueRecords, WithdrawDeletes
  <2> QED BY <2>2
<1> QED BY <1>1, <1>2, <1>3, <1>4 DEF JustAsks

LEMMA ReachNext ==
    ASSUME AccessShape, ReachInv, [AccessNext]_accessVars
    PROVE  ReachInv'
<1>1. CASE UNCHANGED accessVars
  BY <1>1 DEF accessVars, ReachInv, Reached
<1>2. ASSUME NEW cl \in Clients,
             JustAsks(cl) \/ OfAChange(cl) \/ ServeChange(cl) \/ Lose(cl)
      PROVE  ReachInv'
  <2>1. NoteHeld BY <1>2, StepsObserve
  <2>2. OnlyMoves(cl)
    BY <1>2, ReadsShape, ChangesEffect, ServeChangeEffect, LoseEffect
    DEF JustAsks, ChangeEffect, Keeps
  <2>3. ASSUME NEW o \in Clients \ {cl} PROVE Reached(o)'
    <3>1. request'[o] = request[o] BY <2>2 DEF OnlyMoves
    <3>2. Reached(o) BY DEF ReachInv
    <3>3. request[o].pc # "idle" /\ ~IsAdministrator(request[o].credential)
             => held[o] \subseteq held'[o]
      BY <2>1, <3>1, HeldGrows
    <3> QED BY <3>1, <3>2, <3>3, KnownGrows DEF Reached
  <2>4. Reached(cl)'
    <3> DEFINE who == request[cl].credential
               admin == IsAdministrator(request[cl].credential)
    <3>0. Reached(cl) BY DEF ReachInv
    <3>1. CASE ReadGrants(cl)
      <4>1. /\ request[cl].pc = "arrived" /\ request'[cl].pc = "grants read"
            /\ request'[cl].credential = who
            /\ request'[cl].reads = [c \in Connections |-> grant[who.subject][c].level]
            /\ UNCHANGED grant
        BY <3>1, ReadGrantsLeaves DEF ReadGrants, Unmoved, Tables
      <4>2. who.subject \in Subjects
        BY <4>1, ClientsAssumption DEF AccessShape, RequestsOK, RequestOK
      <4>3. ASSUME ~admin, NEW c \in Connections, request'[cl].reads[c] # NoLevel
            PROVE  /\ request'[cl].reads[c] \in Levels
                   /\ <<c, request'[cl].reads[c]>> \in held'[cl]
        <5>1. request'[cl].reads[c] = grant[who.subject][c].level BY <4>1
        <5>2. grant[who.subject][c].level \in Levels /\ grant[who.subject][c].id # 0
          BY <4>2, <4>3, <5>1 DEF AccessShape, TablesOK
        <5>3. <<c, grant'[who.subject][c].level>> \in
                 Holding(who.subject, grant', oversight')
          BY <4>1, <5>2, HoldsRow
        <5>4. held'[cl] = held[cl] \cup Holding(who.subject, grant', oversight')
          BY <2>1, <4>1, <4>3, HeldGrows
        <5> QED BY <4>1, <5>1, <5>2, <5>3, <5>4
      <4> QED BY <4>1, <4>3 DEF Reached
    <3>2. CASE ReadOversight(cl)
      <4>1. /\ request[cl].pc = "grants read" /\ request'[cl].pc = "known"
            /\ request'[cl].credential = who
            /\ request'[cl].principal =
                 PrincipalOf(who, request[cl].reads, oversight[who.subject] # 0)
            /\ UNCHANGED oversight
        BY <3>2, ReadOversightLeaves DEF ReadOversight, Unmoved, Tables
      <4>2. admin \in BOOLEAN BY RoleDecides
      <4>3. ASSUME ~admin
            PROVE  /\ \A c \in Connections : request[cl].reads[c] # NoLevel =>
                         /\ request[cl].reads[c] \in Levels
                         /\ <<c, request[cl].reads[c]>> \in held'[cl]
                   /\ oversight[who.subject] # 0 => <<NoConnection, "oversight">> \in held'[cl]
        <5>1. held'[cl] = held[cl] \cup Holding(who.subject, grant', oversight')
          BY <2>1, <4>1, <4>3, HeldGrows
        <5>2. oversight[who.subject] # 0 =>
                 <<NoConnection, "oversight">> \in Holding(who.subject, grant', oversight')
          BY <4>1, HoldsWatch
        <5> QED BY <3>0, <4>1, <4>3, <5>1, <5>2 DEF Reached
      <4>4. PICK claim : request'[cl].principal =
               BuildPrincipal(admin, request[cl].reads, oversight[who.subject] # 0, claim)
        BY <4>1 DEF PrincipalOf
      <4>5. KnownBy(request'[cl].principal, held'[cl], admin)
        BY <4>2, <4>3, <4>4, BuiltIsKnown
      <4> QED BY <4>1, <4>5 DEF Reached
    <3>3. CASE ~ReadGrants(cl) /\ ~ReadOversight(cl)
      <4>1. request'[cl].pc \notin {"grants read", "known"} BY <1>2, <3>3, OtherStepsLeave
      <4> QED BY <4>1 DEF Reached
    <3> QED BY <3>1, <3>2, <3>3
  <2> QED BY <2>3, <2>4 DEF ReachInv
<1> QED BY <1>1, <1>2, StepsAre

LEMMA ReachInit == AccessInit => ReachInv
<1>1. NoRequest.pc = "idle" BY DEF NoRequest
<1>2. AccessInit => \A cl \in Clients : request[cl].pc = "idle"
  BY <1>1 DEF AccessInit
<1> QED BY <1>2 DEF ReachInv, Reached

THEOREM ReachInvHolds == AccessSpec => []ReachInv
BY ReachInit, ReachNext, AccessShapeHolds, PTL DEF AccessSpec

LEMMA DoorOf ==
    ASSUME NEW cl \in Clients, NEW door \in DoorsOf[cl]
    PROVE  WellMade(door)
BY DoorsWell, ClientsAssumption

\* An act that was done was mandated by something its caller held since it
\* arrived, whatever administrators grant and revoke in between, at every door
\* of the service (access.py, reach_for; the handlers of api and console).
THEOREM ActsWithinReachHolds == AccessSpec => []ActsWithinReach
<1>1. ReachInv => ActsWithinReach
  <2> SUFFICES ASSUME ReachInv, NEW cl \in Clients, request[cl].pc = "known",
                      NEW door \in DoorsOf[cl],
                      NEW target \in Targets(door), NEW formed \in Formed(door),
                      Answer(cl, door, target, formed) = "ok"
               PROVE  LET admin == IsAdministrator(request[cl].credential) IN
                      IF door.act \in {"list", "overview"}
                      THEN \A c \in Listed(request[cl].principal, door, target) :
                               Mandated(door.act, c, held[cl], admin)
                      ELSE Mandated(door.act, target, held[cl], admin)
    BY DEF ActsWithinReach
  <2> DEFINE admin == IsAdministrator(request[cl].credential)
  <2>1. KnownBy(request[cl].principal, held[cl], admin) /\ admin \in BOOLEAN
    BY RoleDecides DEF ReachInv, Reached
  <2>2. WellMade(door) BY DoorOf
  <2>3. Reply(request[cl].principal, door, target, formed) = "ok"
    BY DEF Answer
  <2>4. CASE door.act \in {"list", "overview"}
    BY <2>1, <2>4, ListedIsMandated
  <2>5. CASE door.act \notin {"list", "overview"}
    BY <2>1, <2>2, <2>3, <2>5, OkIsMandated
  <2> QED BY <2>4, <2>5
<1> QED BY <1>1, ReachInvHolds, PTL

\* A connection the caller holds nothing on is answered, at every door, as an
\* id that names nothing is (access.py, require and restrict).
THEOREM UngrantedLooksAbsentHolds == AccessSpec => []UngrantedLooksAbsent
<1>1. ReachInv => UngrantedLooksAbsent
  <2> SUFFICES ASSUME ReachInv, NEW cl \in Clients, request[cl].pc = "known",
                      NEW door \in DoorsOf[cl],
                      NEW c \in Connections \cap Targets(door),
                      NEW formed \in Formed(door),
                      ~Visible(request[cl].principal, c)
               PROVE  /\ Reply(request[cl].principal, door, c, formed)
                           = Reply(request[cl].principal, door, Missing, formed)
                      /\ Listed(request[cl].principal, door, c)
                           = Listed(request[cl].principal, door, Missing)
    BY DEF UngrantedLooksAbsent
  <2>1. KnownBy(request[cl].principal, held[cl],
                IsAdministrator(request[cl].credential))
    BY DEF ReachInv, Reached
  <2>2. WellMade(door) BY DoorOf
  <2> QED BY <2>1, <2>2, RoleDecides, UnseenIsAbsent
<1> QED BY <1>1, ReachInvHolds, PTL
=============================================================================
