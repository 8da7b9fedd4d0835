------------------------ MODULE KeyManagement_proofs ------------------------
(***************************************************************************)
(* The keys of a connection, for any keys, pairs, workers and bounds.      *)
(*                                                                         *)
(* Types hold of every behaviour (TypeInv).  Where no live worker takes    *)
(* longer than its lease and one handler at a time asks for jobs, one job  *)
(* is performed at a time (JobInv); and then what a worker has read of the *)
(* connection and of the keyring is still so when it writes (KeysInv),     *)
(* from which follow what is trusted, what is claimed, and the life of the *)
(* connection.                                                             *)
(***************************************************************************)
EXTENDS KeyManagement, FiniteSetTheorems, WellFoundedInduction, TLAPS

SingleConsole == \A c, d \in Consoles : c = d

\* What a worker remembers of its job, whatever it is doing about it.
Formed(r) ==
    {"pc", "job", "next"} \subseteq DOMAIN r /\ r.next \in {"trusting", "saving", "settling"}

\* A worker that is busy holds the claim of its job, which is running; and a
\* handler that found nothing outstanding still finds nothing.
JobsStand ==
    /\ \A w \in Workers : Busy(w) =>
        /\ worker[w].job \in Jobs
        /\ job[worker[w].job].state = "running" /\ job[worker[w].job].claim = "held"
    /\ \A v, w \in Workers : Busy(v) /\ Busy(w) => v = w
    /\ \A i, j \in Outstanding : i = j
    /\ \A c \in Consoles : console[c].pc = "asking" => Outstanding = {}

JobInv ==
    /\ job = [j \in Jobs |-> job[j]]
    /\ \A j \in Jobs : {"state", "claim"} \subseteq DOMAIN job[j]
    /\ worker = [w \in Workers |-> worker[w]] /\ \A w \in Workers : Formed(worker[w])
    /\ console = [c \in Consoles |-> console[c]]
    /\ JobsStand

LEMMA IdleFormed == Formed(Idle) /\ Idle.pc = "idle"
BY DEF Formed, Idle

\* Whatever a worker does about its job short of settling it, it stays busy with it.
LEMMA WorksEffect ==
    ASSUME NEW w \in Workers, Formed(worker[w]), Works(w), ~Settle(w)
    PROVE  /\ UNCHANGED <<job, console>> /\ Busy(w)
           /\ \E r : /\ Becomes(w, r) /\ Formed(r)
                     /\ r.job = worker[w].job /\ r.pc # "idle"
<1> DEFINE Goes == \E r : /\ Becomes(w, r) /\ Formed(r)
                          /\ r.job = worker[w].job /\ r.pc # "idle"
<1>1. ASSUME Fails(w) PROVE Goes
  <2> DEFINE r == [worker[w] EXCEPT !.pc = "settling", !.outcome = "failed", !.todo = <<>>]
  <2>1. Formed(r) /\ r.job = worker[w].job /\ r.pc # "idle" BY DEF Formed
  <2> HIDE DEF r
  <2> QED BY <1>1, <2>1 DEF Fails, r
<1>2. ASSUME NEW todo, NEW next \in {"trusting", "saving", "settling"},
             Writes(w, todo, next)
      PROVE  Goes
  <2> DEFINE r == [worker[w] EXCEPT !.pc = "writing", !.todo = todo, !.next = next]
  <2>1. Formed(r) /\ r.job = worker[w].job /\ r.pc # "idle" BY DEF Formed
  <2> HIDE DEF r
  <2> QED BY <1>2, <2>1 DEF Writes, r
<1>3. ASSUME NEW r, Becomes(w, r), Formed(r), r.job = worker[w].job, r.pc # "idle" PROVE Goes
  BY <1>3
<1>4. \A s : Formed([worker[w] EXCEPT !.pc = s]) /\ [worker[w] EXCEPT !.pc = s].pc = s
             /\ [worker[w] EXCEPT !.pc = s].job = worker[w].job
  BY DEF Formed
<1>5. \A s : /\ Formed([Resumed(w) EXCEPT !.pc = s]) /\ [Resumed(w) EXCEPT !.pc = s].pc = s
             /\ [Resumed(w) EXCEPT !.pc = s].job = worker[w].job
  BY DEF Formed, Resumed
<1>6. Busy(w) /\ UNCHANGED <<job, console>>
  BY DEF Works, Busy, NotAvailable, CreateKeys, RenewKey, SuspendKeys, Register, FetchHPB,
     FetchCatalogue, ConfirmBankKeys, DeclineBankKeys, Performs, RegistrationSent, HPBAnswered,
     Stage, WriteRow, WriteFails, WritesDone, SaveProgress, asked
<1>7. CASE NotAvailable(w) \/ WriteFails(w)
  BY <1>6, <1>7, <1>1 DEF NotAvailable, WriteFails
<1>8. CASE CreateKeys(w) \/ RenewKey(w) \/ SuspendKeys(w) \/ DeclineBankKeys(w)
  BY <1>6, <1>8, <1>1, <1>2 DEF CreateKeys, RenewKey, SuspendKeys, DeclineBankKeys
<1>9. CASE Register(w, "send_ini") \/ Register(w, "send_hia") \/ FetchHPB(w)
  BY <1>6, <1>9, <1>1, <1>3, <1>5 DEF Register, FetchHPB
<1>10. CASE FetchCatalogue(w)
  BY <1>6, <1>10, <1>1, <1>3, <1>4 DEF FetchCatalogue
<1>11. CASE ConfirmBankKeys(w)
  <2>1. ASSUME ~Fails(w)
        PROVE  \E pair, todo : Becomes(w, [Resumed(w) EXCEPT
                    !.pc = "writing", !.pair = pair, !.prints = pair,
                    !.todo = todo, !.next = "trusting"])
    BY <1>6, <1>11, <2>1 DEF ConfirmBankKeys
  <2>2. ASSUME NEW pair, NEW todo
        PROVE  LET r == [Resumed(w) EXCEPT
                    !.pc = "writing", !.pair = pair, !.prints = pair,
                    !.todo = todo, !.next = "trusting"]
               IN  Formed(r) /\ r.job = worker[w].job /\ r.pc # "idle"
    BY DEF Formed, Resumed
  <2> QED BY <1>6, <2>1, <2>2, <1>1, <1>3
<1>12. CASE RegistrationSent(w)
  <2>1. ASSUME ~Fails(w)
        PROVE  \E a, b : Becomes(w, [worker[w] EXCEPT !.pc = "saving", !.ini = a, !.hia = b])
    BY <1>6, <1>12, <2>1 DEF RegistrationSent
  <2>2. ASSUME NEW a, NEW b
        PROVE  LET r == [worker[w] EXCEPT !.pc = "saving", !.ini = a, !.hia = b]
               IN  Formed(r) /\ r.job = worker[w].job /\ r.pc # "idle"
    BY DEF Formed
  <2> QED BY <1>6, <2>1, <2>2, <1>1, <1>3
<1>13. CASE HPBAnswered(w)
  <2>1. ASSUME NEW pair
        PROVE  LET r == [worker[w] EXCEPT !.pc = "staging", !.pair = pair]
               IN  Formed(r) /\ r.job = worker[w].job /\ r.pc # "idle"
    BY DEF Formed
  <2> QED BY <1>6, <1>13, <2>1, <1>1, <1>3 DEF HPBAnswered
<1>14. CASE Stage(w)
  BY <1>6, <1>14, <1>2 DEF Stage
<1>15. CASE WriteRow(w)
  <2>1. ASSUME NEW todo
        PROVE  LET r == [worker[w] EXCEPT !.todo = todo]
               IN  Formed(r) /\ r.job = worker[w].job /\ r.pc = worker[w].pc
    BY DEF Formed
  <2> QED BY <1>6, <1>15, <2>1, <1>1, <1>3 DEF WriteRow, Busy
<1>16. CASE WritesDone(w)
  <2>1. worker[w].next # "idle" BY DEF Formed
  <2>2. CASE worker[w].next = "trusting"
    <3>1. Writes(w, Marks(Rows("bank", "pending"), "active"), "saving")
      BY <1>16, <2>2 DEF WritesDone
    <3>2. PICK todo : todo = Marks(Rows("bank", "pending"), "active") OBVIOUS
    <3>3. Writes(w, todo, "saving") BY <3>1, <3>2
    <3> QED BY <1>2, <1>6, <3>3
  <2>3. CASE worker[w].next # "trusting"
    <3>1. PICK s : s = worker[w].next OBVIOUS
    <3>2. Becomes(w, [worker[w] EXCEPT !.pc = s]) BY <1>16, <2>3, <3>1 DEF WritesDone
    <3>3. PICK r : r = [worker[w] EXCEPT !.pc = s] OBVIOUS
    <3>4. Formed(r) /\ r.pc # "idle" /\ r.job = worker[w].job BY <1>4, <2>1, <3>1, <3>3
    <3>5. Becomes(w, r) BY <3>2, <3>3
    <3>6. Goes BY <3>4, <3>5
    <3> QED BY <1>6, <3>6
  <2> QED BY <2>2, <2>3
<1>17. CASE SaveProgress(w)
  <2>1. PICK r : r = [worker[w] EXCEPT !.pc = "settling"] OBVIOUS
  <2>2. Becomes(w, r) BY <1>17, <2>1 DEF SaveProgress
  <2>3. Formed(r) /\ r.pc # "idle" /\ r.job = worker[w].job BY <1>4, <2>1
  <2>4. Goes BY <2>2, <2>3
  <2> QED BY <1>6, <2>4
<1> QED
  BY <1>6, <1>7, <1>8, <1>9, <1>10, <1>11, <1>12, <1>13, <1>14, <1>15, <1>16, <1>17 DEF Works

LEMMA JobInvInit == Init => JobInv
<1> SUFFICES ASSUME Init PROVE JobInv OBVIOUS
<1>1. /\ job = [j \in Jobs |-> job[j]]
      /\ \A j \in Jobs : {"state", "claim"} \subseteq DOMAIN job[j] /\ job[j].state = "none"
  BY DEF Init, Settled
<1>2. /\ worker = [w \in Workers |-> worker[w]]
      /\ \A w \in Workers : Formed(worker[w]) /\ ~Busy(w)
  BY IdleFormed DEF Init, Busy
<1>3. console = [c \in Consoles |-> console[c]] /\ \A c \in Consoles : console[c].pc = "idle"
  BY DEF Init, Waiting
<1>4. Outstanding = {} BY <1>1 DEF Outstanding
<1> QED BY <1>1, <1>2, <1>3, <1>4 DEF JobInv, JobsStand

\* A job that is neither queued nor running before and after is of no account.
LEMMA JobWritten ==
    ASSUME JobInv, NEW j \in Jobs, NEW row, {"state", "claim"} \subseteq DOMAIN row,
           job' = [job EXCEPT ![j] = row]
    PROVE  /\ job' = [i \in Jobs |-> job'[i]]
           /\ \A i \in Jobs : {"state", "claim"} \subseteq DOMAIN job'[i]
           /\ job'[j] = row /\ \A i \in Jobs \ {j} : job'[i] = job[i]
           /\ Outstanding' = (Outstanding \ {j}) \cup
                (IF row.state \in {"queued", "running"} THEN {j} ELSE {})
<1>1. /\ job' = [i \in Jobs |-> job'[i]]
      /\ job'[j] = row /\ \A i \in Jobs \ {j} : job'[i] = job[i]
  BY DEF JobInv
<1> QED BY <1>1 DEF JobInv, Outstanding

LEMMA WorkerWritten ==
    ASSUME JobInv, NEW w \in Workers, NEW r, Formed(r), Becomes(w, r)
    PROVE  /\ worker' = [v \in Workers |-> worker'[v]] /\ \A v \in Workers : Formed(worker'[v])
           /\ worker'[w] = r /\ \A v \in Workers \ {w} : worker'[v] = worker[v]
BY DEF JobInv, Becomes

LEMMA JobInvNext ==
    ASSUME LeaseOutlivesJob, SingleConsole, JobInv, Next
    PROVE  JobInv'
<1>c. console = [c \in Consoles |-> console[c]] BY DEF JobInv
<1>1. ASSUME NEW c \in Consoles, NEW request, Ask(c, request) PROVE JobInv'
  <2>1. UNCHANGED <<job, worker>> /\ Outstanding = {} /\ Outstanding' = Outstanding
    BY <1>1 DEF Ask, MayAsk, Outstanding
  <2>2. console' = [d \in Consoles |-> console'[d]]
    BY <1>1, <1>c DEF Ask
  <2> QED BY <2>1, <2>2 DEF JobInv, JobsStand, Busy
<1>2. ASSUME NEW c \in Consoles, Enqueue(c) PROVE JobInv'
  <2>1. UNCHANGED worker /\ Outstanding = {} BY <1>2 DEF Enqueue, JobInv, JobsStand
  <2>2. PICK j \in Jobs : job' = [job EXCEPT ![j] = Queued(console[c].request)]
    BY <1>2 DEF Enqueue
  <2>3. /\ {"state", "claim"} \subseteq DOMAIN Queued(console[c].request)
    BY DEF Queued
  <2>4. /\ job' = [i \in Jobs |-> job'[i]] /\ Outstanding' \subseteq {j}
        /\ \A i \in Jobs : {"state", "claim"} \subseteq DOMAIN job'[i]
    BY <2>1, <2>2, <2>3, JobWritten
  <2>5. /\ console' = [d \in Consoles |-> console'[d]]
        /\ \A d \in Consoles : console'[d].pc = "idle"
    BY <1>2, <1>c DEF Enqueue, SingleConsole, Waiting
  <2>6. \A w \in Workers : ~Busy(w) BY <2>1 DEF JobInv, JobsStand, Outstanding
  <2> QED BY <2>1, <2>4, <2>5, <2>6 DEF JobInv, JobsStand, Busy
<1>3. ASSUME NEW w \in Workers, NEW j \in Jobs, Claim(w, j) PROVE JobInv'
  <2>1. UNCHANGED console /\ ~Busy(w) BY <1>3 DEF Claim, asked, Busy
  <2>2. j \in Outstanding /\ ~(job[j].state = "running" /\ job[j].claim = "held")
    BY <1>3 DEF Claim, Claimable, Outstanding
  <2>3. \A v \in Workers : ~Busy(v)
    BY <2>2 DEF JobInv, JobsStand, Outstanding
  <2>4. PICK row : /\ {"state", "claim"} \subseteq DOMAIN row
                   /\ row.state = "running" /\ row.claim = "held"
                   /\ job' = [job EXCEPT ![j] = row]
    <3> DEFINE row == [job[j] EXCEPT !.state = "running", !.claim = "held",
                                     !.attempts = job[j].attempts + 1]
    <3>1. {"state", "claim"} \subseteq DOMAIN row /\ row.state = "running" /\ row.claim = "held"
      BY DEF JobInv
    <3>2. job' = [job EXCEPT ![j] = row] BY <1>3 DEF Claim, JobInv
    <3> HIDE DEF row
    <3> QED BY <3>1, <3>2
  <2>5. /\ job' = [i \in Jobs |-> job'[i]] /\ job'[j] = row
        /\ \A i \in Jobs : {"state", "claim"} \subseteq DOMAIN job'[i]
        /\ Outstanding' = Outstanding \cup {j}
    BY <2>4, JobWritten
  <2>6. PICK r : Formed(r) /\ r.pc = "claimed" /\ r.job = j /\ Becomes(w, r)
    <3> DEFINE r == [Idle EXCEPT !.pc = "claimed", !.job = j, !.request = job[j].request]
    <3>1. Formed(r) /\ r.pc = "claimed" /\ r.job = j BY DEF Formed, Idle
    <3> HIDE DEF r
    <3> QED BY <1>3, <3>1 DEF Claim, Becomes, r
  <2>7. /\ worker' = [v \in Workers |-> worker'[v]] /\ \A v \in Workers : Formed(worker'[v])
        /\ worker'[w] = r /\ \A v \in Workers \ {w} : worker'[v] = worker[v]
    BY <2>6, WorkerWritten
  <2> QED
    BY <2>1, <2>2, <2>3, <2>4, <2>5, <2>6, <2>7 DEF JobInv, JobsStand, Busy
<1>4. ASSUME NEW w \in Workers, Works(w), ~Settle(w) PROVE JobInv'
  <2>1. PICK r : /\ Becomes(w, r) /\ Formed(r) /\ r.job = worker[w].job
                 /\ UNCHANGED <<job, console>> /\ Busy(w)
    BY <1>4, WorksEffect DEF JobInv
  <2>2. /\ worker' = [v \in Workers |-> worker'[v]] /\ \A v \in Workers : Formed(worker'[v])
        /\ worker'[w] = r /\ \A v \in Workers \ {w} : worker'[v] = worker[v]
    BY <2>1, WorkerWritten
  <2>3. Outstanding' = Outstanding BY <2>1 DEF Outstanding
  <2> QED BY <2>1, <2>2, <2>3 DEF JobInv, JobsStand, Busy
<1>5. ASSUME NEW w \in Workers, Settle(w) PROVE JobInv'
  <2>j. PICK j : j = worker[w].job OBVIOUS
  <2>1. Busy(w) /\ j \in Jobs /\ UNCHANGED console
    BY <1>5, <2>j DEF Settle, Busy, JobInv, JobsStand, asked
  <2>2. PICK row : job' = [job EXCEPT ![j] = row] /\ {"state", "claim"} \subseteq DOMAIN row
    <3> DEFINE row == Settled(worker[w].outcome)
    <3>1. {"state", "claim"} \subseteq DOMAIN row BY DEF Settled
    <3>2. job' = [job EXCEPT ![j] = row] BY <1>5, <2>j DEF Settle
    <3> HIDE DEF row
    <3> QED BY <3>1, <3>2
  <2>3. /\ job' = [i \in Jobs |-> job'[i]]
        /\ \A i \in Jobs : {"state", "claim"} \subseteq DOMAIN job'[i]
        /\ Outstanding' \subseteq Outstanding \cup {j}
    <3>1. Outstanding' = (Outstanding \ {j}) \cup
                (IF row.state \in {"queued", "running"} THEN {j} ELSE {})
      BY <2>1, <2>2, JobWritten
    <3> QED BY <2>1, <2>2, <3>1, JobWritten
  <2>4. j \in Outstanding BY <2>1, <2>j DEF JobInv, JobsStand, Outstanding
  <2>5. /\ worker' = [v \in Workers |-> worker'[v]] /\ \A v \in Workers : Formed(worker'[v])
        /\ worker'[w] = Idle /\ \A v \in Workers \ {w} : worker'[v] = worker[v]
    BY <1>5, IdleFormed, WorkerWritten DEF Settle
  <2>6. \A v \in Workers : worker'[v].pc = "idle"
    BY <2>1, <2>5, IdleFormed DEF JobInv, JobsStand, Busy
  <2> QED BY <2>1, <2>3, <2>4, <2>5, <2>6 DEF JobInv, JobsStand, Busy
<1>6. ASSUME NEW w \in Workers, WorkerLost(w) PROVE JobInv'
  <2>1. UNCHANGED <<job, console>> BY <1>6 DEF WorkerLost, asked
  <2>2. /\ worker' = [v \in Workers |-> worker'[v]] /\ \A v \in Workers : Formed(worker'[v])
        /\ worker'[w] = Idle /\ \A v \in Workers \ {w} : worker'[v] = worker[v]
    BY <1>6, IdleFormed, WorkerWritten DEF WorkerLost
  <2>3. Outstanding' = Outstanding BY <2>1 DEF Outstanding
  <2> QED BY <2>1, <2>2, <2>3, IdleFormed DEF JobInv, JobsStand, Busy
<1>7. ASSUME NEW j \in Jobs, LeaseExpires(j) PROVE JobInv'
  <2>1. /\ \A w \in Workers : Busy(w) => worker[w].job # j
        /\ UNCHANGED <<worker, console>>
    BY <1>7 DEF LeaseExpires, Busy, asked
  <2>2. job' = [job EXCEPT ![j] = [job[j] EXCEPT !.claim = "expired"]]
    BY <1>7 DEF LeaseExpires, JobInv
  <2>r. PICK row : row = [job[j] EXCEPT !.claim = "expired"] OBVIOUS
  <2>3. {"state", "claim"} \subseteq DOMAIN row /\ row.state = job[j].state
    BY <2>r DEF JobInv
  <2>4. /\ job' = [i \in Jobs |-> job'[i]] /\ \A i \in Jobs \ {j} : job'[i] = job[i]
        /\ \A i \in Jobs : {"state", "claim"} \subseteq DOMAIN job'[i]
        /\ Outstanding' = (Outstanding \ {j}) \cup
                            (IF row.state \in {"queued", "running"} THEN {j} ELSE {})
    BY <2>2, <2>3, <2>r, JobWritten
  <2>5. Outstanding' = Outstanding BY <2>3, <2>4 DEF Outstanding
  <2>6. \A w \in Workers : Busy(w)' <=> Busy(w) BY <2>1 DEF Busy
  <2>7. JobsStand' BY <2>1, <2>4, <2>5, <2>6 DEF JobInv, JobsStand
  <2> QED BY <2>1, <2>4, <2>7 DEF JobInv
<1> QED BY <1>1, <1>2, <1>3, <1>4, <1>5, <1>6, <1>7 DEF Next, Works

LEMMA JobInvHolds ==
    ASSUME LeaseOutlivesJob, SingleConsole PROVE Spec => []JobInv
<1>1. JobInv /\ UNCHANGED vars => JobInv'
  BY DEF vars, asked, JobInv, JobsStand, Busy, Outstanding
<1> QED BY <1>1, JobInvInit, JobInvNext, PTL DEF Spec

\* One job of the connection is outstanding at a time and one worker performs it,
\* through refused and failed exchanges, leases that run out, lost workers and jobs
\* claimed again.
THEOREM OneJobHolds ==
    ASSUME LeaseOutlivesJob, SingleConsole
    PROVE  Spec => []OneJob
<1>1. JobInv => OneJob
  <2> SUFFICES ASSUME JobInv PROVE OneJob OBVIOUS
  <2>1. Cardinality(Outstanding) <= 1
    <3>1. CASE Outstanding = {} BY <3>1, FS_EmptySet
    <3>2. ASSUME NEW j \in Outstanding PROVE Cardinality(Outstanding) <= 1
      <4>1. Outstanding = {j} BY DEF JobInv, JobsStand
      <4> QED BY <4>1, FS_Singleton
    <3> QED BY <3>1, <3>2
  <2> QED BY <2>1 DEF OneJob, JobInv, JobsStand, Outstanding
<1> QED BY <1>1, JobInvHolds, PTL

-----------------------------------------------------------------------------
(* Facts about sets of rows. *)

\* The newest of some rows is one of them, and none is newer.
LEMMA NewestIs ==
    ASSUME NEW rows, IsFiniteSet(rows), rows # {}, \A row \in rows : row.generation \in Nat
    PROVE  /\ Newest(rows) \in rows
           /\ \A other \in rows : other.generation <= Newest(rows).generation
<1> DEFINE Top(T) == \E row \in T : \A other \in T : other.generation <= row.generation
           Bad == {T \in SUBSET rows : T # {} /\ ~Top(T)}
<1>1. Bad = {}
  <2> SUFFICES ASSUME Bad # {} PROVE FALSE OBVIOUS
  <2>1. FiniteSubsetsOf(rows) = SUBSET rows BY FS_FiniteSubsetsOfFinite
  <2>2. IsWellFoundedOn(StrictSubsetOrdering(rows), SUBSET rows)
    BY <2>1, FS_StrictSubsetOrderingWellFounded
  <2> HIDE DEF Bad
  <2>3. Bad \subseteq SUBSET rows BY DEF Bad
  <2>4. PICK T \in Bad : \A U \in Bad : ~(<<U, T>> \in StrictSubsetOrdering(rows))
    BY <2>2, <2>3, WFMin
  <2>5. T \in SUBSET rows /\ T # {} /\ ~Top(T) BY <2>4 DEF Bad
  <2>6. PICK x \in T : TRUE BY <2>5
  <2>7. T \ {x} \notin Bad BY <2>4, <2>5, <2>6 DEF StrictSubsetOrdering
  <2>8. CASE T \ {x} = {}
    <3>1. x.generation <= x.generation BY <2>5, <2>6
    <3> QED BY <2>5, <2>6, <2>8, <3>1
  <2>9. CASE T \ {x} # {}
    <3>1. PICK m \in T \ {x} : \A other \in T \ {x} : other.generation <= m.generation
      BY <2>5, <2>7, <2>9 DEF Bad
    <3>2. m.generation \in Nat /\ x.generation \in Nat /\ \A other \in T : other.generation \in Nat
      BY <2>5, <2>6, <3>1
    <3>3. CASE x.generation <= m.generation
      <4>1. \A other \in T : other.generation <= m.generation BY <3>1, <3>3
      <4> QED BY <4>1, <2>5, <3>1
    <3>4. CASE m.generation <= x.generation
      <4>1. \A other \in T : other.generation <= x.generation BY <3>1, <3>2, <3>4
      <4> QED BY <4>1, <2>5, <2>6
    <3> QED BY <3>2, <3>3, <3>4
  <2> QED BY <2>8, <2>9
<1>2. Top(rows)
  <2>1. rows \notin Bad BY <1>1
  <2> HIDE DEF Top
  <2> QED BY <2>1
<1> QED BY <1>2 DEF Newest

\* A set in any order has its members, and no others.
LEMMA InAnyOrder ==
    ASSUME NEW S, IsFiniteSet(S)
    PROVE  /\ SetToSeq(S) \in Seq(S)
           /\ \A x \in S : \E i \in DOMAIN SetToSeq(S) : SetToSeq(S)[i] = x
<1>1. Cardinality(S) \in Nat /\ ExistsBijection(1..Cardinality(S), S) BY FS_CardinalityType
<1>2. PICK n \in Nat : n = Cardinality(S) BY <1>1
<1>3. PICK g : g \in Bijection(1..n, S) BY <1>1, <1>2 DEF ExistsBijection
<1>4. g \in [1..n -> S] /\ IsInjective(g)
  BY <1>3 DEF Bijection, Injection, IsInjective
<1> DEFINE f == SetToSeq(S)
<1>5. f \in [1..n -> S] /\ IsInjective(f)
  BY <1>2, <1>4 DEF SetToSeq
<1> HIDE DEF f
<1>6. f \in Injection(1..n, S) BY <1>5 DEF Injection, IsInjective
<1>7. Cardinality(1..n) = n BY FS_Interval
<1>8. f \in Surjection(1..n, S) BY <1>2, <1>6, <1>7, FS_Injection
<1>9. \A x \in S : \E i \in 1..n : f[i] = x BY <1>8 DEF Surjection
<1>10. f \in Seq(S) /\ DOMAIN f = 1..n BY <1>5
<1> QED BY <1>9, <1>10 DEF f

\* What becomes of a finite set of rows is finite.
LEMMA GivenFinite ==
    ASSUME NEW rows, IsFiniteSet(rows), NEW status
    PROVE  IsFiniteSet({Given(row, status) : row \in rows})
<1> DEFINE T == {Given(row, status) : row \in rows}
           f == [row \in rows |-> Given(row, status)]
<1>1. f \in Surjection(rows, T) BY DEF Surjection
<1> HIDE DEF f, T
<1>2. IsFiniteSet(T) BY <1>1, FS_Surjection
<1> QED BY <1>2 DEF T

Marked(row, status) == [op |-> "mark", row |-> [row EXCEPT !.status = status]]

\* The rows to be marked, in any order.
LEMMA MarksAre ==
    ASSUME NEW rows, IsFiniteSet(rows), NEW status
    PROVE  /\ Marks(rows, status) \in Seq({Marked(row, status) : row \in rows})
           /\ \A row \in rows : \E i \in DOMAIN Marks(rows, status) :
                Marks(rows, status)[i] = Marked(row, status)
<1> DEFINE T == {Marked(row, status) : row \in rows}
           f == [row \in rows |-> Marked(row, status)]
<1>1. f \in Surjection(rows, T) BY DEF Surjection
<1>t. \A row \in rows : Marked(row, status) \in T OBVIOUS
<1>m. Marks(rows, status) = SetToSeq(T) BY DEF Marks, Marked
<1> HIDE DEF f, T
<1>2. IsFiniteSet(T) BY <1>1, FS_Surjection
<1>3. /\ SetToSeq(T) \in Seq(T)
      /\ \A x \in T : \E i \in DOMAIN SetToSeq(T) : SetToSeq(T)[i] = x
  BY <1>2, InAnyOrder
<1>4. \A row \in rows : \E i \in DOMAIN SetToSeq(T) : SetToSeq(T)[i] = Marked(row, status)
  BY <1>3, <1>t
<1> QED BY <1>3, <1>4, <1>m DEF T

-----------------------------------------------------------------------------
(* Types. *)

\* The types, and what a queued job, a worker that stages and one that retires
\* keys have beyond them.
TypeInv ==
    /\ TypeOK
    /\ IsFiniteSet(keyring)
    /\ \A j \in Jobs : job[j].state = "queued" => job[j].attempts = 0
    /\ \A w \in Workers :
        /\ worker[w].pc = "staging" => worker[w].pair # NoPair
        /\ \A i \in DOMAIN worker[w].todo :
            worker[w].todo[i].op = "supersede" => worker[w].todo[i].row.status = "superseded"

\* What a worker goes on to, of the right type.
Fine(r) ==
    /\ r \in WorkerState
    /\ r.pc = "staging" => r.pair # NoPair
    /\ \A i \in DOMAIN r.todo : r.todo[i].op = "supersede" => r.todo[i].row.status = "superseded"

\* Everything that does not change in the record of a worker.
Keeps(r, me) ==
    /\ r.job = me.job /\ r.request = me.request /\ r.seen = me.seen
    /\ r.ini = me.ini /\ r.hia = me.hia /\ r.pair = me.pair /\ r.prints = me.prints

LEMMA FailedIs ==
    ASSUME NEW me \in WorkerState
    PROVE  LET r == [me EXCEPT !.pc = "settling", !.outcome = "failed", !.todo = <<>>] IN
           Fine(r) /\ Keeps(r, me) /\ r.pc = "settling"
<1>0. <<>> \in Seq(Write) OBVIOUS
<1>1. PICK none \in Seq(Write) : none = <<>> BY <1>0
<1>2. DOMAIN none = {} BY <1>1
<1>3. LET r == [me EXCEPT !.pc = "settling", !.outcome = "failed", !.todo = none] IN
      r \in WorkerState /\ Keeps(r, me) /\ r.pc = "settling" /\ r.todo = none
  BY DEF Keeps, WorkerState
<1> QED BY <1>1, <1>2, <1>3 DEF Fine, Keeps

LEMMA WritingIs ==
    ASSUME NEW me \in WorkerState, NEW todo \in Seq(Write),
           NEW next \in {"trusting", "saving", "settling"},
           \A i \in DOMAIN todo : todo[i].op # "supersede"
    PROVE  LET r == [me EXCEPT !.pc = "writing", !.todo = todo, !.next = next] IN
           Fine(r) /\ Keeps(r, me) /\ r.pc = "writing" /\ r.todo = todo /\ r.next = next
BY DEF Fine, Keeps, WorkerState

LEMMA ResumedIs ==
    ASSUME NEW w \in Workers, worker[w] \in WorkerState, connection \in Connection,
           worker[w].pc # "staging", Fine(worker[w])
    PROVE  LET r == [Resumed(w) EXCEPT !.pc = "exchanging"] IN
           /\ Fine(r) /\ r.pc = "exchanging" /\ r.request = worker[w].request
           /\ r.pair = worker[w].pair /\ r.prints = worker[w].prints
           /\ r.ini = connection.ini /\ r.hia = connection.hia /\ r.seen = connection.state
BY DEF Fine, Resumed, WorkerState, Connection

LEMMA ConfirmingIs ==
    ASSUME NEW w \in Workers, worker[w] \in WorkerState, connection \in Connection,
           NEW pair \in Pairs \cup {NoPair}, NEW todo \in Seq(Write),
           \A i \in DOMAIN todo : todo[i].row.status = "superseded"
    PROVE  LET r == [Resumed(w) EXCEPT !.pc = "writing", !.pair = pair, !.prints = pair,
                                       !.todo = todo, !.next = "trusting"] IN
           /\ Fine(r) /\ r.pc = "writing" /\ r.request = worker[w].request
           /\ r.pair = pair /\ r.prints = pair /\ r.todo = todo /\ r.next = "trusting"
           /\ r.ini = connection.ini /\ r.hia = connection.hia /\ r.seen = connection.state
BY DEF Fine, Resumed, WorkerState, Connection

LEMMA RegisteredIs ==
    ASSUME NEW me \in WorkerState, Fine(me), NEW a \in BOOLEAN, NEW b \in BOOLEAN
    PROVE  LET r == [me EXCEPT !.pc = "saving", !.ini = a, !.hia = b] IN
           /\ Fine(r) /\ r.pc = "saving" /\ r.ini = a /\ r.hia = b
           /\ r.request = me.request /\ r.pair = me.pair /\ r.prints = me.prints
BY DEF Fine, WorkerState

LEMMA StagingIs ==
    ASSUME NEW me \in WorkerState, Fine(me), NEW pair \in Pairs
    PROVE  LET r == [me EXCEPT !.pc = "staging", !.pair = pair] IN
           /\ Fine(r) /\ r.pc = "staging" /\ r.pair = pair /\ r.prints = me.prints
           /\ r.ini = me.ini /\ r.hia = me.hia /\ r.seen = me.seen /\ r.request = me.request
BY PairAssumption DEF Fine, WorkerState

LEMMA MovesIs ==
    ASSUME NEW me \in WorkerState, Fine(me),
           NEW s \in {"saving", "settling"}
    PROVE  LET r == [me EXCEPT !.pc = s] IN
           Fine(r) /\ Keeps(r, me) /\ r.pc = s /\ r.todo = me.todo
BY DEF Fine, Keeps, WorkerState

LEMMA OneWritten ==
    ASSUME NEW me \in WorkerState, Fine(me), me.todo # <<>>
    PROVE  LET r == [me EXCEPT !.todo = Tail(me.todo)] IN
           /\ Fine(r) /\ Keeps(r, me) /\ r.pc = me.pc /\ r.next = me.next
           /\ r.todo = Tail(me.todo)
<1>1. me.todo \in Seq(Write) BY DEF WorkerState
<1>t. PICK todo \in Seq(Write) : todo = me.todo BY <1>1
<1>2. /\ Tail(todo) \in Seq(Write)
      /\ \A i \in DOMAIN Tail(todo) : i + 1 \in DOMAIN todo /\ Tail(todo)[i] = todo[i + 1]
  BY <1>t
<1>3. \A i \in DOMAIN Tail(todo) :
        Tail(todo)[i].op = "supersede" => Tail(todo)[i].row.status = "superseded"
  BY <1>2, <1>t DEF Fine
<1>p. PICK rest \in Seq(Write) : rest = Tail(todo) BY <1>2
<1>4. \A i \in DOMAIN rest : rest[i].op = "supersede" => rest[i].row.status = "superseded"
  BY <1>3, <1>p
<1>5. LET r == [me EXCEPT !.todo = rest] IN
      /\ r \in WorkerState /\ Keeps(r, me) /\ r.pc = me.pc /\ r.next = me.next /\ r.todo = rest
  BY DEF Keeps, WorkerState
<1> QED BY <1>4, <1>5, <1>t, <1>p DEF Fine, Keeps

LEMMA ClaimedIs ==
    ASSUME NEW j \in Jobs, NEW request \in Request
    PROVE  LET r == [Idle EXCEPT !.pc = "claimed", !.job = j, !.request = request] IN
           /\ Fine(r) /\ Fine(Idle) /\ Idle.pc = "idle" /\ r.pc = "claimed" /\ r.request = request
           /\ Idle.request = NoRequest
           /\ r.pair = NoPair /\ r.prints = NoPair /\ ~r.ini /\ ~r.hia
           /\ Idle.pair = NoPair /\ Idle.prints = NoPair /\ ~Idle.ini /\ ~Idle.hia
<1>1. 1 \in Jobs BY BoundsAssumption DEF Jobs
<1>2. NoRequest \in Request BY DEF NoRequest, Request, KeyActions
<1>3. <<>> \in Seq(Write) OBVIOUS
<1>4. Idle \in WorkerState BY <1>1, <1>2, <1>3 DEF Idle, WorkerState, KeyStates
<1>5. /\ Idle.todo = <<>> /\ Idle.pc = "idle" /\ Idle.request = NoRequest
      /\ Idle.pair = NoPair /\ Idle.prints = NoPair /\ ~Idle.ini /\ ~Idle.hia
  BY DEF Idle
<1>6. DOMAIN Idle.todo = {} BY <1>5
<1>7. Fine(Idle) BY <1>4, <1>5, <1>6 DEF Fine
<1>8. PICK me \in WorkerState : me = Idle BY <1>4
<1>9. LET r == [me EXCEPT !.pc = "claimed", !.job = j, !.request = request] IN
      /\ r \in WorkerState /\ r.pc = "claimed" /\ r.request = request
      /\ r.pair = me.pair /\ r.prints = me.prints /\ r.ini = me.ini /\ r.hia = me.hia
      /\ r.todo = me.todo
  BY DEF WorkerState
<1> QED BY <1>5, <1>6, <1>7, <1>8, <1>9 DEF Fine

\* A row that is given another status keeps its key, unless it is superseded.
LEMMA GivenIs ==
    ASSUME NEW row \in OwnKeys \cup BankKeys, NEW write \in Write,
           \/ write.op = "mark" /\ Same(row, write.row)
           \/ row.holder = "bank" /\ write.row.status = "superseded"
    PROVE  LET given == Given(row, write.row.status) IN
           /\ given \in OwnKeys \cup BankKeys /\ Same(given, row)
           /\ given.status = write.row.status
           /\ row.holder = "bank" /\ given.status # "superseded" => given.key = row.key
<1>1. CASE row.holder = "bank"
  <2>1. row \in BankKeys BY <1>1 DEF OwnKeys, BankKeys
  <2>2. write.row.status \in {"active", "pending", "superseded"}
    BY <1>1 DEF Write, OwnKeys, BankKeys, Same
  <2>3. PICK s \in {"active", "pending", "superseded"} : s = write.row.status BY <2>2
  <2>4. CASE s = "superseded"
    <3>1. /\ [row EXCEPT !.status = s, !.key = NoKey] \in BankKeys
          /\ Same([row EXCEPT !.status = s, !.key = NoKey], row)
          /\ [row EXCEPT !.status = s, !.key = NoKey].status = s
      BY <2>1 DEF BankKeys, Same
    <3> QED BY <1>1, <2>3, <2>4, <3>1 DEF Given
  <2>5. CASE s # "superseded"
    <3>1. /\ [row EXCEPT !.status = s] \in BankKeys
          /\ Same([row EXCEPT !.status = s], row)
          /\ [row EXCEPT !.status = s].status = s /\ [row EXCEPT !.status = s].key = row.key
      BY <2>1 DEF BankKeys, Same
    <3> QED BY <1>1, <2>3, <2>5, <3>1 DEF Given
  <2> QED BY <2>4, <2>5
<1>2. CASE row.holder # "bank"
  <2>1. row \in OwnKeys BY <1>2 DEF OwnKeys, BankKeys
  <2>2. write.row.status \in {"active", "suspended", "superseded"}
    BY <1>2, <2>1 DEF Write, OwnKeys, BankKeys, Same
  <2>3. PICK s \in {"active", "suspended", "superseded"} : s = write.row.status BY <2>2
  <2>4. /\ [row EXCEPT !.status = s] \in OwnKeys
        /\ Same([row EXCEPT !.status = s], row)
        /\ [row EXCEPT !.status = s].status = s
    BY <2>1 DEF OwnKeys, Same
  <2> QED BY <1>2, <2>3, <2>4 DEF Given
<1> QED BY <1>1, <1>2

LEMMA WrittenTyped ==
    ASSUME keyring \subseteq OwnKeys \cup BankKeys, IsFiniteSet(keyring), NEW write \in Write,
           write.op = "supersede" => write.row.status = "superseded"
    PROVE  Written(write) \subseteq OwnKeys \cup BankKeys /\ IsFiniteSet(Written(write))
<1> DEFINE new == IF write.op = "insert" THEN {write.row}
                  ELSE {Given(row, write.row.status) : row \in Hit(write)}
<1>1. Hit(write) \subseteq keyring BY DEF Hit, Active, Rows
<1>2. IsFiniteSet(Hit(write)) /\ IsFiniteSet(keyring \ Hit(write))
  BY <1>1, FS_Subset, FS_Difference
<1>3. IsFiniteSet(new)
  <2>1. IsFiniteSet({Given(row, write.row.status) : row \in Hit(write)})
    BY <1>2, GivenFinite, Zenon
  <2>2. IsFiniteSet({write.row}) BY FS_Singleton
  <2> QED BY <2>1, <2>2
<1>4. new \subseteq OwnKeys \cup BankKeys
  <2>1. CASE write.op = "insert" BY <2>1 DEF Write
  <2>2. ASSUME write.op # "insert", NEW row \in Hit(write)
        PROVE  Given(row, write.row.status) \in OwnKeys \cup BankKeys
    <3>1. row \in OwnKeys \cup BankKeys BY <1>1, <2>2
    <3>2. \/ write.op = "mark" /\ Same(row, write.row)
          \/ row.holder = "bank" /\ write.row.status = "superseded"
      BY <2>2 DEF Hit, Active, Rows, Write
    <3> QED BY <3>1, <3>2, GivenIs
  <2> QED BY <2>1, <2>2
<1>5. Written(write) = (keyring \ Hit(write)) \cup new BY DEF Written
<1> HIDE DEF new
<1>6. IsFiniteSet(Written(write)) BY <1>2, <1>3, <1>5, FS_Union
<1> QED BY <1>4, <1>5, <1>6

\* Rows of one holder or status, and the newest of one version, are rows.
LEMMA RowsOf ==
    ASSUME keyring \subseteq OwnKeys \cup BankKeys, IsFiniteSet(keyring)
    PROVE  /\ \A holder, status : /\ Rows(holder, status) \subseteq keyring
                                  /\ IsFiniteSet(Rows(holder, status))
           /\ \A rows \in SUBSET keyring : rows # {} =>
                Newest(rows) \in rows /\ Newest(rows).generation \in Nat
           /\ \A holder, version : Active(holder, version) \in SUBSET keyring
           /\ \A version : Staged(version) \in SUBSET keyring
           /\ NextGeneration \in Nat
<1>1. \A row \in keyring : row.generation \in Nat BY DEF OwnKeys, BankKeys
<1>2. ASSUME NEW rows \in SUBSET keyring, rows # {}
      PROVE  Newest(rows) \in rows /\ Newest(rows).generation \in Nat
  BY <1>1, <1>2, NewestIs, FS_Subset
<1>3. ASSUME NEW holder, NEW status
      PROVE  Rows(holder, status) \subseteq keyring /\ IsFiniteSet(Rows(holder, status))
  BY FS_Subset DEF Rows
<1>4. NextGeneration \in Nat
  <2> DEFINE bank == {row \in keyring : row.holder = "bank"}
  <2>1. bank = {} \/ Newest(bank).generation \in Nat BY <1>2
  <2> HIDE DEF bank
  <2>2. NextGeneration = 1 + (IF bank = {} THEN 0 ELSE Newest(bank).generation)
    BY DEF NextGeneration, bank
  <2> QED BY <2>1, <2>2
<1> QED BY <1>2, <1>3, <1>4 DEF Active, Staged, Rows

\* What marks rows of the keyring is a sequence of writes.
LEMMA MarksTyped ==
    ASSUME keyring \subseteq OwnKeys \cup BankKeys, IsFiniteSet(keyring),
           NEW rows \in SUBSET keyring, NEW status,
           \/ status \in {"active", "superseded"}
           \/ status = "suspended" /\ \A row \in rows : row.holder = "subscriber"
    PROVE  /\ Marks(rows, status) \in Seq(Write)
           /\ \A i \in DOMAIN Marks(rows, status) :
                /\ Marks(rows, status)[i].op = "mark"
                /\ Marks(rows, status)[i].row.status = status
                /\ \E row \in rows : Same(Marks(rows, status)[i].row, row)
           /\ \A row \in rows : \E i \in DOMAIN Marks(rows, status) :
                Same(Marks(rows, status)[i].row, row)
<1> DEFINE marks == Marks(rows, status)
<1>1. IsFiniteSet(rows) BY FS_Subset
<1>2. /\ marks \in Seq({Marked(row, status) : row \in rows})
      /\ \A row \in rows : \E i \in DOMAIN marks : marks[i] = Marked(row, status)
  BY <1>1, MarksAre
<1>3. ASSUME NEW row \in rows
      PROVE  /\ Marked(row, status) \in Write /\ Marked(row, status).op = "mark"
             /\ Marked(row, status).row.status = status /\ Same(Marked(row, status).row, row)
  <2>1. PICK given : given = [row EXCEPT !.status = status] OBVIOUS
  <2>2. given \in OwnKeys \cup BankKeys /\ given.status = status /\ Same(given, row)
    <3>1. CASE row \in OwnKeys BY <2>1, <3>1 DEF OwnKeys, BankKeys, Same
    <3>2. CASE row \in BankKeys BY <2>1, <3>2 DEF OwnKeys, BankKeys, Same
    <3> QED BY <3>1, <3>2
  <2>3. Marked(row, status) = [op |-> "mark", row |-> given] BY <2>1 DEF Marked
  <2> QED BY <2>2, <2>3 DEF Write
<1> HIDE DEF marks
<1>4. \A i \in DOMAIN marks : \E row \in rows : marks[i] = Marked(row, status) BY <1>2
<1>5. {Marked(row, status) : row \in rows} \subseteq Write BY <1>3
<1>6. marks \in Seq(Write) BY <1>2, <1>5
<1> QED BY <1>2, <1>3, <1>4, <1>6 DEF marks

\* What a worker may write for a version of ours or of the bank's.
LEMMA InsertsTyped ==
    /\ \A version \in SUBSCRIBER_VERSIONS, generation \in Nat :
        Insert(Own(version, generation, "active")) \in Write
    /\ \A version \in BANK_VERSIONS, generation \in Nat, key \in Keys :
        Insert(Theirs(version, generation, key, "pending")) \in Write
    /\ \A version \in BANK_VERSIONS : Supersede(version) \in Write
<1>1. \A version \in SUBSCRIBER_VERSIONS, generation \in Nat :
        Own(version, generation, "active") \in OwnKeys
  BY DEF Own, OwnKeys
<1>2. \A version \in BANK_VERSIONS, generation \in Nat, key \in Keys :
        Theirs(version, generation, key, "pending") \in BankKeys
  BY DEF Theirs, BankKeys
<1>3. \A version \in BANK_VERSIONS : Own(version, 0, "superseded") \in OwnKeys
  BY DEF Own, OwnKeys, BANK_VERSIONS, SUBSCRIBER_VERSIONS
<1> QED BY <1>1, <1>2, <1>3 DEF Insert, Supersede, Write

LEMMA OneMarkTyped ==
    ASSUME keyring \subseteq OwnKeys \cup BankKeys, IsFiniteSet(keyring), NEW row \in keyring
    PROVE  /\ Marks({row}, "superseded") \in Seq(Write)
           /\ \A i \in DOMAIN Marks({row}, "superseded") : Marks({row}, "superseded")[i].op = "mark"
<1>1. PICK rows \in SUBSET keyring : rows = {row} OBVIOUS
<1>2. PICK status \in {"active", "superseded"} : status = "superseded" OBVIOUS
<1>3. /\ Marks(rows, status) \in Seq(Write)
      /\ \A i \in DOMAIN Marks(rows, status) : Marks(rows, status)[i].op = "mark"
  BY MarksTyped
<1> QED BY <1>1, <1>2, <1>3

\* A plan of writes: the marks first, in any order, then what is inserted.
LEMMA PlanIs ==
    ASSUME NEW marks \in Seq(Write), NEW more \in Seq(Write)
    PROVE  /\ marks \o more \in Seq(Write)
           /\ DOMAIN (marks \o more) = 1..(Len(marks) + Len(more))
           /\ \A i \in DOMAIN marks : i \in DOMAIN (marks \o more) /\ (marks \o more)[i] = marks[i]
           /\ \A i \in DOMAIN (marks \o more) :
                \/ i \in DOMAIN marks /\ (marks \o more)[i] = marks[i]
                \/ i - Len(marks) \in DOMAIN more /\ (marks \o more)[i] = more[i - Len(marks)]
OBVIOUS

\* What every step of a worker makes of its record, of whatever it is doing.
LEMMA WorksTyped ==
    ASSUME TypeInv, NEW w \in Workers, Works(w), ~Settle(w)
    PROVE  \E r : Fine(r) /\ Becomes(w, r)
<1> DEFINE Goes == \E r : Fine(r) /\ Becomes(w, r)
<1>0. /\ worker[w] \in WorkerState /\ Fine(worker[w]) /\ connection \in Connection
      /\ keyring \subseteq OwnKeys \cup BankKeys /\ IsFiniteSet(keyring)
      /\ worker[w].request.versions \subseteq SUBSCRIBER_VERSIONS
      /\ worker[w].request.letter \in Pairs \cup {NoPair}
  BY DEF TypeInv, TypeOK, Fine, WorkerState, Request
<1>1. ASSUME Fails(w) PROVE Goes
  <2> DEFINE r == [worker[w] EXCEPT !.pc = "settling", !.outcome = "failed", !.todo = <<>>]
  <2>1. Fine(r) BY <1>0, FailedIs
  <2> QED BY <1>1, <2>1 DEF Fails
<1>2. ASSUME NEW todo \in Seq(Write), NEW next \in {"trusting", "saving", "settling"},
             \A i \in DOMAIN todo : todo[i].op # "supersede", Writes(w, todo, next)
      PROVE  Goes
  <2> DEFINE r == [worker[w] EXCEPT !.pc = "writing", !.todo = todo, !.next = next]
  <2>1. Fine(r) BY <1>0, <1>2, WritingIs
  <2> QED BY <1>2, <2>1 DEF Writes
<1>3. ASSUME NEW s \in {"saving", "settling"}, Becomes(w, [worker[w] EXCEPT !.pc = s])
      PROVE  Goes
  <2>1. Fine([worker[w] EXCEPT !.pc = s]) BY <1>0, MovesIs
  <2> QED BY <1>3, <2>1
<1>4. ASSUME worker[w].pc = "claimed", Becomes(w, [Resumed(w) EXCEPT !.pc = "exchanging"])
      PROVE  Goes
  <2>1. Fine([Resumed(w) EXCEPT !.pc = "exchanging"]) BY <1>0, <1>4, ResumedIs
  <2> QED BY <1>4, <2>1
<1>5. CASE NotAvailable(w) \/ WriteFails(w)
  BY <1>5, <1>1 DEF NotAvailable, WriteFails
<1>6. CASE CreateKeys(w)
  <2> DEFINE todo == <<Insert(Own("A006", 1, "active")), Insert(Own("X002", 1, "active")),
                       Insert(Own("E002", 1, "active"))>>
  <2>1. todo \in Seq(Write) BY InsertsTyped DEF SUBSCRIBER_VERSIONS
  <2>2. \A i \in DOMAIN todo : todo[i].op # "supersede" BY DEF Insert
  <2>3. Fails(w) \/ Writes(w, todo, "settling") BY <1>6 DEF CreateKeys
  <2> HIDE DEF todo
  <2> QED BY <2>1, <2>2, <2>3, <1>1, <1>2
<1>7. CASE RenewKey(w)
  <2>1. PICK version \in worker[w].request.versions :
            LET current == Active("subscriber", version) IN
            IF current = {} THEN Fails(w)
            ELSE Writes(w, Marks({Newest(current)}, "superseded") \o
                <<Insert(Own(version, Newest(current).generation + 1, "active"))>>, "settling")
    BY <1>7 DEF RenewKey
  <2>2. CASE Active("subscriber", version) = {} BY <1>1, <2>1, <2>2
  <2>3. CASE Active("subscriber", version) # {}
    <3>1. PICK row \in Active("subscriber", version) :
            /\ row = Newest(Active("subscriber", version)) /\ row.generation \in Nat
            /\ row \in keyring
      BY <1>0, <2>3, RowsOf
    <3> DEFINE marks == Marks({row}, "superseded")
               more == <<Insert(Own(version, row.generation + 1, "active"))>>
    <3>2. marks \in Seq(Write) /\ \A i \in DOMAIN marks : marks[i].op = "mark"
      BY <1>0, <3>1, OneMarkTyped
    <3>3. version \in SUBSCRIBER_VERSIONS /\ row.generation + 1 \in Nat BY <1>0, <3>1
    <3>4. more \in Seq(Write) BY <3>3, InsertsTyped
    <3>5. \A i \in DOMAIN more : more[i].op = "insert" BY DEF Insert
    <3>6. Writes(w, marks \o more, "settling") BY <2>1, <2>3, <3>1
    <3> HIDE DEF marks, more
    <3>7. marks \o more \in Seq(Write) BY <3>2, <3>4, PlanIs
    <3>8. \A i \in DOMAIN (marks \o more) : (marks \o more)[i].op # "supersede"
      BY <3>2, <3>4, <3>5, PlanIs
    <3> QED BY <1>2, <3>6, <3>7, <3>8
  <2> QED BY <2>2, <2>3
<1>8. CASE SuspendKeys(w)
  <2> DEFINE affected == {row \in Rows("subscriber", "active") :
                            row.version \in worker[w].request.versions}
  <2>1. Fails(w) \/ Writes(w, Marks(affected, "suspended"), "settling")
    BY <1>8 DEF SuspendKeys
  <2>2. affected \in SUBSET keyring /\ \A row \in affected : row.holder = "subscriber"
    BY DEF Rows
  <2> HIDE DEF affected
  <2>r. PICK rows \in SUBSET keyring : rows = affected BY <2>2
  <2>3. /\ Marks(affected, "suspended") \in Seq(Write)
        /\ \A i \in DOMAIN Marks(affected, "suspended") : Marks(affected, "suspended")[i].op = "mark"
    BY <1>0, <2>2, <2>r, MarksTyped
  <2> QED BY <1>1, <1>2, <2>1, <2>3
<1>9. ASSUME NEW status \in {"active", "superseded"}, NEW next \in {"settling", "saving"},
             Writes(w, Marks(Rows("bank", "pending"), status), next)
      PROVE  Goes
  <2> DEFINE marks == Marks(Rows("bank", "pending"), status)
  <2>r. PICK rows \in SUBSET keyring : rows = Rows("bank", "pending") BY <1>0, RowsOf
  <2>t. /\ Marks(rows, status) \in Seq(Write)
        /\ \A i \in DOMAIN Marks(rows, status) : Marks(rows, status)[i].op = "mark"
    BY <1>0, MarksTyped
  <2>1. marks \in Seq(Write) /\ \A i \in DOMAIN marks : marks[i].op = "mark"
    BY <2>r, <2>t
  <2> HIDE DEF marks
  <2> QED BY <1>2, <1>9, <2>1 DEF marks
<1>10. CASE DeclineBankKeys(w)
  BY <1>1, <1>9, <1>10 DEF DeclineBankKeys
<1>11. CASE Register(w, "send_ini") \/ Register(w, "send_hia") \/ FetchHPB(w)
  BY <1>1, <1>4, <1>11 DEF Register, FetchHPB, Performs
<1>12. CASE FetchCatalogue(w) BY <1>1, <1>3, <1>12 DEF FetchCatalogue
<1>13. CASE ConfirmBankKeys(w)
  <2> DEFINE pair == <<Newest(Staged("X002")).key, Newest(Staged("E002")).key>>
             todo == <<Supersede("X002"), Supersede("E002")>>
  <2>1. CASE Fails(w) BY <1>1, <2>1
  <2>2. CASE ~Fails(w)
    <3>1. /\ pair = worker[w].request.letter
          /\ Becomes(w, [Resumed(w) EXCEPT !.pc = "writing", !.pair = pair, !.prints = pair,
                                           !.todo = todo, !.next = "trusting"])
      BY <1>13, <2>2 DEF ConfirmBankKeys, Matches
    <3>2. todo \in Seq(Write) BY InsertsTyped DEF BANK_VERSIONS
    <3>3. \A i \in DOMAIN todo : todo[i].row.status = "superseded" BY DEF Supersede, Own
    <3> HIDE DEF pair, todo
    <3>4. pair \in Pairs \cup {NoPair} BY <1>0, <3>1
    <3> QED BY <1>0, <3>1, <3>2, <3>3, <3>4, ConfirmingIs
  <2> QED BY <2>1, <2>2
<1>14. CASE RegistrationSent(w)
  <2>1. CASE Fails(w) BY <1>1, <2>1
  <2>2. CASE ~Fails(w)
    <3> DEFINE a == worker[w].ini \/ worker[w].request.action = "send_ini"
               b == worker[w].hia \/ worker[w].request.action = "send_hia"
    <3>1. Becomes(w, [worker[w] EXCEPT !.pc = "saving", !.ini = a, !.hia = b])
      BY <1>14, <2>2 DEF RegistrationSent
    <3>2. a \in BOOLEAN /\ b \in BOOLEAN OBVIOUS
    <3> HIDE DEF a, b
    <3> QED BY <1>0, <3>1, <3>2, RegisteredIs
  <2> QED BY <2>1, <2>2
<1>15. CASE HPBAnswered(w)
  <2>1. ASSUME NEW pair \in Pairs, Becomes(w, [worker[w] EXCEPT !.pc = "staging", !.pair = pair])
        PROVE  Goes
    BY <1>0, <2>1, StagingIs
  <2> QED BY <1>1, <1>15, <2>1 DEF HPBAnswered
<1>16. CASE Stage(w)
  <2> DEFINE marks == Marks(Rows("bank", "pending"), "superseded")
             more == <<Insert(Theirs("X002", NextGeneration, worker[w].pair[1], StagedAs)),
                       Insert(Theirs("E002", NextGeneration, worker[w].pair[2], StagedAs))>>
             next == IF worker[w].seen = "keys_sent" THEN "saving" ELSE "settling"
  <2>1. Writes(w, marks \o more, next) BY <1>16 DEF Stage
  <2>2. marks \in Seq(Write) /\ \A i \in DOMAIN marks : marks[i].op = "mark"
    BY <1>0, RowsOf, MarksTyped
  <2>3. worker[w].pair[1] \in Keys /\ worker[w].pair[2] \in Keys /\ NextGeneration \in Nat
    <3>1. worker[w].pair \in Pairs BY <1>0, <1>16 DEF Stage, Fine, WorkerState
    <3> QED BY <1>0, <3>1, RowsOf, PairAssumption
  <2>4. more \in Seq(Write) BY <2>3, InsertsTyped DEF BANK_VERSIONS, StagedAs
  <2>5. \A i \in DOMAIN more : more[i].op = "insert" BY DEF Insert
  <2>6. next \in {"trusting", "saving", "settling"} OBVIOUS
  <2> HIDE DEF marks, more, next
  <2>7. marks \o more \in Seq(Write) BY <2>2, <2>4, PlanIs
  <2>8. \A i \in DOMAIN (marks \o more) : (marks \o more)[i].op # "supersede"
    BY <2>2, <2>4, <2>5, PlanIs
  <2> QED BY <1>2, <2>1, <2>6, <2>7, <2>8
<1>17. CASE WriteRow(w)
  BY <1>0, <1>1, <1>17, OneWritten DEF WriteRow
<1>18. CASE WritesDone(w)
  <2>1. worker[w].next \in {"trusting", "saving", "settling"} BY <1>0 DEF WorkerState
  <2> QED BY <1>3, <1>9, <1>18, <2>1 DEF WritesDone
<1>19. CASE SaveProgress(w) BY <1>3, <1>19 DEF SaveProgress
<1> QED
  BY <1>5, <1>6, <1>7, <1>8, <1>10, <1>11, <1>12, <1>13, <1>14, <1>15, <1>16, <1>17, <1>18, <1>19
  DEF Works

\* Every step of a worker keeps the types.
LEMMA WorksKeepTypes ==
    ASSUME TypeInv, NEW w \in Workers, Works(w), ~Settle(w)
    PROVE  TypeInv'
<1>1. PICK r : Fine(r) /\ Becomes(w, r) BY WorksTyped
<1>2. UNCHANGED <<job, console, compared>>
  BY DEF Works, NotAvailable, CreateKeys, RenewKey, SuspendKeys, Register, FetchHPB,
     FetchCatalogue, ConfirmBankKeys, DeclineBankKeys, Performs, RegistrationSent, HPBAnswered,
     Stage, WriteRow, WriteFails, WritesDone, SaveProgress, asked
<1>3. worker' \in [Workers -> WorkerState] /\ \A v \in Workers : Fine(worker'[v])
  BY <1>1 DEF Becomes, TypeInv, TypeOK, Fine
<1>4. connection' \in Connection
  <2>1. CASE UNCHANGED connection BY <2>1 DEF TypeInv, TypeOK
  <2>2. CASE SaveProgress(w)
    <3>1. worker[w] \in WorkerState BY DEF TypeInv, TypeOK
    <3> QED BY <2>2, <3>1 DEF SaveProgress, WorkerState, Connection, StateOf, KeyStates
  <2> QED
    BY <2>1, <2>2 DEF Works, NotAvailable, CreateKeys, RenewKey, SuspendKeys, Register, FetchHPB,
       FetchCatalogue, ConfirmBankKeys, DeclineBankKeys, Performs, RegistrationSent, HPBAnswered,
       Stage, WriteRow, WriteFails, WritesDone
<1>5. keyring' \subseteq OwnKeys \cup BankKeys /\ IsFiniteSet(keyring')
  <2>1. CASE UNCHANGED keyring BY <2>1 DEF TypeInv, TypeOK
  <2>2. CASE WriteRow(w) /\ ~UNCHANGED keyring
    <3>1. PICK write : write = Head(worker[w].todo) OBVIOUS
    <3>2. keyring' = Written(write) BY <2>2, <3>1 DEF WriteRow
    <3>3. write \in Write /\ (write.op = "supersede" => write.row.status = "superseded")
      <4>1. worker[w].todo \in Seq(Write) /\ worker[w].todo # <<>>
        BY <2>2 DEF WriteRow, TypeInv, TypeOK, WorkerState
      <4> QED BY <3>1, <4>1 DEF TypeInv
    <3> QED BY <3>2, <3>3, WrittenTyped DEF TypeInv, TypeOK
  <2> QED
    BY <2>1, <2>2 DEF Works, NotAvailable, CreateKeys, RenewKey, SuspendKeys, Register, FetchHPB,
       FetchCatalogue, ConfirmBankKeys, DeclineBankKeys, Performs, RegistrationSent, HPBAnswered,
       Stage, WriteFails, WritesDone, SaveProgress
<1>6. onFile' \subseteq OwnKeys /\ faults' \in Nat
  <2>1. CASE RegistrationSent(w) /\ ~UNCHANGED onFile
    <3>1. HasKeys /\ onFile' = onFile \cup Sends(worker[w].request.action) /\ UNCHANGED faults
      BY <2>1 DEF RegistrationSent
    <3>2. \A version \in SUBSCRIBER_VERSIONS : Newest(Active("subscriber", version)) \in OwnKeys
      <4> TAKE version \in SUBSCRIBER_VERSIONS
      <4>1. Newest(Active("subscriber", version)) \in Active("subscriber", version)
        BY <3>1, RowsOf DEF HasKeys, TypeInv, TypeOK
      <4> QED BY <4>1 DEF Active, Rows, TypeInv, TypeOK, OwnKeys, BankKeys
    <3>3. Sends(worker[w].request.action) \subseteq OwnKeys
      BY <3>2 DEF Sends, SUBSCRIBER_VERSIONS
    <3> QED BY <3>1, <3>3 DEF TypeInv, TypeOK
  <2>2. CASE UNCHANGED onFile
    <3>1. UNCHANGED faults \/ faults' = faults + 1
      BY DEF Works, NotAvailable, CreateKeys, RenewKey, SuspendKeys, Register, FetchHPB,
         FetchCatalogue, ConfirmBankKeys, DeclineBankKeys, Performs, RegistrationSent, HPBAnswered,
         Stage, WriteRow, WriteFails, WritesDone, SaveProgress
    <3> QED BY <2>2, <3>1 DEF TypeInv, TypeOK
  <2> QED
    BY <2>1, <2>2 DEF Works, NotAvailable, CreateKeys, RenewKey, SuspendKeys, Register, FetchHPB,
       FetchCatalogue, ConfirmBankKeys, DeclineBankKeys, Performs, HPBAnswered,
       Stage, WriteRow, WriteFails, WritesDone, SaveProgress
<1> QED BY <1>2, <1>3, <1>4, <1>5, <1>6 DEF TypeInv, TypeOK, Fine

LEMMA TypeInvInit == Init => TypeInv
<1> SUFFICES ASSUME Init PROVE TypeInv OBVIOUS
<1>1. connection \in Connection
  <2>1. CASE connection = [state |-> "created", ini |-> FALSE, hia |-> FALSE, prints |-> NoPair]
    BY <2>1 DEF Connection, KeyStates
  <2>2. CASE connection = [state |-> "keys_sent", ini |-> TRUE, hia |-> TRUE, prints |-> NoPair]
    BY <2>2 DEF Connection, KeyStates
  <2> QED BY <2>1, <2>2 DEF Init
<1>2. keyring \subseteq OwnKeys /\ IsFiniteSet(keyring) /\ onFile \subseteq OwnKeys
  <2>1. CASE keyring = {} /\ onFile = {} BY <2>1, FS_EmptySet
  <2>2. CASE /\ keyring = {Own(version, 1, "active") : version \in SUBSCRIBER_VERSIONS}
             /\ onFile = keyring
    <3>1. keyring = ({Own("A006", 1, "active")} \cup {Own("X002", 1, "active")})
                    \cup {Own("E002", 1, "active")}
      BY <2>2 DEF SUBSCRIBER_VERSIONS
    <3>2. IsFiniteSet(keyring) BY <3>1, FS_Singleton, FS_Union
    <3>3. keyring \subseteq OwnKeys BY <3>1 DEF Own, OwnKeys, SUBSCRIBER_VERSIONS
    <3> QED BY <2>2, <3>2, <3>3
  <2> QED BY <2>1, <2>2 DEF Init
<1>3. NoRequest \in Request BY DEF NoRequest, Request, KeyActions
<1>4. job \in [Jobs -> JobRow] /\ \A j \in Jobs : job[j].state = "none"
  BY <1>3, BoundsAssumption DEF Init, Settled, JobRow
<1>5. 1 \in Jobs BY BoundsAssumption DEF Jobs
<1>6. Fine(Idle) /\ Idle.pc = "idle" BY <1>3, <1>5, ClaimedIs
<1>7. worker \in [Workers -> WorkerState] /\ \A w \in Workers : Fine(worker[w])
  BY <1>6 DEF Init, Fine
<1>8. console \in [Consoles -> ConsoleState] BY <1>3 DEF Init, Waiting, ConsoleState
<1>9. compared \subseteq Pairs /\ faults \in Nat BY DEF Init
<1> QED BY <1>1, <1>2, <1>4, <1>7, <1>8, <1>9 DEF TypeInv, TypeOK, Fine

LEMMA TypeInvNext == TypeInv /\ [Next]_vars => TypeInv'
<1> SUFFICES ASSUME TypeInv, [Next]_vars PROVE TypeInv' OBVIOUS
<1>0. NoRequest \in Request /\ 1 \in Jobs
  BY BoundsAssumption DEF NoRequest, Request, KeyActions, Jobs
<1>1. ASSUME NEW w \in Workers, Works(w), ~Settle(w) PROVE TypeInv' BY <1>1, WorksKeepTypes
<1>2. ASSUME NEW w \in Workers, NEW r, Fine(r), Becomes(w, r), job' \in [Jobs -> JobRow],
             \A j \in Jobs : job'[j].state = "queued" => job'[j].attempts = 0,
             UNCHANGED <<connection, keyring, asked, onFile>>, faults' \in Nat
      PROVE  TypeInv'
  <2>1. worker' \in [Workers -> WorkerState] /\ \A v \in Workers : Fine(worker'[v])
    BY <1>2 DEF Becomes, TypeInv, TypeOK, Fine
  <2> QED BY <1>2, <2>1 DEF TypeInv, TypeOK, Fine, asked
<1>3. ASSUME NEW w \in Workers, Settle(w) PROVE TypeInv'
  <2>1. Settled(worker[w].outcome) \in JobRow /\ worker[w].job \in Jobs
    BY <1>0, BoundsAssumption DEF Settled, JobRow, TypeInv, TypeOK, WorkerState
  <2>2. Settled(worker[w].outcome).state # "queued"
    BY DEF Settled, TypeInv, TypeOK, WorkerState
  <2>3. /\ job' = [job EXCEPT ![worker[w].job] = Settled(worker[w].outcome)]
        /\ Becomes(w, Idle) /\ UNCHANGED <<connection, keyring, asked, onFile, faults>>
    BY <1>3 DEF Settle
  <2>4. /\ job' \in [Jobs -> JobRow]
        /\ \A j \in Jobs : job'[j].state = "queued" => job'[j].attempts = 0
    BY <2>1, <2>2, <2>3 DEF TypeInv, TypeOK
  <2> QED BY <1>0, <1>2, <2>3, <2>4, ClaimedIs DEF TypeInv, TypeOK
<1>4. ASSUME NEW w \in Workers, WorkerLost(w) PROVE TypeInv'
  <2>1. /\ Becomes(w, Idle) /\ UNCHANGED <<connection, keyring, job, asked, onFile>>
        /\ faults' \in Nat
    BY <1>4 DEF WorkerLost, TypeInv, TypeOK
  <2>2. Fine(Idle) BY <1>0, ClaimedIs
  <2>3. /\ job' \in [Jobs -> JobRow]
        /\ \A j \in Jobs : job'[j].state = "queued" => job'[j].attempts = 0
    BY <2>1 DEF TypeInv, TypeOK
  <2> QED BY <1>2, <2>1, <2>2, <2>3
<1>5. ASSUME NEW w \in Workers, NEW j \in Jobs, Claim(w, j) PROVE TypeInv'
  <2> DEFINE row == [job[j] EXCEPT !.state = "running", !.claim = "held",
                                   !.attempts = job[j].attempts + 1]
  <2>1. job[j] \in JobRow /\ job[j].request \in Request BY DEF TypeInv, TypeOK, JobRow
  <2>2. job[j].attempts + 1 \in 0..MAX_ATTEMPTS
    BY <1>5, <2>1, BoundsAssumption DEF Claim, Claimable, TypeInv, JobRow
  <2>3. row \in JobRow /\ row.state = "running" BY <2>1, <2>2 DEF JobRow
  <2>4. job' = [job EXCEPT ![j] = row] BY <1>5 DEF Claim, TypeInv, TypeOK
  <2> HIDE DEF row
  <2>5. /\ job' \in [Jobs -> JobRow]
        /\ \A i \in Jobs : job'[i].state = "queued" => job'[i].attempts = 0
    BY <2>3, <2>4 DEF TypeInv, TypeOK
  <2>6. Fine([Idle EXCEPT !.pc = "claimed", !.job = j, !.request = job[j].request])
    BY <2>1, ClaimedIs
  <2> QED BY <1>2, <1>5, <2>5, <2>6 DEF Claim, Becomes, TypeInv, TypeOK
<1>6. ASSUME NEW j \in Jobs, LeaseExpires(j) PROVE TypeInv'
  <2>1. job' = [job EXCEPT ![j] = [job[j] EXCEPT !.claim = "expired"]]
    BY <1>6 DEF LeaseExpires, TypeInv, TypeOK
  <2>2. /\ [job[j] EXCEPT !.claim = "expired"] \in JobRow
        /\ [job[j] EXCEPT !.claim = "expired"].state = job[j].state
        /\ [job[j] EXCEPT !.claim = "expired"].attempts = job[j].attempts
    BY DEF TypeInv, TypeOK, JobRow
  <2>3. /\ job' \in [Jobs -> JobRow]
        /\ \A i \in Jobs : job'[i].state = "queued" => job'[i].attempts = 0
    BY <2>1, <2>2 DEF TypeInv, TypeOK
  <2> QED BY <1>6, <2>3 DEF LeaseExpires, TypeInv, TypeOK, asked
<1>7. ASSUME NEW c \in Consoles, NEW request \in Requests, Ask(c, request) PROVE TypeInv'
  <2>1. request \in Request BY ManagedAssumption DEF Requests, Request, SUBSCRIBER_VERSIONS, KeyActions
  <2>2. console' \in [Consoles -> ConsoleState] /\ compared' \subseteq Pairs
    BY <1>7, <2>1 DEF Ask, TypeInv, TypeOK, ConsoleState, Request
  <2> QED BY <1>7, <2>2 DEF Ask, TypeInv, TypeOK
<1>8. ASSUME NEW c \in Consoles, Enqueue(c) PROVE TypeInv'
  <2>1. console[c].request \in Request BY DEF TypeInv, TypeOK, ConsoleState
  <2>2. Queued(console[c].request) \in JobRow /\ Queued(console[c].request).attempts = 0
    BY <2>1, BoundsAssumption DEF Queued, JobRow
  <2>3. PICK j \in Jobs : job' = [job EXCEPT ![j] = Queued(console[c].request)]
    BY <1>8 DEF Enqueue
  <2>4. /\ job' \in [Jobs -> JobRow]
        /\ \A i \in Jobs : job'[i].state = "queued" => job'[i].attempts = 0
    BY <2>2, <2>3 DEF TypeInv, TypeOK
  <2>5. console' \in [Consoles -> ConsoleState]
    BY <1>0, <1>8 DEF Enqueue, Waiting, ConsoleState, TypeInv, TypeOK
  <2> QED BY <1>8, <2>4, <2>5 DEF Enqueue, TypeInv, TypeOK
<1>9. CASE UNCHANGED vars BY <1>9 DEF vars, asked, TypeInv, TypeOK
<1> QED BY <1>1, <1>3, <1>4, <1>5, <1>6, <1>7, <1>8, <1>9 DEF Next

\* Rows, jobs, workers and handlers have their types, and the keyring is finite.
THEOREM TypeInvHolds == Spec => []TypeInv
BY TypeInvInit, TypeInvNext, PTL DEF Spec

-----------------------------------------------------------------------------
(* What the rows of the keyring say, and what a worker has ahead of it.     *)

\* The rows of the bank that are in use, or that wait to be confirmed.
Live(version) ==
    {row \in keyring : row.holder = "bank" /\ row.version = version
                       /\ row.status \in {"active", "pending"}}

AtMostOne(S) == \A x, y \in S : x = y

KeyOf(pair, version) == IF version = "X002" THEN pair[1] ELSE pair[2]

\* A key has one row for each generation.  At most one of each version is in
\* use, and at most one waits; those in use came as a pair that was compared.
RowsStand ==
    /\ \A row, other \in keyring : Same(row, other) => row = other
    /\ \A version \in BANK_VERSIONS :
        /\ AtMostOne(Active("bank", version)) /\ AtMostOne(Staged(version))
        /\ \A row \in Live(version) : row.key \in Keys
    /\ \A x \in Active("bank", "X002"), e \in Active("bank", "E002") :
        <<x.key, e.key>> \in compared

\* A letter that was asked about was read.
LettersRead ==
    /\ \A c \in Consoles : console[c].request.letter \in compared \cup {NoPair}
    /\ \A j \in Jobs : job[j].request.letter \in compared \cup {NoPair}
    /\ \A w \in Workers : worker[w].request.letter \in compared \cup {NoPair}

OnFile(version) == \E row \in onFile : row.version = version

\* What the progress of a connection, or of a worker, claims.
Filed(r) ==
    /\ r.ini => OnFile("A006")
    /\ r.hia => OnFile("X002") /\ OnFile("E002")

ProgressStands ==
    /\ Filed(connection)
    /\ connection.ini <=> connection.state # "created"
    /\ connection.hia <=> connection.state \in Registered
    /\ connection.state # "hia_sent"
    /\ connection.state = "ready" <=> connection.prints # NoPair
    /\ connection.prints \in compared \cup {NoPair}

\* Keys of ours are written, keys of the bank set aside, and those that came
\* inserted: after whatever waits has been set aside.
Bank(write) == write.row.holder = "bank"
SetsAside(write) == write.op = "mark" /\ write.row.status = "superseded"
Adds(write) == write.op = "insert" /\ Bank(write)
Orderly(todo) ==
    \A i \in DOMAIN todo :
        /\ todo[i].op # "supersede"
        /\ Bank(todo[i]) => SetsAside(todo[i]) \/ Adds(todo[i])
        /\ Adds(todo[i]) =>
            /\ todo[i].row.status = "pending" /\ todo[i].row.key \in Keys
            /\ \A k \in DOMAIN todo :
                Adds(todo[k]) /\ todo[k].row.version = todo[i].row.version => k = i
            /\ \A row \in Staged(todo[i].row.version) :
                \E j \in 1..(i - 1) : SetsAside(todo[j]) /\ Same(todo[j].row, row)

\* The pair in use is on its way out, and the one that was compared waits.
Retiring(todo, pair) ==
    /\ \A i \in DOMAIN todo : todo[i].op = "supersede"
    /\ \A version \in BANK_VERSIONS :
        /\ Active("bank", version) # {} => \E i \in DOMAIN todo : todo[i].row.version = version
        /\ \E row \in Staged(version) : row.key = KeyOf(pair, version)

\* The pair that was compared is all there is, and comes into use.
Trusting(todo, pair) ==
    /\ \A i \in DOMAIN todo :
        /\ todo[i].op = "mark" /\ todo[i].row.status = "active"
        /\ \E version \in BANK_VERSIONS : \E row \in Live(version) : Same(todo[i].row, row)
    /\ \A version \in BANK_VERSIONS :
        /\ AtMostOne(Live(version))
        /\ \E row \in Live(version) : row.key = KeyOf(pair, version)
        /\ \A row \in Staged(version) : \E i \in DOMAIN todo : Same(todo[i].row, row)

\* A worker goes on from the connection as it is.
Follows(me) == me.ini = connection.ini /\ me.hia = connection.hia /\ me.seen = connection.state

Exchanges(me) ==
    /\ me.pair = NoPair /\ me.prints = NoPair /\ Follows(me)
    /\ me.request.action = "send_ini" => connection.state = "created"
    /\ me.request.action = "send_hia" => connection.state = "ini_sent"
    /\ me.request.action = "fetch_hpb" => connection.state \in Registered

\* It has a pair that came and that nobody has compared yet.
Fetched(me) ==
    /\ me.pair # NoPair /\ me.prints = NoPair /\ Follows(me) /\ connection.state \in Registered

Confirming(me) ==
    /\ me.pair = me.prints /\ me.pair \in compared /\ Follows(me)
    /\ connection.state \in {"bank_keys_received", "ready"}

WritesStand(me) ==
    \/ me.next = "settling" /\ Orderly(me.todo)
    \/ me.next = "saving" /\ Orderly(me.todo) /\ Fetched(me) /\ connection.state = "keys_sent"
    \/ me.next = "trusting" /\ Confirming(me) /\ Retiring(me.todo, me.pair)
    \/ me.next = "saving" /\ Confirming(me) /\ Trusting(me.todo, me.pair)

SaveStands(me) ==
    \/ /\ me.pair = NoPair /\ me.prints = NoPair
       /\ \/ connection.state = "created" /\ me.ini /\ ~me.hia
          \/ connection.state = "ini_sent" /\ me.ini /\ me.hia
    \/ Fetched(me) /\ connection.state = "keys_sent"
    \/ Confirming(me) /\ HasBankKeys

WorkStands(me) ==
    /\ Filed(me)
    /\ me.pc = "exchanging" => Exchanges(me)
    /\ me.pc = "staging" => Fetched(me)
    /\ me.pc = "writing" => WritesStand(me)
    /\ me.pc = "saving" => SaveStands(me)
    /\ me.pc \in {"idle", "claimed"} => me.pair = NoPair /\ me.prints = NoPair /\ ~me.ini /\ ~me.hia

KeysInv ==
    /\ RowsStand /\ LettersRead /\ ProgressStands
    /\ \A w \in Workers : WorkStands(worker[w])

-----------------------------------------------------------------------------
(* What a write does to the keys of the bank.                               *)

\* The keys of the bank are as they were.
BankUntouched ==
    \A version \in BANK_VERSIONS :
        Active("bank", version)' = Active("bank", version) /\ Staged(version)' = Staged(version)

LEMMA LiveIs ==
    \A version : Live(version) = Active("bank", version) \cup Staged(version)
BY DEF Live, Active, Staged, Rows

\* A mark finds the one row it names, or none.
LEMMA MarkFinds ==
    ASSUME TypeInv, RowsStand, NEW write \in Write, write.op = "mark", keyring' = Written(write)
    PROVE  \/ keyring' = keyring
           \/ \E row \in keyring : \E given \in OwnKeys \cup BankKeys :
                /\ Same(row, write.row) /\ Same(given, row) /\ given.status = write.row.status
                /\ row.holder = "bank" /\ given.status # "superseded" => given.key = row.key
                /\ keyring' = (keyring \ {row}) \cup {given}
<1>1. Hit(write) = {row \in keyring : Same(row, write.row)} BY DEF Hit
<1>2. \A row, other \in Hit(write) : row = other
  <2>1. ASSUME NEW row \in Hit(write), NEW other \in Hit(write) PROVE Same(row, other)
    BY <1>1, <2>1 DEF Same
  <2> QED BY <1>1, <2>1 DEF RowsStand
<1>3. keyring' = (keyring \ Hit(write)) \cup {Given(row, write.row.status) : row \in Hit(write)}
  BY DEF Written
<1>4. CASE Hit(write) = {} BY <1>3, <1>4
<1>5. ASSUME NEW row \in Hit(write)
      PROVE  keyring' = (keyring \ {row}) \cup {Given(row, write.row.status)}
  <2>1. Hit(write) = {row} BY <1>2, <1>5
  <2> QED BY <1>3, <2>1
<1>6. ASSUME NEW row \in Hit(write)
      PROVE  LET given == Given(row, write.row.status) IN
             /\ given \in OwnKeys \cup BankKeys /\ Same(given, row)
             /\ given.status = write.row.status
             /\ row.holder = "bank" /\ given.status # "superseded" => given.key = row.key
             /\ row \in keyring /\ Same(row, write.row)
  <2>1. row \in keyring /\ Same(row, write.row) BY <1>1, <1>6
  <2>2. row \in OwnKeys \cup BankKeys BY <2>1 DEF TypeInv, TypeOK
  <2> QED BY <2>1, <2>2, GivenIs
<1> QED BY <1>4, <1>5, <1>6

\* A row in the place of another, or beside all there are, keeps rows unique.
LEMMA StaysUnique ==
    ASSUME RowsStand, NEW old \in SUBSET keyring, NEW row, keyring' = (keyring \ old) \cup {row},
           \A other \in keyring : Same(row, other) => other \in old
    PROVE  \A x, y \in keyring' : Same(x, y) => x = y
<1>1. \A x, y : Same(x, y) => Same(y, x) BY DEF Same
<1> QED BY <1>1 DEF RowsStand

LEMMA MarkKeepsUnique ==
    ASSUME TypeInv, RowsStand, NEW write \in Write, write.op = "mark", keyring' = Written(write)
    PROVE  \A x, y \in keyring' : Same(x, y) => x = y
<1>1. CASE keyring' = keyring BY <1>1 DEF RowsStand
<1>2. ASSUME NEW row \in keyring, NEW given, Same(given, row),
             keyring' = (keyring \ {row}) \cup {given}
      PROVE  \A x, y \in keyring' : Same(x, y) => x = y
  <2>1. ASSUME NEW other \in keyring, Same(given, other) PROVE other = row
    <3>1. Same(row, other) BY <1>2, <2>1 DEF Same
    <3> QED BY <3>1 DEF RowsStand
  <2>2. PICK old \in SUBSET keyring : old = {row} OBVIOUS
  <2> QED BY <1>2, <2>1, <2>2, StaysUnique
<1> QED BY <1>1, <1>2, MarkFinds

\* What is done about a key of ours leaves the bank's as they were.
LEMMA OwnWritten ==
    ASSUME TypeInv, RowsStand, NEW write \in Write, ~Bank(write), keyring' = Written(write),
           write.op = "mark" \/ (write.op = "insert" /\ Hit(write) = {}), UNCHANGED compared
    PROVE  RowsStand' /\ BankUntouched
<1>1. \A x, y \in keyring' : Same(x, y) => x = y
  <2>1. CASE write.op = "mark" BY <2>1, MarkKeepsUnique
  <2>2. CASE write.op = "insert" /\ Hit(write) = {}
    <3>1. PICK old \in SUBSET keyring : old = {} OBVIOUS
    <3>r. PICK row : row = write.row OBVIOUS
    <3>2. keyring' = (keyring \ old) \cup {row} BY <2>2, <3>1, <3>r DEF Written
    <3>3. \A other \in keyring : ~Same(row, other) BY <2>2, <3>r DEF Hit, Same
    <3>4. \A other \in keyring : Same(row, other) => other \in old BY <3>3
    <3> QED BY <3>2, <3>4, StaysUnique
  <2> QED BY <2>1, <2>2
<1>2. \A row \in OwnKeys \cup BankKeys : row.holder = "bank" => (row \in keyring' <=> row \in keyring)
  <2>1. CASE write.op = "insert" /\ Hit(write) = {}
    BY <2>1 DEF Written, Bank
  <2>2. CASE write.op = "mark" BY <2>2, MarkFinds DEF Same, Bank
  <2> QED BY <2>1, <2>2
<1>3. keyring \subseteq OwnKeys \cup BankKeys /\ keyring' \subseteq OwnKeys \cup BankKeys
  BY WrittenTyped DEF TypeInv, TypeOK, Write
<1>4. BankUntouched BY <1>2, <1>3 DEF BankUntouched, Active, Staged, Rows
<1>5. \A version \in BANK_VERSIONS : Live(version)' = Live(version)
  BY <1>4, LiveIs DEF BankUntouched, Live, Active, Staged, Rows
<1> QED BY <1>1, <1>4, <1>5 DEF RowsStand, BankUntouched, BANK_VERSIONS, AtMostOne

\* Setting a row aside takes it from those in use or in waiting.
LEMMA AsideWritten ==
    ASSUME TypeInv, RowsStand, NEW write \in Write, SetsAside(write), keyring' = Written(write),
           UNCHANGED compared
    PROVE  /\ RowsStand'
           /\ \A version \in BANK_VERSIONS :
                /\ Active("bank", version)' \subseteq Active("bank", version)
                /\ Staged(version)' = {row \in Staged(version) : ~Same(write.row, row)}
<1>1. \A x, y \in keyring' : Same(x, y) => x = y BY MarkKeepsUnique DEF SetsAside
<1>2. \/ keyring' = keyring /\ \A row \in keyring : ~Same(write.row, row)
      \/ \E row \in keyring : \E given \in OwnKeys \cup BankKeys :
                /\ Same(row, write.row) /\ given.status = "superseded"
                /\ keyring' = (keyring \ {row}) \cup {given}
  <2>1. CASE Hit(write) = {} BY <2>1 DEF Hit, Written, Same, SetsAside
  <2>2. CASE Hit(write) # {}
    <3>1. PICK hit \in Hit(write) : TRUE BY <2>2
    <3>2. hit \in keyring /\ Same(hit, write.row) BY <3>1 DEF Hit, SetsAside
    <3>3. hit \in OwnKeys \cup BankKeys BY <3>2 DEF TypeInv, TypeOK
    <3>4. Given(hit, write.row.status) \in OwnKeys \cup BankKeys
          /\ Given(hit, write.row.status).status = "superseded"
      BY <3>2, <3>3, GivenIs DEF SetsAside
    <3>5. Hit(write) = {hit} BY <3>1, <3>2 DEF Hit, SetsAside, RowsStand, Same
    <3>6. keyring' = (keyring \ {hit}) \cup {Given(hit, write.row.status)}
      BY <3>5 DEF Written, SetsAside
    <3> QED BY <3>2, <3>4, <3>6
  <2> QED BY <2>1, <2>2
<1>3. \A row \in keyring : \A other \in keyring : 
        Same(row, write.row) /\ Same(write.row, other) => row = other
  BY DEF Same, RowsStand
<1>4. ASSUME NEW version \in BANK_VERSIONS
      PROVE  /\ Active("bank", version)' \subseteq Active("bank", version)
             /\ Staged(version)' = {row \in Staged(version) : ~Same(write.row, row)}
  <2>1. CASE keyring' = keyring /\ \A row \in keyring : ~Same(write.row, row)
    BY <2>1 DEF Active, Staged, Rows
  <2>2. ASSUME NEW row \in keyring, NEW given, Same(row, write.row), given.status = "superseded",
               keyring' = (keyring \ {row}) \cup {given}
        PROVE  /\ Active("bank", version)' \subseteq Active("bank", version)
               /\ Staged(version)' = {other \in Staged(version) : ~Same(write.row, other)}
    <3>1. Same(write.row, row) BY <2>2 DEF Same
    <3> QED BY <1>3, <2>2, <3>1 DEF Active, Staged, Rows
  <2> QED BY <1>2, <2>1, <2>2
<1>5. \A version \in BANK_VERSIONS : Live(version)' \subseteq Live(version)
  BY <1>4 DEF Live, Active, Staged, Rows
<1>6. \A version \in BANK_VERSIONS : Staged(version)' \subseteq Staged(version) BY <1>4
<1> QED BY <1>1, <1>4, <1>5, <1>6 DEF RowsStand, BANK_VERSIONS, AtMostOne

\* What is added waits, alone.
LEMMA AddWritten ==
    ASSUME TypeInv, RowsStand, NEW write \in Write, Adds(write), Hit(write) = {},
           write.row.status = "pending", write.row.key \in Keys,
           Staged(write.row.version) = {}, keyring' = Written(write), UNCHANGED compared
    PROVE  /\ RowsStand'
           /\ \A version \in BANK_VERSIONS :
                /\ Active("bank", version)' = Active("bank", version)
                /\ Staged(version)' =
                    IF version = write.row.version THEN {write.row} ELSE Staged(version)
<1>1. keyring' = keyring \cup {write.row} BY DEF Written, Adds
<1>2. \A x, y \in keyring' : Same(x, y) => x = y
  <2>1. PICK old \in SUBSET keyring : old = {} OBVIOUS
  <2>2. keyring' = (keyring \ old) \cup {write.row} BY <1>1, <2>1
  <2>3. \A other \in keyring : ~Same(write.row, other) BY DEF Hit, Same, Adds
  <2> QED BY <2>2, <2>3, StaysUnique
<1>3. \A version \in BANK_VERSIONS :
        /\ Active("bank", version)' = Active("bank", version)
        /\ Staged(version)' = IF version = write.row.version THEN {write.row} ELSE Staged(version)
  BY <1>1 DEF Active, Staged, Rows, Adds, Bank
<1>4. \A version \in BANK_VERSIONS : Live(version)' \subseteq Live(version) \cup {write.row}
  BY <1>1 DEF Live
<1> QED BY <1>2, <1>3, <1>4 DEF RowsStand, BANK_VERSIONS, AtMostOne

\* The key in use of a version is no longer in use.
LEMMA RetireWritten ==
    ASSUME TypeInv, RowsStand, NEW write \in Write, write.op = "supersede",
           write.row.status = "superseded", keyring' = Written(write), UNCHANGED compared
    PROVE  /\ RowsStand'
           /\ \A version \in BANK_VERSIONS :
                /\ Active("bank", version)' =
                    IF version = write.row.version THEN {} ELSE Active("bank", version)
                /\ Staged(version)' = Staged(version)
<1>1. Hit(write) = Active("bank", write.row.version) BY DEF Hit
<1>2. AtMostOne(Hit(write))
  <2>1. \A row \in Hit(write) : row.version \in BANK_VERSIONS /\ row.version = write.row.version
    BY <1>1 DEF Active, Rows, TypeInv, TypeOK, OwnKeys, BankKeys
  <2> QED BY <1>1, <2>1 DEF RowsStand, AtMostOne
<1>3. CASE Hit(write) = {}
  <2>1. keyring' = keyring BY <1>3 DEF Written
  <2> QED BY <1>1, <1>3, <2>1 DEF RowsStand, Active, Staged, Rows, Live, AtMostOne
<1>4. CASE Hit(write) # {}
  <2>1. PICK row \in Hit(write) : Hit(write) = {row} BY <1>2, <1>4 DEF AtMostOne
  <2>2. row \in keyring /\ row.holder = "bank" /\ row.status = "active"
        /\ row.version = write.row.version
    BY <1>1, <2>1 DEF Active, Rows
  <2>3. PICK given \in OwnKeys \cup BankKeys :
          /\ given = Given(row, write.row.status) /\ Same(given, row)
          /\ given.status = "superseded"
    BY <2>2, GivenIs DEF TypeInv, TypeOK
  <2>4. keyring' = (keyring \ {row}) \cup {given} BY <2>1, <2>3 DEF Written
  <2>5. \A x, y \in keyring' : Same(x, y) => x = y
    <3>1. \A other \in keyring : Same(given, other) => other = row
      BY <2>2, <2>3 DEF Same, RowsStand
    <3>2. PICK old \in SUBSET keyring : old = {row} BY <2>2
    <3> QED BY <2>4, <3>1, <3>2, StaysUnique
  <2>6. \A version \in BANK_VERSIONS :
          /\ Active("bank", version)' =
                IF version = write.row.version THEN {} ELSE Active("bank", version)
          /\ Staged(version)' = Staged(version)
    BY <1>1, <2>1, <2>2, <2>3, <2>4 DEF Active, Staged, Rows
  <2>7. \A version \in BANK_VERSIONS : Live(version)' \subseteq Live(version)
    BY <2>3, <2>4 DEF Live
  <2> QED BY <2>5, <2>6, <2>7 DEF RowsStand, BANK_VERSIONS, AtMostOne
<1> QED BY <1>3, <1>4

\* A key that was compared comes into use, in its own place.
LEMMA TrustWritten ==
    ASSUME TypeInv, RowsStand, NEW write \in Write, write.op = "mark",
           write.row.status = "active", NEW pair \in compared, compared \subseteq Pairs,
           \A version \in BANK_VERSIONS :
                AtMostOne(Live(version)) /\ \E row \in Live(version) : row.key = KeyOf(pair, version),
           NEW v \in BANK_VERSIONS, NEW row \in Live(v), Same(write.row, row),
           keyring' = Written(write), UNCHANGED compared
    PROVE  /\ RowsStand'
           /\ \E given : /\ Same(given, row) /\ given.key = KeyOf(pair, v)
                         /\ Active("bank", v)' = {given} /\ Staged(v)' = {} /\ Live(v)' = {given}
           /\ \A version \in BANK_VERSIONS \ {v} :
                /\ Active("bank", version)' = Active("bank", version)
                /\ Staged(version)' = Staged(version) /\ Live(version)' = Live(version)
<1>1. \A x, y \in keyring' : Same(x, y) => x = y BY MarkKeepsUnique
<1>2. /\ row \in keyring /\ Same(row, write.row) /\ row.holder = "bank" /\ row.version = v
      /\ Live(v) = {row} /\ row.key = KeyOf(pair, v)
  <2>1. row \in keyring /\ row.holder = "bank" /\ row.version = v BY DEF Live
  <2>2. Live(v) = {row} /\ row.key = KeyOf(pair, v) BY DEF AtMostOne
  <2> QED BY <2>1, <2>2 DEF Same
<1>3. PICK given \in OwnKeys \cup BankKeys :
        /\ given = Given(row, write.row.status) /\ Same(given, row)
        /\ given.status = "active" /\ given.key = row.key
  BY <1>2, GivenIs DEF TypeInv, TypeOK
<1>4. Hit(write) = {row} BY <1>2 DEF Hit, Same, RowsStand
<1>5. keyring' = (keyring \ {row}) \cup {given} BY <1>3, <1>4 DEF Written
<1>6. given.holder = "bank" /\ given.version = v BY <1>2, <1>3 DEF Same
<1>7. Active("bank", v)' = {given} /\ Staged(v)' = {} /\ Live(v)' = {given}
  BY <1>2, <1>3, <1>5, <1>6 DEF Active, Staged, Rows, Live
<1>8. \A version \in BANK_VERSIONS \ {v} :
        /\ Active("bank", version)' = Active("bank", version)
        /\ Staged(version)' = Staged(version) /\ Live(version)' = Live(version)
  BY <1>2, <1>3, <1>5, <1>6 DEF Active, Staged, Rows, Live
<1>9. given.key \in Keys BY <1>2, <1>3 DEF RowsStand
<1>10. \A version \in BANK_VERSIONS : \A x \in Live(version)' : x.key = KeyOf(pair, version)
  BY <1>2, <1>3, <1>7, <1>8 DEF AtMostOne
<1>11. \A x \in Active("bank", "X002")', e \in Active("bank", "E002")' :
         <<x.key, e.key>> \in compared
  <2>1. pair = <<pair[1], pair[2]>> BY PairAssumption
  <2>2. \A version : Active("bank", version)' \subseteq Live(version)' BY DEF Active, Rows, Live
  <2>3. ASSUME NEW x \in Active("bank", "X002")', NEW e \in Active("bank", "E002")'
        PROVE  <<x.key, e.key>> \in compared
    <3>1. x.key = pair[1] /\ e.key = pair[2] BY <1>10, <2>2, <2>3 DEF KeyOf, BANK_VERSIONS
    <3> QED BY <2>1, <3>1
  <2> QED BY <2>3
<1>12. \A version \in BANK_VERSIONS :
        /\ AtMostOne(Active("bank", version))' /\ AtMostOne(Staged(version))'
        /\ \A x \in Live(version)' : x.key \in Keys
  BY <1>7, <1>8, <1>9 DEF AtMostOne, RowsStand
<1>13. RowsStand' BY <1>1, <1>11, <1>12 DEF RowsStand
<1> QED BY <1>2, <1>3, <1>7, <1>8, <1>13

\* The next write of a worker, and what is left of its plan.
LEMMA NextWrite ==
    ASSUME NEW todo \in Seq(Write), todo # <<>>
    PROVE  /\ Head(todo) = todo[1] /\ 1 \in DOMAIN todo /\ todo[1] \in Write
           /\ \A i \in DOMAIN todo : i \in Nat \ {0}
           /\ \A i \in DOMAIN Tail(todo) : i + 1 \in DOMAIN todo /\ Tail(todo)[i] = todo[i + 1]
           /\ \A i \in DOMAIN todo : i # 1 => i - 1 \in DOMAIN Tail(todo) /\ Tail(todo)[i - 1] = todo[i]
OBVIOUS

LEMMA OrderlyWritten ==
    ASSUME TypeInv, RowsStand, NEW todo \in Seq(Write), todo # <<>>, Orderly(todo),
           keyring' = Written(Head(todo)), UNCHANGED compared,
           Head(todo).op = "insert" => Hit(Head(todo)) = {}
    PROVE  RowsStand' /\ Orderly(Tail(todo))'
<1> DEFINE write == todo[1]
           rest == Tail(todo)
<1>1. /\ Head(todo) = write /\ 1 \in DOMAIN todo /\ write \in Write
      /\ \A i \in DOMAIN todo : i \in Nat \ {0}
      /\ \A i \in DOMAIN rest : i + 1 \in DOMAIN todo /\ rest[i] = todo[i + 1]
      /\ \A i \in DOMAIN todo : i # 1 => i - 1 \in DOMAIN rest /\ rest[i - 1] = todo[i]
  BY NextWrite
<1> HIDE DEF write
<1>2. /\ keyring' = Written(write) /\ write.op # "supersede"
      /\ Bank(write) => SetsAside(write) \/ Adds(write)
      /\ write.op = "insert" => Hit(write) = {}
  BY <1>1 DEF Orderly, write
<1>3. \A i \in DOMAIN rest : i \in Nat \ {0} BY <1>1
\* What still waits once the first write is done is set aside by a later one.
<1>4. ASSUME RowsStand',
             \A i \in DOMAIN rest : Adds(rest[i]) =>
                \A row \in Staged(rest[i].row.version)' :
                    row \in Staged(rest[i].row.version) /\ ~(SetsAside(write) /\ Same(write.row, row))
      PROVE  Orderly(rest)'
  <2>1. ASSUME NEW i \in DOMAIN rest
        PROVE  /\ rest[i].op # "supersede"
               /\ Bank(rest[i]) => SetsAside(rest[i]) \/ Adds(rest[i])
               /\ Adds(rest[i]) =>
                    /\ rest[i].row.status = "pending" /\ rest[i].row.key \in Keys
                    /\ \A k \in DOMAIN rest :
                        Adds(rest[k]) /\ rest[k].row.version = rest[i].row.version => k = i
    <3>1. \A k \in DOMAIN rest : k + 1 = i + 1 => k = i BY <1>3
    <3> QED BY <1>1, <2>1, <3>1 DEF Orderly
  <2>2. ASSUME NEW i \in DOMAIN rest, Adds(rest[i]), NEW row \in Staged(rest[i].row.version)'
        PROVE  \E j \in 1..(i - 1) : SetsAside(rest[j]) /\ Same(rest[j].row, row)
    <3>1. row \in Staged(rest[i].row.version) /\ ~(SetsAside(write) /\ Same(write.row, row))
      BY <1>4, <2>2
    <3>2. i + 1 \in DOMAIN todo /\ rest[i] = todo[i + 1] /\ i \in Nat BY <1>1, <1>3
    <3>3. PICK j \in 1..((i + 1) - 1) : SetsAside(todo[j]) /\ Same(todo[j].row, row)
      BY <2>2, <3>1, <3>2 DEF Orderly
    <3>4. j # 1 BY <3>1, <3>3 DEF write
    <3>5. j \in DOMAIN todo
      <4>1. DOMAIN todo = 1..Len(todo) /\ Len(todo) \in Nat OBVIOUS
      <4> QED BY <3>2, <3>3, <4>1
    <3>6. rest[j - 1] = todo[j] /\ j - 1 \in 1..(i - 1) BY <1>1, <3>2, <3>3, <3>4, <3>5
    <3> QED BY <3>3, <3>6
  <2> QED BY <2>1, <2>2 DEF Orderly
<1> HIDE DEF rest
<1>v. \A i \in DOMAIN rest : Adds(rest[i]) => rest[i].row.version \in BANK_VERSIONS
  <2>1. \A i \in DOMAIN rest : rest[i] \in Write BY DEF rest
  <2> QED BY <2>1 DEF Write, OwnKeys, BankKeys, Adds, Bank
<1>5. CASE ~Bank(write)
  <2>1. RowsStand' /\ BankUntouched
    <3>1. write.op = "mark" \/ (write.op = "insert" /\ Hit(write) = {})
      BY <1>1, <1>2 DEF Write
    <3> QED BY <1>1, <1>2, <1>5, <3>1, OwnWritten
  <2>2. \A version \in BANK_VERSIONS : \A row \in Staged(version) : ~Same(write.row, row)
    BY <1>5 DEF Bank, Same, Staged, Rows
  <2> QED BY <1>4, <1>v, <2>1, <2>2 DEF BankUntouched, rest
<1>6. CASE SetsAside(write)
  <2>1. /\ RowsStand'
        /\ \A version \in BANK_VERSIONS :
            Staged(version)' = {row \in Staged(version) : ~Same(write.row, row)}
    BY <1>1, <1>2, <1>6, AsideWritten
  <2> QED BY <1>4, <1>v, <2>1 DEF rest
<1>7. CASE Adds(write)
  <2>1. /\ write.row.status = "pending" /\ write.row.key \in Keys
        /\ \A row \in Staged(write.row.version) :
            \E j \in 1..(1 - 1) : SetsAside(todo[j]) /\ Same(todo[j].row, row)
    BY <1>1, <1>7 DEF Orderly, write
  <2>2. Staged(write.row.version) = {} BY <2>1
  <2>3. /\ RowsStand'
        /\ \A version \in BANK_VERSIONS :
            Staged(version)' = IF version = write.row.version THEN {write.row} ELSE Staged(version)
    BY <1>1, <1>2, <1>7, <2>1, <2>2, AddWritten DEF Adds
  <2>4. ASSUME NEW i \in DOMAIN rest, Adds(rest[i]) PROVE rest[i].row.version # write.row.version
    <3>1. i + 1 \in DOMAIN todo /\ rest[i] = todo[i + 1] /\ i \in Nat \ {0}
      BY <1>1, <1>3 DEF rest
    <3>2. Adds(todo[i + 1]) /\ todo[i + 1].row.version = write.row.version => 1 = i + 1
      BY <1>1, <1>7, <2>4, <3>1 DEF Orderly, write
    <3> QED BY <2>4, <3>1, <3>2
  <2>5. ~SetsAside(write) BY <1>7 DEF SetsAside, Adds
  <2> QED BY <1>4, <1>v, <2>3, <2>4, <2>5 DEF rest
<1>d. ~Bank(write) \/ SetsAside(write) \/ Adds(write) BY <1>2
<1> QED BY <1>d, <1>5, <1>6, <1>7

LEMMA RetiringWritten ==
    ASSUME TypeInv, RowsStand, NEW todo \in Seq(Write), todo # <<>>, NEW pair, Retiring(todo, pair),
           \A i \in DOMAIN todo : todo[i].row.status = "superseded",
           keyring' = Written(Head(todo)), UNCHANGED compared
    PROVE  RowsStand' /\ Retiring(Tail(todo), pair)'
<1> DEFINE write == todo[1]
           rest == Tail(todo)
<1>1. /\ Head(todo) = write /\ 1 \in DOMAIN todo /\ write \in Write
      /\ \A i \in DOMAIN rest : i + 1 \in DOMAIN todo /\ rest[i] = todo[i + 1]
      /\ \A i \in DOMAIN todo : i # 1 => i - 1 \in DOMAIN rest /\ rest[i - 1] = todo[i]
  BY NextWrite
<1>2. write.op = "supersede" /\ write.row.status = "superseded" BY <1>1 DEF Retiring
<1> HIDE DEF write, rest
<1>3. /\ RowsStand'
      /\ \A version \in BANK_VERSIONS :
            /\ Active("bank", version)' =
                IF version = write.row.version THEN {} ELSE Active("bank", version)
            /\ Staged(version)' = Staged(version)
  BY <1>1, <1>2, RetireWritten
<1>4. ASSUME NEW version \in BANK_VERSIONS, Active("bank", version)' # {}
      PROVE  \E i \in DOMAIN rest : rest[i].row.version = version
  <2>1. version # write.row.version /\ Active("bank", version) # {} BY <1>3, <1>4
  <2>2. PICK i \in DOMAIN todo : todo[i].row.version = version BY <2>1 DEF Retiring
  <2>3. i # 1 BY <2>1, <2>2 DEF write
  <2> QED BY <1>1, <2>2, <2>3
<1>5. \A i \in DOMAIN rest : rest[i].op = "supersede" BY <1>1 DEF Retiring
<1>6. \A version \in BANK_VERSIONS : \E row \in Staged(version)' : row.key = KeyOf(pair, version)
  BY <1>3 DEF Retiring
<1>7. Retiring(rest, pair)' BY <1>4, <1>5, <1>6 DEF Retiring
<1> QED BY <1>3, <1>7 DEF rest

LEMMA TrustingWritten ==
    ASSUME TypeInv, RowsStand, NEW todo \in Seq(Write), todo # <<>>, NEW pair \in compared,
           Trusting(todo, pair), keyring' = Written(Head(todo)), UNCHANGED compared
    PROVE  RowsStand' /\ Trusting(Tail(todo), pair)'
<1> DEFINE write == todo[1]
           rest == Tail(todo)
<1>1. /\ Head(todo) = write /\ 1 \in DOMAIN todo /\ write \in Write
      /\ \A i \in DOMAIN rest : i + 1 \in DOMAIN todo /\ rest[i] = todo[i + 1]
      /\ \A i \in DOMAIN todo : i # 1 => i - 1 \in DOMAIN rest /\ rest[i - 1] = todo[i]
  BY NextWrite
<1>2. write.op = "mark" /\ write.row.status = "active" BY <1>1 DEF Trusting
<1>3. PICK v \in BANK_VERSIONS : \E row \in Live(v) : Same(write.row, row) BY <1>1 DEF Trusting
<1>4. PICK row \in Live(v) : Same(write.row, row) BY <1>3
<1>5. \A version \in BANK_VERSIONS :
        AtMostOne(Live(version)) /\ \E x \in Live(version) : x.key = KeyOf(pair, version)
  BY DEF Trusting
<1>6. compared \subseteq Pairs BY DEF TypeInv, TypeOK
<1> HIDE DEF write, rest
<1>7. /\ RowsStand'
      /\ \E given : /\ Same(given, row) /\ given.key = KeyOf(pair, v)
                    /\ Active("bank", v)' = {given} /\ Staged(v)' = {} /\ Live(v)' = {given}
      /\ \A version \in BANK_VERSIONS \ {v} :
                /\ Active("bank", version)' = Active("bank", version)
                /\ Staged(version)' = Staged(version) /\ Live(version)' = Live(version)
  BY <1>1, <1>2, <1>4, <1>5, <1>6, TrustWritten
<1>8. PICK given : /\ Same(given, row) /\ given.key = KeyOf(pair, v)
                   /\ Active("bank", v)' = {given} /\ Staged(v)' = {} /\ Live(v)' = {given}
  BY <1>7
<1>9. ASSUME NEW i \in DOMAIN rest
      PROVE  /\ rest[i].op = "mark" /\ rest[i].row.status = "active"
             /\ \E version \in BANK_VERSIONS : \E x \in Live(version)' : Same(rest[i].row, x)
  <2>1. i + 1 \in DOMAIN todo /\ rest[i] = todo[i + 1] BY <1>1
  <2>2. PICK version \in BANK_VERSIONS : \E x \in Live(version) : Same(rest[i].row, x)
    BY <2>1 DEF Trusting
  <2>3. PICK x \in Live(version) : Same(rest[i].row, x) BY <2>2
  <2>4. CASE version = v
    <3>1. x = row BY <1>4, <1>5, <2>3, <2>4 DEF AtMostOne
    <3> QED BY <1>8, <2>1, <2>3, <3>1 DEF Same, Trusting
  <2>5. CASE version # v BY <1>7, <2>1, <2>3, <2>5 DEF Trusting
  <2> QED BY <2>4, <2>5
<1>10. ASSUME NEW version \in BANK_VERSIONS
       PROVE  /\ AtMostOne(Live(version))'
              /\ \E x \in Live(version)' : x.key = KeyOf(pair, version)
              /\ \A x \in Staged(version)' : \E i \in DOMAIN rest : Same(rest[i].row, x)
  <2>1. CASE version = v BY <1>8, <2>1 DEF AtMostOne
  <2>2. CASE version # v
    <3>1. ASSUME NEW x \in Staged(version) PROVE \E i \in DOMAIN rest : Same(rest[i].row, x)
      <4>1. PICK i \in DOMAIN todo : Same(todo[i].row, x) BY <3>1 DEF Trusting
      <4>2. x.version = version /\ row.version = v BY <1>4, <3>1 DEF Staged, Rows, Live
      <4>3. i # 1 BY <1>4, <2>2, <4>1, <4>2 DEF Same, write
      <4> QED BY <1>1, <4>1, <4>3
    <3> QED BY <1>5, <1>7, <2>2, <3>1 DEF AtMostOne
  <2> QED BY <2>1, <2>2
<1>11. Trusting(rest, pair)' BY <1>9, <1>10 DEF Trusting
<1> QED BY <1>7, <1>11 DEF rest

LEMMA AllowedIs ==
    /\ ALLOWED_FROM["send_ini"] = {"created"} /\ ALLOWED_FROM["send_hia"] = {"ini_sent"}
    /\ ALLOWED_FROM["fetch_hpb"] = Registered
    /\ ALLOWED_FROM["confirm_bank_keys"] = {"bank_keys_received", "ready"}
BY DEF ALLOWED_FROM, KeyActions

\* While nothing but jobs and workers change, what was true of keys and progress is.
LEMMA Unmoved ==
    ASSUME UNCHANGED <<connection, keyring, onFile, compared>>
    PROVE  /\ RowsStand => RowsStand'
           /\ ProgressStands => ProgressStands'
           /\ \A r : WorkStands(r) => WorkStands(r)'
<1>1. /\ \A version : Staged(version)' = Staged(version) /\ Live(version)' = Live(version)
      /\ \A holder, version : Active(holder, version)' = Active(holder, version)
      /\ \A version : OnFile(version)' = OnFile(version)
  BY DEF Active, Staged, Rows, Live, OnFile
<1>2. RowsStand => RowsStand' BY <1>1 DEF RowsStand, AtMostOne
<1>3. \A r : Filed(r)' = Filed(r) BY <1>1 DEF Filed
<1>4. ProgressStands => ProgressStands' BY <1>1, <1>3 DEF ProgressStands, Filed
<1>5. \A todo : Orderly(todo)' = Orderly(todo) BY <1>1 DEF Orderly
<1>6. \A todo, pair : Retiring(todo, pair)' = Retiring(todo, pair) /\ Trusting(todo, pair)' = Trusting(todo, pair)
  BY <1>1 DEF Retiring, Trusting, AtMostOne
<1>7. \A r : /\ Exchanges(r)' = Exchanges(r) /\ Fetched(r)' = Fetched(r)
             /\ Confirming(r)' = Confirming(r)
  BY DEF Exchanges, Fetched, Confirming, Follows
<1>8. HasBankKeys' = HasBankKeys BY <1>1 DEF HasBankKeys
<1>9. \A r : WritesStand(r) => WritesStand(r)' BY <1>5, <1>6, <1>7 DEF WritesStand
<1>10. \A r : SaveStands(r) => SaveStands(r)' BY <1>7, <1>8 DEF SaveStands
<1> QED BY <1>2, <1>3, <1>4, <1>7, <1>9, <1>10 DEF WorkStands

\* What becomes of a worker: the record it goes on with stands.
Goes(w) ==
    \E r : /\ Becomes(w, r) /\ r.request = worker[w].request
           /\ WorkStands(r)' /\ RowsStand' /\ ProgressStands'

LEMMA FailsStands ==
    ASSUME TypeInv, KeysInv, NEW w \in Workers, Fails(w),
           UNCHANGED <<connection, keyring, compared>>, onFile \subseteq onFile'
    PROVE  Goes(w)
<1>1. worker[w] \in WorkerState BY DEF TypeInv, TypeOK
<1>r. PICK r : r = [worker[w] EXCEPT !.pc = "settling", !.outcome = "failed", !.todo = <<>>]
  OBVIOUS
<1>2. Keeps(r, worker[w]) /\ r.pc = "settling" BY <1>1, <1>r, FailedIs
<1>3. Becomes(w, r) BY <1>r DEF Fails
<1>4. WorkStands(r)' BY <1>2 DEF KeysInv, WorkStands, Filed, Keeps, OnFile
<1>5. RowsStand'
  BY DEF KeysInv, RowsStand, AtMostOne, Active, Staged, Rows, Live
<1>6. ProgressStands' BY DEF KeysInv, ProgressStands, Filed, OnFile
<1> QED BY <1>2, <1>3, <1>4, <1>5, <1>6 DEF Goes, Keeps

LEMMA WritesStands ==
    ASSUME TypeInv, KeysInv, NEW w \in Workers, NEW todo \in Seq(Write),
           NEW next \in {"trusting", "saving", "settling"},
           \A i \in DOMAIN todo : todo[i].op # "supersede", Writes(w, todo, next),
           UNCHANGED <<connection, keyring, onFile, compared>>,
           \/ next = "settling" /\ Orderly(todo)
           \/ next = "saving" /\ Orderly(todo) /\ Fetched(worker[w]) /\ connection.state = "keys_sent"
           \/ next = "saving" /\ Confirming(worker[w]) /\ Trusting(todo, worker[w].pair)
    PROVE  Goes(w)
<1>1. PICK me \in WorkerState : me = worker[w] BY DEF TypeInv, TypeOK
<1>r. PICK r : r = [me EXCEPT !.pc = "writing", !.todo = todo, !.next = next] OBVIOUS
<1>2. Keeps(r, worker[w]) /\ r.pc = "writing" /\ r.todo = todo /\ r.next = next
  <2>1. Keeps(r, me) /\ r.pc = "writing" /\ r.todo = todo /\ r.next = next
    BY <1>r DEF Keeps, WorkerState
  <2> QED BY <1>1, <2>1
<1>3. Becomes(w, r) BY <1>1, <1>r DEF Writes
<1>4. Filed(r) BY <1>2 DEF KeysInv, WorkStands, Filed, Keeps
<1>5. WritesStand(r)
  BY <1>2 DEF WritesStand, Fetched, Confirming, Follows, Keeps
<1>6. WorkStands(r) BY <1>2, <1>4, <1>5 DEF WorkStands
<1> QED BY <1>2, <1>3, <1>6, Unmoved DEF Goes, Keeps, KeysInv

LEMMA ExchangeStands ==
    ASSUME TypeInv, KeysInv, NEW w \in Workers, worker[w].pc = "claimed",
           Becomes(w, [Resumed(w) EXCEPT !.pc = "exchanging"]),
           connection.state \in ALLOWED_FROM[worker[w].request.action],
           UNCHANGED <<connection, keyring, onFile, compared>>
    PROVE  Goes(w)
<1>r. PICK r : r = [Resumed(w) EXCEPT !.pc = "exchanging"] OBVIOUS
<1>1. worker[w] \in WorkerState /\ connection \in Connection /\ Fine(worker[w])
  BY DEF TypeInv, TypeOK, Fine
<1>2. /\ r.pc = "exchanging" /\ r.request = worker[w].request
      /\ r.pair = worker[w].pair /\ r.prints = worker[w].prints
      /\ r.ini = connection.ini /\ r.hia = connection.hia /\ r.seen = connection.state
  BY <1>1, <1>r, ResumedIs
<1>3. Filed(r) BY <1>2 DEF KeysInv, ProgressStands, Filed
<1>4. r.pair = NoPair /\ r.prints = NoPair BY <1>2 DEF KeysInv, WorkStands
<1>5. Exchanges(r) BY <1>2, <1>4, AllowedIs DEF Exchanges, Follows
<1>6. WorkStands(r) BY <1>2, <1>3, <1>5 DEF WorkStands
<1> QED BY <1>r, <1>2, <1>6, Unmoved DEF Goes, KeysInv

LEMMA ConfirmStands ==
    ASSUME TypeInv, KeysInv, NEW w \in Workers, ConfirmBankKeys(w)
    PROVE  Goes(w)
<1> DEFINE pair == <<Newest(Staged("X002")).key, Newest(Staged("E002")).key>>
           todo == <<Supersede("X002"), Supersede("E002")>>
<1>0. UNCHANGED <<connection, keyring, onFile, compared>>
  BY DEF ConfirmBankKeys, Performs, asked
<1>1. CASE Fails(w) BY <1>0, <1>1, FailsStands
<1>2. CASE ~Fails(w)
  <2>1. /\ pair = worker[w].request.letter /\ Staged("X002") # {} /\ Staged("E002") # {}
        /\ Becomes(w, [Resumed(w) EXCEPT !.pc = "writing", !.pair = pair, !.prints = pair,
                                         !.todo = todo, !.next = "trusting"])
        /\ connection.state \in {"bank_keys_received", "ready"}
    BY <1>2, AllowedIs DEF ConfirmBankKeys, Matches, Performs
  <2>2. todo \in Seq(Write) BY InsertsTyped DEF BANK_VERSIONS
  <2>3. \A i \in DOMAIN todo : todo[i].op = "supersede" /\ todo[i].row.status = "superseded"
    BY DEF Supersede, Own
  <2>4. \A version \in BANK_VERSIONS : \E i \in DOMAIN todo : todo[i].row.version = version
    <3>1. /\ todo[1].row.version = "X002" /\ todo[2].row.version = "E002"
          /\ 1 \in DOMAIN todo /\ 2 \in DOMAIN todo
      BY DEF Supersede, Own
    <3> QED BY <3>1 DEF BANK_VERSIONS
  <2>5. /\ Newest(Staged("X002")) \in Staged("X002") /\ Newest(Staged("E002")) \in Staged("E002")
    BY <2>1, RowsOf DEF TypeInv, TypeOK
  <2>6. \A version \in BANK_VERSIONS : \E row \in Staged(version) :
            row.key = KeyOf(pair, version) /\ row.key \in Keys
    <3>1. \A version \in BANK_VERSIONS : \A row \in Staged(version) : row.key \in Keys
      BY LiveIs DEF KeysInv, RowsStand
    <3> QED BY <2>5, <3>1 DEF KeyOf, BANK_VERSIONS
  <2>7. pair \in compared /\ pair \in Pairs
    <3>1. Newest(Staged("X002")).key \in Keys /\ Newest(Staged("E002")).key \in Keys
      BY <2>5, LiveIs DEF KeysInv, RowsStand, BANK_VERSIONS
    <3>2. pair # NoPair BY <3>1, PairAssumption
    <3>3. pair \in compared BY <2>1, <3>2 DEF KeysInv, LettersRead
    <3> QED BY <3>3 DEF TypeInv, TypeOK
  <2> HIDE DEF pair, todo
  <2>8. PICK p \in Pairs : p = pair BY <2>7
  <2>t. PICK q \in Seq(Write) : q = todo BY <2>2
  <2>r. PICK r : r = [Resumed(w) EXCEPT !.pc = "writing", !.pair = p, !.prints = p,
                                        !.todo = q, !.next = "trusting"]
    OBVIOUS
  <2>9. /\ r.pc = "writing" /\ r.request = worker[w].request
        /\ r.pair = p /\ r.prints = p /\ r.todo = todo /\ r.next = "trusting"
        /\ r.ini = connection.ini /\ r.hia = connection.hia /\ r.seen = connection.state
    <3>1. worker[w] \in WorkerState /\ connection \in Connection BY DEF TypeInv, TypeOK
    <3>2. p \in Pairs \cup {NoPair} OBVIOUS
    <3>3. \A i \in DOMAIN q : q[i].row.status = "superseded" BY <2>3, <2>t
    <3>4. /\ r.pc = "writing" /\ r.request = worker[w].request
          /\ r.pair = p /\ r.prints = p /\ r.todo = q /\ r.next = "trusting"
          /\ r.ini = connection.ini /\ r.hia = connection.hia /\ r.seen = connection.state
      <4>1. PICK me \in WorkerState : me = worker[w] BY <3>1
      <4>2. r = [[me EXCEPT !.seen = connection.state, !.ini = connection.ini,
                            !.hia = connection.hia]
                 EXCEPT !.pc = "writing", !.pair = p, !.prints = p, !.todo = q, !.next = "trusting"]
        BY <2>r, <4>1 DEF Resumed
      <4> QED BY <4>1, <4>2 DEF WorkerState
    <3> QED BY <3>4, <2>t
  <2>10. Becomes(w, r) BY <2>1, <2>8, <2>r, <2>t
  <2>11. Filed(r) BY <2>9 DEF KeysInv, ProgressStands, Filed
  <2>12. Retiring(todo, p) BY <2>3, <2>4, <2>6, <2>8 DEF Retiring
  <2>13. Confirming(r) BY <2>1, <2>7, <2>8, <2>9 DEF Confirming, Follows
  <2>14. WorkStands(r) BY <2>9, <2>11, <2>12, <2>13 DEF WorkStands, WritesStand
  <2> QED BY <1>0, <2>9, <2>10, <2>14, Unmoved DEF Goes, KeysInv
<1> QED BY <1>1, <1>2

LEMMA StageStands ==
    ASSUME TypeInv, KeysInv, NEW w \in Workers, Stage(w)
    PROVE  Goes(w)
<1> DEFINE marks == Marks(Rows("bank", "pending"), "superseded")
           n == NextGeneration
           x == Insert(Theirs("X002", n, worker[w].pair[1], StagedAs))
           e == Insert(Theirs("E002", n, worker[w].pair[2], StagedAs))
           more == <<x, e>>
           next == IF worker[w].seen = "keys_sent" THEN "saving" ELSE "settling"
           todo == marks \o more
<1>0. UNCHANGED <<connection, keyring, onFile, compared>> BY DEF Stage, asked
<1>1. Writes(w, todo, next) BY DEF Stage
<1>2. Fetched(worker[w]) BY DEF Stage, KeysInv, WorkStands
<1>3. /\ marks \in Seq(Write)
      /\ \A i \in DOMAIN marks : marks[i].op = "mark" /\ marks[i].row.status = "superseded"
      /\ \A row \in Rows("bank", "pending") : \E i \in DOMAIN marks : Same(marks[i].row, row)
  <2>1. PICK s \in {"active", "superseded"} : s = "superseded" OBVIOUS
  <2>2. PICK rows \in SUBSET keyring : rows = Rows("bank", "pending")
    BY DEF Rows
  <2>3. /\ Marks(rows, s) \in Seq(Write)
        /\ \A i \in DOMAIN Marks(rows, s) : Marks(rows, s)[i].op = "mark" /\ Marks(rows, s)[i].row.status = s
        /\ \A row \in rows : \E i \in DOMAIN Marks(rows, s) : Same(Marks(rows, s)[i].row, row)
    <3>1. keyring \subseteq OwnKeys \cup BankKeys /\ IsFiniteSet(keyring) BY DEF TypeInv, TypeOK
    <3>2. Marks(rows, s) \in Seq(Write) BY <3>1, MarksTyped
    <3>3. \A i \in DOMAIN Marks(rows, s) :
            Marks(rows, s)[i].op = "mark" /\ Marks(rows, s)[i].row.status = s
      BY <3>1, MarksTyped
    <3>4. \A row \in rows : \E i \in DOMAIN Marks(rows, s) : Same(Marks(rows, s)[i].row, row)
      BY <3>1, MarksTyped
    <3> QED BY <3>2, <3>3, <3>4
  <2> QED BY <2>1, <2>2, <2>3
<1>4. worker[w].pair[1] \in Keys /\ worker[w].pair[2] \in Keys /\ n \in Nat
  <2>1. worker[w].pair \in Pairs BY <1>2 DEF Fetched, TypeInv, TypeOK, WorkerState
  <2> QED BY <2>1, RowsOf, PairAssumption DEF TypeInv, TypeOK
<1> HIDE DEF n
<1>5. /\ x \in Write /\ e \in Write /\ Adds(x) /\ Adds(e)
      /\ x.row.version = "X002" /\ e.row.version = "E002"
      /\ x.row.status = "pending" /\ e.row.status = "pending"
      /\ x.row.key \in Keys /\ e.row.key \in Keys
  <2>1. x \in Write /\ e \in Write BY <1>4, InsertsTyped DEF BANK_VERSIONS, StagedAs
  <2> QED BY <1>4, <2>1 DEF Adds, Bank, Insert, Theirs, StagedAs
<1>6. next \in {"trusting", "saving", "settling"} OBVIOUS
<1>7. next = "saving" => connection.state = "keys_sent" BY <1>2 DEF Fetched, Follows
<1>8. next # "saving" => next = "settling" OBVIOUS
<1> HIDE DEF marks, x, e, next
<1>9. more \in Seq(Write) /\ DOMAIN more = 1..2 /\ more[1] = x /\ more[2] = e BY <1>5
<1> HIDE DEF more
<1>10. PICK m \in Nat : m = Len(marks) /\ DOMAIN marks = 1..m BY <1>3
<1>11. /\ todo \in Seq(Write)
       /\ \A i \in DOMAIN marks : i \in DOMAIN todo /\ todo[i] = marks[i]
       /\ \A i \in DOMAIN todo :
            \/ i \in DOMAIN marks /\ todo[i] = marks[i]
            \/ i = m + 1 /\ todo[i] = x
            \/ i = m + 2 /\ todo[i] = e
  <2>1. /\ todo \in Seq(Write)
        /\ \A i \in DOMAIN marks : i \in DOMAIN todo /\ todo[i] = marks[i]
        /\ \A i \in DOMAIN todo :
            \/ i \in DOMAIN marks /\ todo[i] = marks[i]
            \/ i - m \in DOMAIN more /\ todo[i] = more[i - m]
    BY <1>3, <1>9, <1>10, PlanIs
  <2>2. \A i \in DOMAIN todo : i \in Nat BY <2>1
  <2>3. ASSUME NEW i \in DOMAIN todo, i - m \in DOMAIN more, todo[i] = more[i - m]
        PROVE  (i = m + 1 /\ todo[i] = x) \/ (i = m + 2 /\ todo[i] = e)
    <3>1. i - m = 1 \/ i - m = 2 BY <1>9, <2>3
    <3> QED BY <1>9, <1>10, <2>2, <2>3, <3>1
  <2> QED BY <2>1, <2>3
<1> HIDE DEF todo
<1>12. \A i \in DOMAIN todo :
        /\ SetsAside(todo[i]) \/ Adds(todo[i])
        /\ Adds(todo[i]) => /\ \/ i = m + 1 /\ todo[i] = x
                               \/ i = m + 2 /\ todo[i] = e
                            /\ todo[i].row.status = "pending" /\ todo[i].row.key \in Keys
  BY <1>3, <1>5, <1>11 DEF SetsAside, Adds
<1>13. ASSUME NEW i \in DOMAIN todo, Adds(todo[i])
       PROVE  /\ \A k \in DOMAIN todo :
                    Adds(todo[k]) /\ todo[k].row.version = todo[i].row.version => k = i
              /\ \A row \in Staged(todo[i].row.version) :
                    \E j \in 1..(i - 1) : SetsAside(todo[j]) /\ Same(todo[j].row, row)
  <2>1. ASSUME NEW k \in DOMAIN todo, Adds(todo[k]), todo[k].row.version = todo[i].row.version
        PROVE  k = i
    BY <1>5, <1>12, <1>13, <2>1
  <2>2. ASSUME NEW row \in Staged(todo[i].row.version)
        PROVE  \E j \in 1..(i - 1) : SetsAside(todo[j]) /\ Same(todo[j].row, row)
    <3>1. PICK j \in DOMAIN marks : Same(marks[j].row, row) BY <1>3, <2>2 DEF Staged
    <3>2. todo[j] = marks[j] /\ SetsAside(todo[j]) BY <1>3, <1>11, <3>1 DEF SetsAside
    <3>3. i = m + 1 \/ i = m + 2 BY <1>12, <1>13
    <3>4. j \in 1..(i - 1) BY <1>10, <3>1, <3>3
    <3> QED BY <3>1, <3>2, <3>4
  <2> QED BY <2>1, <2>2
<1>14. \A i \in DOMAIN todo : todo[i].op # "supersede" BY <1>12 DEF SetsAside, Adds
<1>15. Orderly(todo) BY <1>12, <1>13, <1>14 DEF Orderly
<1> QED BY <1>0, <1>1, <1>2, <1>6, <1>7, <1>8, <1>11, <1>14, <1>15, WritesStands

LEMMA DeclineStands ==
    ASSUME TypeInv, KeysInv, NEW w \in Workers, DeclineBankKeys(w)
    PROVE  Goes(w)
<1>0. UNCHANGED <<connection, keyring, onFile, compared>> BY DEF DeclineBankKeys, Performs, asked
<1>1. CASE Fails(w) BY <1>0, <1>1, FailsStands
<1>2. CASE ~Fails(w)
  <2> DEFINE marks == Marks(Rows("bank", "pending"), "superseded")
  <2>1. Writes(w, marks, "settling") BY <1>2 DEF DeclineBankKeys
  <2>2. PICK s \in {"active", "superseded"} : s = "superseded" OBVIOUS
  <2>3. PICK rows \in SUBSET keyring : rows = Rows("bank", "pending") BY DEF Rows
  <2>4. /\ Marks(rows, s) \in Seq(Write)
        /\ \A i \in DOMAIN Marks(rows, s) : Marks(rows, s)[i].op = "mark" /\ Marks(rows, s)[i].row.status = s
    <3>1. keyring \subseteq OwnKeys \cup BankKeys /\ IsFiniteSet(keyring) BY DEF TypeInv, TypeOK
    <3>2. Marks(rows, s) \in Seq(Write) BY <3>1, MarksTyped
    <3>3. \A i \in DOMAIN Marks(rows, s) :
            Marks(rows, s)[i].op = "mark" /\ Marks(rows, s)[i].row.status = s
      BY <3>1, MarksTyped
    <3> QED BY <3>2, <3>3
  <2>5. /\ marks \in Seq(Write)
        /\ \A i \in DOMAIN marks : marks[i].op = "mark" /\ marks[i].row.status = "superseded"
    BY <2>2, <2>3, <2>4
  <2> HIDE DEF marks
  <2>6. Orderly(marks) BY <2>5 DEF Orderly, SetsAside, Adds
  <2>7. \A i \in DOMAIN marks : marks[i].op # "supersede" BY <2>5
  <2> QED BY <1>0, <2>1, <2>5, <2>6, <2>7, WritesStands
<1> QED BY <1>1, <1>2

\* A plan about keys of ours is in order.
LEMMA OwnOrderly ==
    ASSUME NEW todo \in Seq(Write), \A i \in DOMAIN todo : todo[i].op # "supersede" /\ ~Bank(todo[i])
    PROVE  Orderly(todo)
BY DEF Orderly, Adds

LEMMA OwnStands ==
    ASSUME TypeInv, KeysInv, NEW w \in Workers, CreateKeys(w) \/ RenewKey(w) \/ SuspendKeys(w)
    PROVE  Goes(w)
<1>0. UNCHANGED <<connection, keyring, onFile, compared>>
  BY DEF CreateKeys, RenewKey, SuspendKeys, Performs, asked
<1>t. keyring \subseteq OwnKeys \cup BankKeys /\ IsFiniteSet(keyring) BY DEF TypeInv, TypeOK
<1>1. CASE Fails(w) BY <1>0, <1>1, FailsStands
<1>2. ASSUME NEW todo \in Seq(Write), Writes(w, todo, "settling"),
             \A i \in DOMAIN todo : todo[i].op # "supersede" /\ ~Bank(todo[i])
      PROVE  Goes(w)
  BY <1>0, <1>2, OwnOrderly, WritesStands
<1>3. CASE CreateKeys(w) /\ ~Fails(w)
  <2> DEFINE todo == <<Insert(Own("A006", 1, "active")), Insert(Own("X002", 1, "active")),
                       Insert(Own("E002", 1, "active"))>>
  <2>1. todo \in Seq(Write) BY InsertsTyped DEF SUBSCRIBER_VERSIONS
  <2>2. \A i \in DOMAIN todo : todo[i].op # "supersede" /\ ~Bank(todo[i]) BY DEF Insert, Own, Bank
  <2>3. Writes(w, todo, "settling") BY <1>3 DEF CreateKeys
  <2> HIDE DEF todo
  <2> QED BY <1>2, <2>1, <2>2, <2>3
<1>4. CASE RenewKey(w) /\ ~Fails(w)
  <2>1. PICK version \in worker[w].request.versions :
            LET current == Active("subscriber", version) IN
            /\ current # {}
            /\ Writes(w, Marks({Newest(current)}, "superseded") \o
                <<Insert(Own(version, Newest(current).generation + 1, "active"))>>, "settling")
    BY <1>4 DEF RenewKey
  <2>2. PICK row \in Active("subscriber", version) :
          /\ row = Newest(Active("subscriber", version)) /\ row.generation \in Nat /\ row \in keyring
    BY <1>t, <2>1, RowsOf
  <2> DEFINE marks == Marks({row}, "superseded")
             more == <<Insert(Own(version, row.generation + 1, "active"))>>
  <2>3. /\ marks \in Seq(Write)
        /\ \A i \in DOMAIN marks : marks[i].op = "mark" /\ ~Bank(marks[i])
    <3>1. PICK s \in {"active", "superseded"} : s = "superseded" OBVIOUS
    <3>2. PICK rows \in SUBSET keyring : rows = {row} BY <2>2
    <3>3. Marks(rows, s) \in Seq(Write) BY <1>t, MarksTyped
    <3>4. \A i \in DOMAIN Marks(rows, s) : Marks(rows, s)[i].op = "mark"
      BY <1>t, MarksTyped
    <3>5. \A i \in DOMAIN Marks(rows, s) : \E other \in rows : Same(Marks(rows, s)[i].row, other)
      BY <1>t, MarksTyped
    <3>6. row.holder = "subscriber" BY DEF Active, Rows
    <3>7. \A i \in DOMAIN Marks(rows, s) : Same(Marks(rows, s)[i].row, row) BY <3>2, <3>5
    <3>8. \A i \in DOMAIN Marks(rows, s) : ~Bank(Marks(rows, s)[i])
      BY <3>6, <3>7 DEF Same, Bank
    <3>9. marks = Marks(rows, s) BY <3>1, <3>2
    <3> QED BY <3>3, <3>4, <3>8, <3>9
  <2>4. more \in Seq(Write)
    <3>1. version \in SUBSCRIBER_VERSIONS BY DEF TypeInv, TypeOK, WorkerState, Request
    <3>2. row.generation + 1 \in Nat BY <2>2
    <3> QED BY <3>1, <3>2, InsertsTyped
  <2>5. \A i \in DOMAIN more : more[i].op = "insert" /\ ~Bank(more[i]) BY DEF Insert, Own, Bank
  <2>6. Writes(w, marks \o more, "settling") BY <2>1, <2>2
  <2> HIDE DEF marks, more
  <2>7. marks \o more \in Seq(Write) BY <2>3, <2>4, PlanIs
  <2>8. \A i \in DOMAIN (marks \o more) :
          (marks \o more)[i].op # "supersede" /\ ~Bank((marks \o more)[i])
    BY <2>3, <2>4, <2>5, PlanIs
  <2> QED BY <1>2, <2>6, <2>7, <2>8
<1>5. CASE SuspendKeys(w) /\ ~Fails(w)
  <2> DEFINE affected == {row \in Rows("subscriber", "active") :
                            row.version \in worker[w].request.versions}
  <2>1. Writes(w, Marks(affected, "suspended"), "settling") BY <1>5 DEF SuspendKeys
  <2>a. affected \in SUBSET keyring /\ \A row \in affected : row.holder = "subscriber" BY DEF Rows
  <2> HIDE DEF affected
  <2>2. PICK rows \in SUBSET keyring : rows = affected /\ \A row \in rows : row.holder = "subscriber"
    BY <2>a
  <2>s. PICK s : s = "suspended" OBVIOUS
  <2>m. /\ Marks(rows, s) \in Seq(Write)
        /\ \A i \in DOMAIN Marks(rows, s) :
             Marks(rows, s)[i].op = "mark" /\ \E row \in rows : Same(Marks(rows, s)[i].row, row)
    <3>1. keyring \subseteq OwnKeys \cup BankKeys /\ IsFiniteSet(keyring) BY <1>t
    <3>2. s \in {"active", "superseded"} \/ (s = "suspended" /\ \A row \in rows : row.holder = "subscriber")
      BY <2>2, <2>s
    <3>3. rows \in SUBSET keyring BY <2>2
    <3>4. Marks(rows, s) \in Seq(Write) BY ONLY <3>1, <3>2, <3>3, MarksTyped
    <3>5. \A i \in DOMAIN Marks(rows, s) : Marks(rows, s)[i].op = "mark"
      BY ONLY <3>1, <3>2, <3>3, MarksTyped
    <3>6. ASSUME NEW i \in DOMAIN Marks(rows, s)
          PROVE  \E row \in rows : Same(Marks(rows, s)[i].row, row)
      BY ONLY <3>1, <3>2, <3>3, <3>6, MarksTyped
    <3> QED BY <3>4, <3>5, <3>6
  <2>3. Marks(rows, "suspended") \in Seq(Write) BY <2>m, <2>s
  <2>4. \A i \in DOMAIN Marks(rows, "suspended") : Marks(rows, "suspended")[i].op = "mark"
    BY <2>m, <2>s
  <2>5. \A i \in DOMAIN Marks(rows, "suspended") :
            \E row \in rows : Same(Marks(rows, "suspended")[i].row, row)
    BY <2>m, <2>s
  <2>7. \A i \in DOMAIN Marks(rows, "suspended") : ~Bank(Marks(rows, "suspended")[i])
    <3>1. \A x \in rows : \A y : Same(y.row, x) => ~Bank(y) BY <2>2 DEF Same, Bank
    <3> QED BY <2>5, <3>1
  <2>6. \A i \in DOMAIN Marks(rows, "suspended") :
            Marks(rows, "suspended")[i].op # "supersede" /\ ~Bank(Marks(rows, "suspended")[i])
    BY <2>4, <2>7
  <2> QED BY <1>2, <2>1, <2>2, <2>3, <2>6
<1> QED BY <1>1, <1>3, <1>4, <1>5

\* INI or HIA was taken: the worker says what the bank has on file.
LEMMA RegistrationStands ==
    ASSUME TypeInv, KeysInv, NEW w \in Workers, RegistrationSent(w)
    PROVE  Goes(w)
<1> DEFINE action == worker[w].request.action
<1>0. UNCHANGED <<connection, keyring, compared>> /\ onFile \subseteq onFile'
      /\ action \in {"send_ini", "send_hia"} /\ Exchanges(worker[w])
  BY DEF RegistrationSent, asked, KeysInv, WorkStands
<1>1. CASE Fails(w) BY <1>0, <1>1, FailsStands
<1>2. CASE ~Fails(w)
  <2>1. /\ HasKeys /\ onFile' = onFile \cup Sends(action)
        /\ Becomes(w, [worker[w] EXCEPT !.pc = "saving",
                            !.ini = worker[w].ini \/ action = "send_ini",
                            !.hia = worker[w].hia \/ action = "send_hia"])
    BY <1>2 DEF RegistrationSent
  <2>2. ASSUME NEW version \in SUBSCRIBER_VERSIONS
        PROVE  Newest(Active("subscriber", version)).version = version
    <3>1. Newest(Active("subscriber", version)) \in Active("subscriber", version)
      BY <2>1, RowsOf DEF HasKeys, TypeInv, TypeOK
    <3> QED BY <3>1 DEF Active
  <2>3. /\ action = "send_ini" => OnFile("A006")'
        /\ action = "send_hia" => OnFile("X002")' /\ OnFile("E002")'
        /\ \A version : OnFile(version) => OnFile(version)'
    <3>1. action = "send_ini" => Newest(Active("subscriber", "A006")) \in onFile' BY <2>1 DEF Sends
    <3>2. action = "send_hia" => /\ Newest(Active("subscriber", "X002")) \in onFile'
                                 /\ Newest(Active("subscriber", "E002")) \in onFile'
      BY <2>1 DEF Sends
    <3> QED BY <1>0, <2>2, <3>1, <3>2 DEF OnFile, SUBSCRIBER_VERSIONS
  <2>4. PICK me \in WorkerState : me = worker[w] BY DEF TypeInv, TypeOK
  <2>5. PICK a \in BOOLEAN, b \in BOOLEAN :
          a = (me.ini \/ action = "send_ini") /\ b = (me.hia \/ action = "send_hia")
    OBVIOUS
  <2>6. PICK r : r = [me EXCEPT !.pc = "saving", !.ini = a, !.hia = b] OBVIOUS
  <2>7. /\ r.pc = "saving" /\ r.ini = a /\ r.hia = b
        /\ r.request = me.request /\ r.pair = me.pair /\ r.prints = me.prints
    BY <2>6 DEF WorkerState
  <2>8. Becomes(w, r) BY <2>1, <2>4, <2>5, <2>6
  <2>9. /\ me.ini = connection.ini /\ me.hia = connection.hia
        /\ me.pair = NoPair /\ me.prints = NoPair
        /\ action = "send_ini" => connection.state = "created"
        /\ action = "send_hia" => connection.state = "ini_sent"
    BY <1>0, <2>4 DEF Exchanges, Follows
  <2>10. Filed(me) BY <2>4 DEF KeysInv, WorkStands
  <2>11. Filed(r)' BY <2>3, <2>5, <2>7, <2>10 DEF Filed
  <2>12. SaveStands(r)'
    <3>1. CASE action = "send_ini"
      <4>1. connection.state = "created" /\ ~connection.hia
        BY <2>9, <3>1 DEF KeysInv, ProgressStands, Registered
      <4> QED BY <1>0, <2>5, <2>7, <2>9, <3>1, <4>1 DEF SaveStands
    <3>2. CASE action = "send_hia"
      <4>1. connection.state = "ini_sent" /\ connection.ini
        BY <2>9, <3>2 DEF KeysInv, ProgressStands
      <4> QED BY <1>0, <2>5, <2>7, <2>9, <3>2, <4>1 DEF SaveStands
    <3> QED BY <1>0, <3>1, <3>2
  <2>13. WorkStands(r)' BY <2>7, <2>11, <2>12 DEF WorkStands
  <2>14. RowsStand' /\ ProgressStands'
    <3>1. RowsStand' BY <1>0 DEF KeysInv, RowsStand, AtMostOne, Active, Staged, Rows, Live
    <3>2. ProgressStands' BY <1>0, <2>3 DEF KeysInv, ProgressStands, Filed
    <3> QED BY <3>1, <3>2
  <2> QED BY <2>4, <2>7, <2>8, <2>13, <2>14 DEF Goes
<1> QED BY <1>1, <1>2

LEMMA AnswerStands ==
    ASSUME TypeInv, KeysInv, NEW w \in Workers, HPBAnswered(w)
    PROVE  Goes(w)
<1>0. UNCHANGED <<connection, keyring, onFile, compared>> /\ Exchanges(worker[w])
      /\ worker[w].request.action = "fetch_hpb"
  BY DEF HPBAnswered, asked, KeysInv, WorkStands
<1>1. CASE Fails(w) BY <1>0, <1>1, FailsStands
<1>2. CASE ~Fails(w)
  <2>1. PICK pair \in Pairs : Becomes(w, [worker[w] EXCEPT !.pc = "staging", !.pair = pair])
    BY <1>2 DEF HPBAnswered
  <2>2. PICK me \in WorkerState : me = worker[w] BY DEF TypeInv, TypeOK
  <2>3. PICK r : r = [me EXCEPT !.pc = "staging", !.pair = pair] OBVIOUS
  <2>4. /\ r.pc = "staging" /\ r.pair = pair /\ r.prints = me.prints
        /\ r.ini = me.ini /\ r.hia = me.hia /\ r.seen = me.seen /\ r.request = me.request
    BY <2>3 DEF WorkerState
  <2>5. Filed(r) BY <2>2, <2>4 DEF KeysInv, WorkStands, Filed
  <2>6. Fetched(r) BY <1>0, <2>2, <2>4, PairAssumption DEF Fetched, Exchanges, Follows
  <2>7. WorkStands(r) BY <2>4, <2>5, <2>6 DEF WorkStands
  <2>8. Becomes(w, r) BY <2>1, <2>2, <2>3
  <2> QED BY <1>0, <2>2, <2>4, <2>7, <2>8, Unmoved DEF Goes, KeysInv
<1> QED BY <1>1, <1>2

LEMMA WrittenStands ==
    ASSUME TypeInv, KeysInv, NEW w \in Workers, WriteRow(w)
    PROVE  Goes(w)
<1>0. /\ UNCHANGED <<connection, onFile, compared>> /\ worker[w].pc = "writing"
      /\ WritesStand(worker[w]) /\ RowsStand /\ ProgressStands /\ Filed(worker[w])
  BY DEF WriteRow, asked, KeysInv, WorkStands
<1>1. CASE Fails(w) /\ UNCHANGED keyring BY <1>0, <1>1, FailsStands
<1>2. CASE ~(Fails(w) /\ UNCHANGED keyring)
  <2>1. PICK me \in WorkerState : me = worker[w] BY DEF TypeInv, TypeOK
  <2>2. PICK todo \in Seq(Write) : todo = me.todo BY DEF WorkerState
  <2>3. /\ todo # <<>> /\ (Head(todo).op = "insert" => Hit(Head(todo)) = {})
        /\ keyring' = Written(Head(todo))
        /\ Becomes(w, [me EXCEPT !.todo = Tail(todo)])
    BY <1>2, <2>1, <2>2 DEF WriteRow
  <2>4. PICK r : r = [me EXCEPT !.todo = Tail(todo)] OBVIOUS
  <2>5. Keeps(r, me) /\ r.pc = me.pc /\ r.next = me.next /\ r.todo = Tail(todo)
    BY <2>4 DEF Keeps, WorkerState
  <2>6. ProgressStands' /\ Filed(r)'
    BY <1>0, <2>1, <2>5 DEF ProgressStands, Filed, OnFile, Keeps
  <2>7. WritesStand(r)' /\ RowsStand'
    <3>1. CASE Orderly(todo) /\ (me.next = "settling" \/ (me.next = "saving" /\ Fetched(me) /\ connection.state = "keys_sent"))
      <4>1. RowsStand' /\ Orderly(Tail(todo))' BY <1>0, <2>3, <3>1, OrderlyWritten
      <4>2. Fetched(me) => Fetched(r)' BY <1>0, <2>5 DEF Fetched, Follows, Keeps
      <4> QED BY <1>0, <2>5, <3>1, <4>1, <4>2 DEF WritesStand
    <3>2. CASE me.next = "trusting" /\ Confirming(me) /\ Retiring(todo, me.pair)
      <4>1. \A i \in DOMAIN todo : todo[i].row.status = "superseded"
        BY <2>1, <2>2, <3>2 DEF Retiring, TypeInv
      <4>2. RowsStand' /\ Retiring(Tail(todo), me.pair)'
        BY <1>0, <2>3, <3>2, <4>1, RetiringWritten
      <4>3. Confirming(r)' BY <1>0, <2>5, <3>2 DEF Confirming, Follows, Keeps
      <4> QED BY <2>5, <3>2, <4>2, <4>3 DEF WritesStand, Keeps
    <3>3. CASE me.next = "saving" /\ Confirming(me) /\ Trusting(todo, me.pair)
      <4>1. RowsStand' /\ Trusting(Tail(todo), me.pair)'
        BY <1>0, <2>3, <3>3, TrustingWritten DEF Confirming
      <4>2. Confirming(r)' BY <1>0, <2>5, <3>3 DEF Confirming, Follows, Keeps
      <4> QED BY <2>5, <3>3, <4>1, <4>2 DEF WritesStand, Keeps
    <3> QED BY <1>0, <2>1, <2>2, <3>1, <3>2, <3>3 DEF WritesStand
  <2>8. WorkStands(r)' BY <1>0, <2>1, <2>5, <2>6, <2>7 DEF WorkStands
  <2>9. Becomes(w, r) BY <2>3, <2>4
  <2> QED BY <2>1, <2>5, <2>6, <2>7, <2>8, <2>9 DEF Goes, Keeps
<1> QED BY <1>1, <1>2

\* Once the pair in use is out, all that waits is to be trusted.
LEMMA DoneStands ==
    ASSUME TypeInv, KeysInv, NEW w \in Workers, WritesDone(w)
    PROVE  Goes(w)
<1>0. /\ UNCHANGED <<connection, keyring, onFile, compared>> /\ worker[w].pc = "writing"
      /\ worker[w].todo = <<>> /\ WritesStand(worker[w]) /\ Filed(worker[w]) /\ RowsStand
  BY DEF WritesDone, asked, KeysInv, WorkStands
<1>n. DOMAIN worker[w].todo = {} BY <1>0
<1>1. CASE worker[w].next = "trusting"
  <2>1. Confirming(worker[w]) /\ Retiring(worker[w].todo, worker[w].pair)
    BY <1>0, <1>1 DEF WritesStand
  <2>2. \A version \in BANK_VERSIONS :
          /\ Active("bank", version) = {}
          /\ \E row \in Staged(version) : row.key = KeyOf(worker[w].pair, version)
    BY <1>n, <2>1 DEF Retiring
  <2> DEFINE marks == Marks(Rows("bank", "pending"), "active")
  <2>3. Writes(w, marks, "saving") BY <1>1 DEF WritesDone
  <2>4. PICK s \in {"active", "superseded"} : s = "active" OBVIOUS
  <2>5. PICK rows \in SUBSET keyring : rows = Rows("bank", "pending") BY DEF Rows
  <2>t. keyring \subseteq OwnKeys \cup BankKeys /\ IsFiniteSet(keyring) BY DEF TypeInv, TypeOK
  <2>6. Marks(rows, s) \in Seq(Write) BY <2>t, MarksTyped
  <2>7. \A i \in DOMAIN Marks(rows, s) : Marks(rows, s)[i].op = "mark" /\ Marks(rows, s)[i].row.status = s
    BY <2>t, MarksTyped
  <2>8. \A i \in DOMAIN Marks(rows, s) : \E row \in rows : Same(Marks(rows, s)[i].row, row)
    BY <2>t, MarksTyped
  <2>9. \A row \in rows : \E i \in DOMAIN Marks(rows, s) : Same(Marks(rows, s)[i].row, row)
    BY <2>t, MarksTyped
  <2>10. /\ marks \in Seq(Write)
         /\ \A i \in DOMAIN marks : /\ marks[i].op = "mark" /\ marks[i].row.status = "active"
                                    /\ \E row \in rows : Same(marks[i].row, row)
         /\ \A row \in rows : \E i \in DOMAIN marks : Same(marks[i].row, row)
    BY <2>4, <2>5, <2>6, <2>7, <2>8, <2>9
  <2> HIDE DEF marks
  <2>11. \A row \in rows : row.version \in BANK_VERSIONS /\ row \in Staged(row.version)
    BY <2>5, <2>t DEF Rows, Staged, OwnKeys, BankKeys
  <2>12. \A version \in BANK_VERSIONS : Live(version) = Staged(version) /\ Staged(version) \subseteq rows
    BY <2>2, <2>5, LiveIs DEF Staged
  <2>13. ASSUME NEW i \in DOMAIN marks
         PROVE  \E version \in BANK_VERSIONS : \E row \in Live(version) : Same(marks[i].row, row)
    BY <2>10, <2>11, <2>12
  <2>14. Trusting(marks, worker[w].pair)
    BY <1>0, <2>2, <2>10, <2>12, <2>13 DEF Trusting, RowsStand
  <2>15. \A i \in DOMAIN marks : marks[i].op # "supersede" BY <2>10
  <2> QED BY <1>0, <2>1, <2>3, <2>10, <2>14, <2>15, WritesStands
<1>2. CASE worker[w].next # "trusting"
  <2>1. PICK me \in WorkerState : me = worker[w] BY DEF TypeInv, TypeOK
  <2>2. PICK r : r = [me EXCEPT !.pc = me.next] OBVIOUS
  <2>3. Keeps(r, me) /\ r.pc = me.next BY <2>2 DEF Keeps, WorkerState
  <2>4. Becomes(w, r) BY <1>2, <2>1, <2>2 DEF WritesDone
  <2>5. Filed(r) BY <1>0, <2>1, <2>3 DEF Filed, Keeps
  <2>6. me.next = "saving" => SaveStands(r)
    <3>1. CASE Fetched(me) /\ connection.state = "keys_sent"
      BY <2>3, <3>1 DEF SaveStands, Fetched, Follows, Keeps
    <3>2. CASE Confirming(me) /\ Trusting(me.todo, me.pair)
      <4>1. \A version \in BANK_VERSIONS : Staged(version) = {} /\ Live(version) # {}
        BY <1>n, <2>1, <3>2 DEF Trusting
      <4>2. HasBankKeys BY <4>1, LiveIs DEF HasBankKeys
      <4> QED BY <2>3, <3>2, <4>2 DEF SaveStands, Confirming, Follows, Keeps
    <3> QED BY <1>0, <2>1, <3>1, <3>2 DEF WritesStand
  <2>7. me.next \in {"saving", "settling"} BY <1>2, <2>1 DEF WorkerState
  <2>8. WorkStands(r) BY <2>3, <2>5, <2>6, <2>7 DEF WorkStands
  <2> QED BY <1>0, <2>1, <2>3, <2>4, <2>8, Unmoved DEF Goes, KeysInv, Keeps
<1> QED BY <1>1, <1>2

\* What is saved is where the registration stands.
LEMMA SavedIs ==
    ASSUME TypeInv, KeysInv, NEW w \in Workers, SaveProgress(w)
    PROVE  \/ connection.state = "created" /\ connection'.state = "ini_sent"
           \/ connection.state = "ini_sent" /\ connection'.state = "keys_sent"
           \/ connection.state = "keys_sent" /\ connection'.state = "bank_keys_received"
           \/ /\ connection.state \in {"bank_keys_received", "ready"} /\ HasBankKeys
              /\ connection'.state = "ready"
<1>1. SaveStands(worker[w]) BY DEF SaveProgress, KeysInv, WorkStands
<1>2. connection'.state = StateOf(worker[w].ini, worker[w].hia, worker[w].pair, worker[w].prints)
  BY DEF SaveProgress
<1>3. NoPair \notin compared BY PairAssumption DEF TypeInv, TypeOK
<1> QED BY <1>1, <1>2, <1>3 DEF SaveStands, StateOf, Fetched, Confirming

LEMMA SaveProgressStands ==
    ASSUME TypeInv, KeysInv, NEW w \in Workers, SaveProgress(w)
    PROVE  Goes(w)
<1>0. /\ UNCHANGED <<keyring, onFile, compared>> /\ SaveStands(worker[w]) /\ Filed(worker[w])
      /\ RowsStand /\ ProgressStands
  BY DEF SaveProgress, asked, KeysInv, WorkStands
<1>1. PICK me \in WorkerState : me = worker[w] BY DEF TypeInv, TypeOK
<1>2. PICK r : r = [me EXCEPT !.pc = "settling"] OBVIOUS
<1>3. Keeps(r, me) /\ r.pc = "settling" BY <1>2 DEF Keeps, WorkerState
<1>4. Becomes(w, r) BY <1>1, <1>2 DEF SaveProgress
<1>5. WorkStands(r)'
  <2>1. Filed(r)' BY <1>0, <1>1, <1>3 DEF Filed, OnFile, Keeps
  <2> QED BY <1>3, <2>1 DEF WorkStands
<1>6. RowsStand' BY <1>0 DEF RowsStand, AtMostOne, Active, Staged, Rows, Live
<1>7. /\ connection'.ini = me.ini /\ connection'.hia = me.hia /\ connection'.prints = me.prints
      /\ connection'.state = StateOf(me.ini, me.hia, me.pair, me.prints)
  BY <1>1 DEF SaveProgress
<1>8. NoPair \notin compared BY PairAssumption DEF TypeInv, TypeOK
<1>9. ProgressStands'
  <2>1. Filed(connection)' BY <1>0, <1>1, <1>7 DEF Filed, OnFile
  <2>2. /\ me.ini \in BOOLEAN /\ me.hia \in BOOLEAN BY DEF WorkerState
  <2>3. CASE /\ me.pair = NoPair /\ me.prints = NoPair
             /\ \/ connection.state = "created" /\ me.ini /\ ~me.hia
                \/ connection.state = "ini_sent" /\ me.ini /\ me.hia
    BY <2>1, <2>2, <2>3, <1>7, <1>8 DEF ProgressStands, StateOf, Registered
  <2>4. CASE Fetched(me) /\ connection.state = "keys_sent"
    <3>1. me.ini /\ me.hia BY <1>0, <2>4 DEF Fetched, Follows, ProgressStands, Registered
    <3> QED BY <2>1, <2>2, <2>4, <3>1, <1>7, <1>8 DEF Fetched, ProgressStands, StateOf, Registered
  <2>5. CASE Confirming(me)
    <3>1. me.ini /\ me.hia BY <1>0, <2>5 DEF Confirming, Follows, ProgressStands, Registered
    <3> QED BY <1>0, <2>1, <2>2, <2>5, <3>1, <1>7, <1>8
         DEF Confirming, ProgressStands, StateOf, Registered
  <2> QED BY <1>0, <1>1, <2>3, <2>4, <2>5 DEF SaveStands
<1> QED BY <1>1, <1>3, <1>4, <1>5, <1>6, <1>9 DEF Goes, Keeps

-----------------------------------------------------------------------------
(* Every step keeps KeysInv.                                                *)

\* A worker that has nothing to do, or has only claimed, claims nothing.
LEMMA IdleStands ==
    ASSUME NEW r, r.pc \in {"idle", "claimed"}, r.pair = NoPair, r.prints = NoPair, ~r.ini, ~r.hia
    PROVE  WorkStands(r) /\ WorkStands(r)'
BY DEF WorkStands, Filed

LEMMA RegisterStands ==
    ASSUME TypeInv, KeysInv, NEW w \in Workers, NEW action \in {"send_ini", "send_hia"},
           Register(w, action)
    PROVE  Goes(w)
<1>1. /\ worker[w].pc = "claimed" /\ worker[w].request.action = action
      /\ connection.state \in ALLOWED_FROM[worker[w].request.action]
      /\ UNCHANGED <<connection, keyring, onFile, compared>>
  BY DEF Register, Performs, asked
<1>2. Fails(w) \/ Becomes(w, [Resumed(w) EXCEPT !.pc = "exchanging"]) BY DEF Register
<1> QED BY <1>1, <1>2, FailsStands, ExchangeStands

LEMMA FetchStands ==
    ASSUME TypeInv, KeysInv, NEW w \in Workers, FetchHPB(w) \/ FetchCatalogue(w)
    PROVE  Goes(w)
<1>1. /\ worker[w].pc = "claimed" /\ UNCHANGED <<connection, keyring, onFile, compared>>
      /\ connection.state \in ALLOWED_FROM[worker[w].request.action]
  BY DEF FetchHPB, FetchCatalogue, Performs, asked
<1>2. CASE Fails(w) BY <1>1, <1>2, FailsStands
<1>3. CASE Becomes(w, [Resumed(w) EXCEPT !.pc = "exchanging"]) BY <1>1, <1>3, ExchangeStands
<1>4. CASE Becomes(w, [worker[w] EXCEPT !.pc = "settling"])
  <2>1. PICK me \in WorkerState : me = worker[w] BY DEF TypeInv, TypeOK
  <2>2. PICK r : r = [me EXCEPT !.pc = "settling"] OBVIOUS
  <2>3. Keeps(r, me) /\ r.pc = "settling" BY <2>2 DEF Keeps, WorkerState
  <2>4. Becomes(w, r) BY <1>4, <2>1, <2>2
  <2>5. WorkStands(r) BY <2>1, <2>3 DEF KeysInv, WorkStands, Filed, Keeps
  <2> QED BY <1>1, <2>1, <2>3, <2>4, <2>5, Unmoved DEF Goes, KeysInv, Keeps
<1> QED BY <1>2, <1>3, <1>4 DEF FetchHPB, FetchCatalogue

\* Whatever a worker does about its job short of settling it stands.
LEMMA WorksStand ==
    ASSUME TypeInv, KeysInv, NEW w \in Workers, Works(w), ~Settle(w)
    PROVE  Goes(w)
<1>1. CASE NotAvailable(w) \/ WriteFails(w)
  BY <1>1, FailsStands DEF NotAvailable, WriteFails, asked
<1>2. CASE CreateKeys(w) \/ RenewKey(w) \/ SuspendKeys(w) BY <1>2, OwnStands
<1>3. CASE Register(w, "send_ini") \/ Register(w, "send_hia") BY <1>3, RegisterStands
<1>4. CASE FetchHPB(w) \/ FetchCatalogue(w) BY <1>4, FetchStands
<1> QED BY <1>1, <1>2, <1>3, <1>4, ConfirmStands, DeclineStands, RegistrationStands, AnswerStands,
           StageStands, WrittenStands, DoneStands, SaveProgressStands DEF Works

\* The others have nothing to do: what one worker changes is nobody else's.
LEMMA OneWorks ==
    ASSUME JobInv, TypeInv, KeysInv, NEW w \in Workers, Works(w), ~Settle(w)
    PROVE  KeysInv'
<1>1. UNCHANGED <<job, console>> /\ Busy(w) BY WorksEffect DEF JobInv
<1>2. UNCHANGED compared
  BY DEF Works, NotAvailable, CreateKeys, RenewKey, SuspendKeys, Register, FetchHPB,
     FetchCatalogue, ConfirmBankKeys, DeclineBankKeys, Performs, RegistrationSent, HPBAnswered,
     Stage, WriteRow, WriteFails, WritesDone, SaveProgress, asked
<1>3. PICK r : /\ Becomes(w, r) /\ r.request = worker[w].request
               /\ WorkStands(r)' /\ RowsStand' /\ ProgressStands'
  BY WorksStand DEF Goes
<1>4. /\ worker'[w] = r /\ \A v \in Workers \ {w} : worker'[v] = worker[v]
  BY <1>3 DEF Becomes, TypeInv, TypeOK
<1>5. ASSUME NEW v \in Workers PROVE WorkStands(worker[v])'
  <2>1. CASE v = w BY <1>3, <1>4, <2>1
  <2>2. CASE v # w
    <3>1. PICK other : other = worker[v] OBVIOUS
    <3>2. other.pc = "idle" BY <1>1, <2>2, <3>1 DEF JobInv, JobsStand, Busy
    <3>3. WorkStands(other) BY <3>1 DEF KeysInv
    <3>4. WorkStands(other)' BY <3>2, <3>3, IdleStands DEF WorkStands
    <3> QED BY <1>4, <2>2, <3>1, <3>4
  <2> QED BY <2>1, <2>2
<1>6. LettersRead'
  <2>1. \A v \in Workers : worker'[v].request = worker[v].request BY <1>3, <1>4
  <2> QED BY <1>1, <1>2, <2>1 DEF KeysInv, LettersRead
<1> QED BY <1>3, <1>5, <1>6 DEF KeysInv

\* A worker that takes a job, or is done with one, has nothing of its own yet.
LEMMA HandedOver ==
    ASSUME TypeInv, KeysInv, NEW w \in Workers, NEW r, Becomes(w, r),
           r.pc \in {"idle", "claimed"}, r.pair = NoPair, r.prints = NoPair, ~r.ini, ~r.hia,
           r.request.letter \in compared \cup {NoPair},
           \A j \in Jobs : job'[j].request.letter \in compared \cup {NoPair},
           UNCHANGED <<connection, keyring, console, onFile, compared>>
    PROVE  KeysInv'
<1>1. worker'[w] = r /\ \A v \in Workers \ {w} : worker'[v] = worker[v]
  BY DEF Becomes, TypeInv, TypeOK
<1>2. WorkStands(r)' BY IdleStands
<1>3. ASSUME NEW v \in Workers PROVE WorkStands(worker[v])'
  <2>1. CASE v = w BY <1>1, <1>2, <2>1
  <2>2. CASE v # w
    <3>1. PICK other : other = worker[v] OBVIOUS
    <3>2. WorkStands(other)' BY <3>1, Unmoved DEF KeysInv
    <3> QED BY <1>1, <2>2, <3>1, <3>2
  <2> QED BY <2>1, <2>2
<1>4. LettersRead' BY <1>1 DEF KeysInv, LettersRead
<1> QED BY <1>3, <1>4, Unmoved DEF KeysInv

LEMMA KeysInvInit == Init => KeysInv
<1> SUFFICES ASSUME Init PROVE KeysInv OBVIOUS
<1>1. \A w \in Workers : WorkStands(worker[w]) /\ worker[w].request.letter = NoPair
  <2>1. Idle.pc = "idle" /\ Idle.pair = NoPair /\ Idle.prints = NoPair /\ ~Idle.ini /\ ~Idle.hia
        /\ Idle.request.letter = NoPair
    BY DEF Idle, NoRequest
  <2> QED BY <2>1, IdleStands DEF Init
<1>2. LettersRead BY <1>1 DEF LettersRead, Init, Settled, Waiting, NoRequest
<1>3. \A row \in keyring : row.holder = "subscriber" /\ row.generation = 1
                           /\ row = Own(row.version, 1, "active")
  BY DEF Init, Own
<1>4. RowsStand
  <2>1. \A version : Active("bank", version) = {} /\ Staged(version) = {} /\ Live(version) = {}
    BY <1>3 DEF Active, Staged, Rows, Live
  <2>2. \A row, other \in keyring : Same(row, other) => row = other BY <1>3 DEF Same
  <2> QED BY <2>1, <2>2 DEF RowsStand, AtMostOne
<1>5. ProgressStands
  <2>1. CASE connection = [state |-> "created", ini |-> FALSE, hia |-> FALSE, prints |-> NoPair]
    BY <2>1 DEF ProgressStands, Filed, Registered
  <2>2. CASE /\ connection = [state |-> "keys_sent", ini |-> TRUE, hia |-> TRUE, prints |-> NoPair]
             /\ onFile = {Own(version, 1, "active") : version \in SUBSCRIBER_VERSIONS}
    <3>1. \A version \in SUBSCRIBER_VERSIONS : OnFile(version)
      <4> TAKE version \in SUBSCRIBER_VERSIONS
      <4>1. Own(version, 1, "active") \in onFile /\ Own(version, 1, "active").version = version
        BY <2>2 DEF Own
      <4> QED BY <4>1 DEF OnFile
    <3> QED BY <2>2, <3>1 DEF ProgressStands, Filed, Registered, SUBSCRIBER_VERSIONS
  <2> QED BY <2>1, <2>2 DEF Init
<1> QED BY <1>1, <1>2, <1>4, <1>5 DEF KeysInv

LEMMA KeysInvNext ==
    ASSUME JobInv, TypeInv, KeysInv, Next
    PROVE  KeysInv'
<1>0. NoRequest.letter = NoPair BY DEF NoRequest
<1>1. ASSUME NEW c \in Consoles, NEW request, Ask(c, request) PROVE KeysInv'
  <2>1. /\ UNCHANGED <<connection, keyring, job, worker, onFile>>
        /\ compared \subseteq compared' /\ request.letter \in compared' \cup {NoPair}
        /\ console' = [console EXCEPT ![c] = [pc |-> "asking", request |-> request]]
    BY <1>1 DEF Ask
  <2>2. LettersRead' BY <2>1 DEF KeysInv, LettersRead, TypeInv, TypeOK
  <2>3. RowsStand'
    BY <2>1 DEF KeysInv, RowsStand, AtMostOne, Active, Staged, Rows, Live
  <2>4. ProgressStands' BY <2>1 DEF KeysInv, ProgressStands, Filed, OnFile
  <2>5. ASSUME NEW w \in Workers PROVE WorkStands(worker[w])'
    <3>1. PICK me : me = worker[w] OBVIOUS
    <3>2. /\ \A version : Staged(version)' = Staged(version) /\ Live(version)' = Live(version)
          /\ \A holder, version : Active(holder, version)' = Active(holder, version)
          /\ \A version : OnFile(version)' = OnFile(version)
      BY <2>1 DEF Active, Staged, Rows, Live, OnFile
    <3>o. \A todo : Orderly(todo)' = Orderly(todo) BY <3>2 DEF Orderly, AtMostOne
    <3>r. \A todo, pair : Retiring(todo, pair)' = Retiring(todo, pair)
      BY <3>2 DEF Retiring, AtMostOne
    <3>s. \A todo, pair : Trusting(todo, pair)' = Trusting(todo, pair)
      BY <3>2 DEF Trusting, AtMostOne
    <3>3. /\ \A todo : Orderly(todo)' = Orderly(todo)
          /\ \A todo, pair : /\ Retiring(todo, pair)' = Retiring(todo, pair)
                             /\ Trusting(todo, pair)' = Trusting(todo, pair)
      BY <3>o, <3>r, <3>s
    <3>4. /\ Filed(me)' = Filed(me) /\ Exchanges(me)' = Exchanges(me) /\ Fetched(me)' = Fetched(me)
          /\ Confirming(me) => Confirming(me)'
          /\ HasBankKeys' = HasBankKeys
      BY <2>1, <3>2 DEF Filed, Exchanges, Fetched, Confirming, Follows, HasBankKeys
    <3>5. WritesStand(me) => WritesStand(me)' BY <2>1, <3>3, <3>4 DEF WritesStand
    <3>6. SaveStands(me) => SaveStands(me)' BY <2>1, <3>4 DEF SaveStands
    <3>7. WorkStands(me) => WorkStands(me)' BY <3>4, <3>5, <3>6 DEF WorkStands
    <3> QED BY <2>1, <3>1, <3>7 DEF KeysInv
  <2> QED BY <2>2, <2>3, <2>4, <2>5 DEF KeysInv
<1>2. ASSUME NEW c \in Consoles, Enqueue(c) PROVE KeysInv'
  <2>1. UNCHANGED <<connection, keyring, worker, onFile, compared>> BY <1>2 DEF Enqueue
  <2>2. console' = [console EXCEPT ![c] = Waiting] /\ Waiting.request.letter = NoPair
    BY <1>0, <1>2 DEF Enqueue, Waiting
  <2>3. PICK j \in Jobs : job' = [job EXCEPT ![j] = Queued(console[c].request)]
    BY <1>2 DEF Enqueue
  <2>4. LettersRead'
    <3>1. \A d \in Consoles : console'[d].request.letter \in compared \cup {NoPair}
      BY <2>2 DEF KeysInv, LettersRead, TypeInv, TypeOK
    <3>2. \A i \in Jobs : job'[i].request.letter \in compared \cup {NoPair}
      BY <2>3 DEF KeysInv, LettersRead, TypeInv, TypeOK, Queued
    <3> QED BY <2>1, <3>1, <3>2 DEF KeysInv, LettersRead
  <2>5. ASSUME NEW w \in Workers PROVE WorkStands(worker[w])'
    <3>1. PICK me : me = worker[w] OBVIOUS
    <3>2. WorkStands(me)' BY <2>1, <3>1, Unmoved DEF KeysInv
    <3> QED BY <2>1, <3>1, <3>2
  <2> QED BY <2>1, <2>4, <2>5, Unmoved DEF KeysInv
<1>3. ASSUME NEW w \in Workers, NEW j \in Jobs, Claim(w, j) PROVE KeysInv'
  <2> DEFINE row == [job[j] EXCEPT !.state = "running", !.claim = "held",
                                   !.attempts = job[j].attempts + 1]
  <2>1. PICK r : r = [Idle EXCEPT !.pc = "claimed", !.job = j, !.request = job[j].request]
    OBVIOUS
  <2>2. /\ r.pc = "claimed" /\ r.pair = NoPair /\ r.prints = NoPair /\ ~r.ini /\ ~r.hia
        /\ r.request = job[j].request
    BY <2>1 DEF Idle
  <2>3. Becomes(w, r) /\ UNCHANGED <<connection, keyring, console, onFile, compared>>
    BY <1>3, <2>1 DEF Claim, Becomes, asked
  <2>4. row.request = job[j].request BY DEF TypeInv, TypeOK, JobRow
  <2>5. job' = [job EXCEPT ![j] = row] BY <1>3 DEF Claim, TypeInv, TypeOK
  <2> HIDE DEF row
  <2>6. \A i \in Jobs : job'[i].request.letter \in compared \cup {NoPair}
    BY <2>4, <2>5 DEF KeysInv, LettersRead, TypeInv, TypeOK
  <2> QED BY <2>2, <2>3, <2>6, HandedOver DEF KeysInv, LettersRead
<1>4. ASSUME NEW w \in Workers, Works(w), ~Settle(w) PROVE KeysInv' BY <1>4, OneWorks
<1>5. ASSUME NEW w \in Workers, Settle(w) \/ WorkerLost(w) PROVE KeysInv'
  <2>1. /\ Becomes(w, Idle) /\ UNCHANGED <<connection, keyring, console, onFile, compared>>
    BY <1>5 DEF Settle, WorkerLost, asked
  <2>2. /\ Idle.pc = "idle" /\ Idle.pair = NoPair /\ Idle.prints = NoPair /\ ~Idle.ini /\ ~Idle.hia
        /\ Idle.request.letter = NoPair
    BY <1>0 DEF Idle
  <2>3. \A i \in Jobs : job'[i].request.letter \in compared \cup {NoPair}
    <3>1. CASE UNCHANGED job BY <3>1 DEF KeysInv, LettersRead
    <3>2. CASE job' = [job EXCEPT ![worker[w].job] = Settled(worker[w].outcome)]
      <4>1. Settled(worker[w].outcome).request.letter = NoPair BY <1>0 DEF Settled
      <4> QED BY <3>2, <4>1 DEF KeysInv, LettersRead, TypeInv, TypeOK
    <3> QED BY <1>5, <3>1, <3>2 DEF Settle, WorkerLost
  <2>4. PICK r : r = Idle OBVIOUS
  <2> QED BY <2>1, <2>2, <2>3, <2>4, HandedOver
<1>6. ASSUME NEW j \in Jobs, LeaseExpires(j) PROVE KeysInv'
  <2>1. UNCHANGED <<connection, keyring, worker, console, onFile, compared>>
    BY <1>6 DEF LeaseExpires, asked
  <2>2. job' = [job EXCEPT ![j] = [job[j] EXCEPT !.claim = "expired"]]
    BY <1>6 DEF LeaseExpires, TypeInv, TypeOK
  <2>3. [job[j] EXCEPT !.claim = "expired"].request = job[j].request
    BY DEF TypeInv, TypeOK, JobRow
  <2>4. LettersRead' BY <2>1, <2>2, <2>3 DEF KeysInv, LettersRead, TypeInv, TypeOK
  <2>5. ASSUME NEW w \in Workers PROVE WorkStands(worker[w])'
    <3>1. PICK me : me = worker[w] OBVIOUS
    <3>2. WorkStands(me)' BY <2>1, <3>1, Unmoved DEF KeysInv
    <3> QED BY <2>1, <3>1, <3>2
  <2> QED BY <2>1, <2>4, <2>5, Unmoved DEF KeysInv
<1> QED BY <1>1, <1>2, <1>3, <1>4, <1>5, <1>6 DEF Next

LEMMA KeysInvStutter ==
    ASSUME KeysInv, UNCHANGED vars PROVE KeysInv'
<1>1. UNCHANGED <<connection, keyring, job, worker, console, onFile, compared>> BY DEF vars, asked
<1>2. LettersRead' BY <1>1 DEF KeysInv, LettersRead
<1>3. ASSUME NEW w \in Workers PROVE WorkStands(worker[w])'
  <2>1. PICK me : me = worker[w] OBVIOUS
  <2>2. WorkStands(me)' BY <1>1, <2>1, Unmoved DEF KeysInv
  <2> QED BY <1>1, <2>1, <2>2
<1> QED BY <1>1, <1>2, <1>3, Unmoved DEF KeysInv

LEMMA KeysInvHolds ==
    ASSUME LeaseOutlivesJob, SingleConsole PROVE Spec => []KeysInv
BY KeysInvInit, KeysInvNext, KeysInvStutter, JobInvHolds, TypeInvHolds, PTL DEF Spec

-----------------------------------------------------------------------------
(* What is trusted, what is claimed, and the life of a connection.          *)

LEMMA TrustedIs ==
    ASSUME TypeInv, RowsStand
    PROVE  /\ HasBankKeys => TrustedPair \in compared /\ TrustedPair \in Pairs
           /\ ~HasBankKeys => TrustedPair = NoPair
           /\ NoPair \notin Pairs
<1>1. ASSUME HasBankKeys PROVE TrustedPair \in compared
  <2>1. \A version \in BANK_VERSIONS : Newest(Active("bank", version)) \in Active("bank", version)
    BY <1>1, RowsOf DEF HasBankKeys, TypeInv, TypeOK
  <2> QED BY <1>1, <2>1 DEF TrustedPair, RowsStand, BANK_VERSIONS
<1> QED BY <1>1, PairAssumption DEF TrustedPair, TypeInv, TypeOK

LEMMA TrustedOrNone == TypeInv /\ RowsStand => TrustedPair \in compared \cup {NoPair}
BY TrustedIs

\* The bank's keys that are in use came as one pair, and that very pair was read
\* off a letter by somebody: through confirmations that stopped halfway, keys
\* fetched again, and keys rolled.
THEOREM TrustedWasComparedHolds ==
    ASSUME LeaseOutlivesJob, SingleConsole PROVE Spec => []TrustedWasCompared
<1>1. TypeInv /\ KeysInv => TrustedWasCompared
  BY TrustedIs DEF TrustedWasCompared, KeysInv
<1> QED BY <1>1, TypeInvHolds, KeysInvHolds, PTL

\* What the connection says it registered, the bank has on file, and what it says
\* of the bank's keys was compared, whichever write or worker was lost.
THEOREM ProgressIsTrueHolds ==
    ASSUME LeaseOutlivesJob, SingleConsole PROVE Spec => []ProgressIsTrue
<1>1. KeysInv => ProgressIsTrue
  BY DEF KeysInv, ProgressStands, Filed, OnFile, ProgressIsTrue, BANK_VERSIONS
<1> QED BY <1>1, KeysInvHolds, PTL

\* A plan in order brings nothing of the bank's into use.
LEMMA OrderlyActive ==
    ASSUME TypeInv, RowsStand, NEW todo \in Seq(Write), todo # <<>>, Orderly(todo),
           keyring' = Written(Head(todo)), UNCHANGED compared,
           Head(todo).op = "insert" => Hit(Head(todo)) = {}
    PROVE  \A version \in BANK_VERSIONS : Active("bank", version)' \subseteq Active("bank", version)
<1>1. PICK write \in Write : write = Head(todo) /\ write = todo[1] /\ 1 \in DOMAIN todo
  BY NextWrite
<1>2. CASE ~Bank(write)
  <2>1. write.op = "mark" \/ (write.op = "insert" /\ Hit(write) = {})
    BY <1>1 DEF Orderly, Write
  <2>2. BankUntouched BY <1>1, <1>2, <2>1, OwnWritten
  <2> QED BY <2>2 DEF BankUntouched
<1>3. CASE SetsAside(write) BY <1>1, <1>3, AsideWritten
<1>4. CASE Adds(write)
  <2>1. /\ write.row.status = "pending" /\ write.row.key \in Keys
        /\ \A row \in Staged(write.row.version) : \E j \in 1..(1 - 1) : TRUE
    BY <1>1, <1>4 DEF Orderly
  <2>2. Staged(write.row.version) = {} BY <2>1
  <2>3. Hit(write) = {} BY <1>1, <1>4 DEF Adds
  <2> QED BY <1>1, <1>4, <2>1, <2>2, <2>3, AddWritten
<1> QED BY <1>1, <1>2, <1>3, <1>4 DEF Orderly

\* With less of the bank's in use, the pair in use is the same, or there is none.
LEMMA LessTrusted ==
    ASSUME TypeInv, TypeInv', RowsStand,
           \A version \in BANK_VERSIONS : Active("bank", version)' \subseteq Active("bank", version)
    PROVE  TrustedPair' \in {TrustedPair, NoPair}
<1>1. CASE ~HasBankKeys' BY <1>1 DEF TrustedPair
<1>2. CASE HasBankKeys'
  <2>1. ASSUME NEW version \in BANK_VERSIONS
        PROVE  Active("bank", version)' = Active("bank", version) /\ Active("bank", version) # {}
    BY <1>2 DEF HasBankKeys, RowsStand, AtMostOne
  <2>2. Active("bank", "X002")' = Active("bank", "X002")
        /\ Active("bank", "E002")' = Active("bank", "E002")
    BY <2>1 DEF BANK_VERSIONS
  <2>3. HasBankKeys BY <2>1 DEF HasBankKeys
  <2>4. \A rows : Newest(rows)' = Newest(rows) BY DEF Newest
  <2>5. PICK x, e : /\ x = Active("bank", "X002") /\ e = Active("bank", "E002")
    OBVIOUS
  <2> QED BY <1>2, <2>2, <2>3, <2>4, <2>5 DEF TrustedPair
<1> QED BY <1>1, <1>2

\* A write to the keyring sets the pair in use aside, brings the next one into
\* use, or does neither.
LEMMA WriteTrusts ==
    ASSUME TypeInv, TypeInv', KeysInv, KeysInv', NEW w \in Workers, WriteRow(w)
    PROVE  \/ TrustedPair' \in {TrustedPair, NoPair}
           \/ /\ connection.state \in {"bank_keys_received", "ready"}
              /\ TrustedPair' \in compared
<1>0. /\ UNCHANGED <<connection, compared>> /\ RowsStand /\ RowsStand'
      /\ worker[w].pc = "writing" /\ WritesStand(worker[w])
  BY DEF WriteRow, asked, KeysInv, WorkStands
<1>1. CASE UNCHANGED keyring
  <2>1. \A version \in BANK_VERSIONS : Active("bank", version)' \subseteq Active("bank", version)
    BY <1>1 DEF Active, Rows
  <2> QED BY <1>0, <2>1, LessTrusted
<1>2. CASE ~UNCHANGED keyring
  <2>1. PICK me \in WorkerState : me = worker[w] BY DEF TypeInv, TypeOK
  <2>2. PICK todo \in Seq(Write) : todo = me.todo BY DEF WorkerState
  <2>3. /\ todo # <<>> /\ (Head(todo).op = "insert" => Hit(Head(todo)) = {})
        /\ keyring' = Written(Head(todo))
    BY <1>2, <2>1, <2>2 DEF WriteRow
  <2>4. CASE Orderly(todo) BY <1>0, <2>3, <2>4, OrderlyActive, LessTrusted
  <2>5. CASE Confirming(me)
    <3>1. connection.state \in {"bank_keys_received", "ready"} BY <2>5 DEF Confirming
    <3>2. (TrustedPair \in compared \cup {NoPair})' BY <1>0, TrustedOrNone, PTL
    <3> QED BY <1>0, <3>1, <3>2
  <2> QED BY <1>0, <2>1, <2>2, <2>4, <2>5 DEF WritesStand
<1> QED BY <1>1, <1>2

LEMMA TrustUnchanged == UNCHANGED keyring => UNCHANGED TrustedPair
<1> SUFFICES ASSUME UNCHANGED keyring PROVE UNCHANGED TrustedPair OBVIOUS
<1>1. \A version : Active("bank", version)' = Active("bank", version) BY DEF Active, Rows
<1>2. \A rows : Newest(rows)' = Newest(rows) BY DEF Newest
<1>3. HasBankKeys' = HasBankKeys BY <1>1 DEF HasBankKeys
<1>4. PICK x, e : x = Active("bank", "X002") /\ e = Active("bank", "E002") OBVIOUS
<1> QED BY <1>1, <1>2, <1>3, <1>4 DEF TrustedPair

\* Every step of the keys is a step of the connection's life, or none of it.
LEMMA LifecycleStep ==
    ASSUME TypeInv, TypeInv', KeysInv, KeysInv', Next
    PROVE  [Lifecycle!Next]_(Lifecycle!vars)
<1>0. NoPair \notin Pairs BY PairAssumption
<1>1. ASSUME UNCHANGED <<connection, keyring, compared>>
      PROVE  [Lifecycle!Next]_(Lifecycle!vars)
  BY <1>1, TrustUnchanged DEF Lifecycle!vars
<1>2. ASSUME NEW c \in Consoles, NEW request \in Requests, Ask(c, request)
      PROVE  [Lifecycle!Next]_(Lifecycle!vars)
  <2>1. UNCHANGED <<connection, keyring>> /\ compared' = compared \cup ({request.letter} \ {NoPair})
    BY <1>2 DEF Ask
  <2>2. UNCHANGED <<connection.state, TrustedPair>> BY <2>1, TrustUnchanged
  <2>3. request.letter \in Pairs \cup {NoPair} BY DEF Requests
  <2>4. CASE request.letter = NoPair BY <1>1, <2>1, <2>4
  <2>5. CASE request.letter \in Pairs
    <3>1. Lifecycle!Compare(request.letter)
      BY <1>0, <2>1, <2>2, <2>5 DEF Lifecycle!Compare
    <3> QED BY <2>5, <3>1 DEF Lifecycle!Next
  <2> QED BY <2>3, <2>4, <2>5
<1>3. ASSUME NEW w \in Workers, WriteRow(w) PROVE [Lifecycle!Next]_(Lifecycle!vars)
  <2>1. UNCHANGED <<connection.state, compared>> BY <1>3 DEF WriteRow, asked
  <2>2. CASE TrustedPair' = TrustedPair BY <2>1, <2>2 DEF Lifecycle!vars
  <2>3. CASE TrustedPair' = NoPair
    <3>1. Lifecycle!SetAside BY <2>1, <2>3 DEF Lifecycle!SetAside
    <3> QED BY <3>1 DEF Lifecycle!Next
  <2>4. CASE connection.state \in {"bank_keys_received", "ready"} /\ TrustedPair' \in compared
    <3>1. PICK pair \in Pairs : pair = TrustedPair' BY <2>4 DEF TypeInv, TypeOK
    <3>2. Lifecycle!Trust(pair) BY <2>1, <2>4, <3>1 DEF Lifecycle!Trust
    <3> QED BY <3>2 DEF Lifecycle!Next
  <2> QED BY <1>3, <2>2, <2>3, <2>4, WriteTrusts
<1>4. ASSUME NEW w \in Workers, SaveProgress(w) PROVE [Lifecycle!Next]_(Lifecycle!vars)
  <2>1. UNCHANGED <<keyring, compared>> BY <1>4 DEF SaveProgress, asked
  <2>2. UNCHANGED <<TrustedPair, compared>> BY <2>1, TrustUnchanged
  <2>3. CASE HasBankKeys /\ connection'.state = "ready"
    <3>1. TrustedPair # NoPair BY <1>0, <2>3, TrustedIs DEF KeysInv
    <3>2. Lifecycle!Ready BY <2>2, <2>3, <3>1 DEF Lifecycle!Ready
    <3> QED BY <3>2 DEF Lifecycle!Next
  <2>4. CASE \/ connection.state = "created" /\ connection'.state = "ini_sent"
             \/ connection.state = "ini_sent" /\ connection'.state = "keys_sent"
             \/ connection.state = "keys_sent" /\ connection'.state = "bank_keys_received"
    <3>1. Lifecycle!Advance BY <2>2, <2>4 DEF Lifecycle!Advance
    <3> QED BY <3>1 DEF Lifecycle!Next
  <2> QED BY <1>4, <2>3, <2>4, SavedIs
<1>5. ASSUME NEW w \in Workers, Works(w), ~WriteRow(w), ~SaveProgress(w)
      PROVE  UNCHANGED <<connection, keyring, compared>>
  BY <1>5 DEF Works, NotAvailable, CreateKeys, RenewKey, SuspendKeys, Register, FetchHPB,
     FetchCatalogue, ConfirmBankKeys, DeclineBankKeys, Performs, RegistrationSent, HPBAnswered,
     Stage, WriteFails, WritesDone, Settle, asked
<1>6. ASSUME NEW w \in Workers, WorkerLost(w) \/ \E j \in Jobs : Claim(w, j)
      PROVE  UNCHANGED <<connection, keyring, compared>>
  BY <1>6 DEF WorkerLost, Claim, asked
<1>7. ASSUME NEW j \in Jobs, LeaseExpires(j) PROVE UNCHANGED <<connection, keyring, compared>>
  BY <1>7 DEF LeaseExpires, asked
<1>8. ASSUME NEW c \in Consoles, Enqueue(c) PROVE UNCHANGED <<connection, keyring, compared>>
  BY <1>8 DEF Enqueue
<1> QED BY <1>1, <1>2, <1>3, <1>4, <1>5, <1>6, <1>7, <1>8 DEF Next

LEMMA LifecycleStart == Init => Lifecycle!Init
<1> SUFFICES ASSUME Init PROVE Lifecycle!Init OBVIOUS
<1>1. \A row \in keyring : row.holder = "subscriber" BY DEF Init, Own
<1>2. Active("bank", "X002") = {} BY <1>1 DEF Active, Rows
<1>3. TrustedPair = NoPair BY <1>2 DEF TrustedPair, HasBankKeys, BANK_VERSIONS
<1> QED BY <1>3 DEF Init, Lifecycle!Init

LEMMA LifecycleStutter ==
    ASSUME UNCHANGED vars PROVE UNCHANGED Lifecycle!vars
BY TrustUnchanged DEF vars, asked, Lifecycle!vars

\* How far a connection is known to be only advances, and the bank's keys come
\* into use only as a pair somebody compared: whatever jobs are asked for, claimed
\* again, refused, or lost halfway through their writes.
THEOREM ImplementsLifecycleHolds ==
    ASSUME LeaseOutlivesJob, SingleConsole PROVE Spec => ImplementsLifecycle
<1>1. Init => Lifecycle!Init BY LifecycleStart
<1>2. TypeInv /\ TypeInv' /\ KeysInv /\ KeysInv' /\ [Next]_vars => [Lifecycle!Next]_(Lifecycle!vars)
  BY LifecycleStep, LifecycleStutter
<1> QED BY <1>1, <1>2, TypeInvHolds, KeysInvHolds, PTL DEF Spec, ImplementsLifecycle, Lifecycle!Spec

=============================================================================
