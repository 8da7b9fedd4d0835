------------------------ MODULE SecretCustody_proofs ------------------------
(***************************************************************************)
(* No seal is stranded, for any rows, workers, handlers and bounds, under  *)
(* an operator who is Careful; and an endpoint verifies what it is sent,   *)
(* under any.  For the first the parts of the invariant are what a run of  *)
(* rekey remembers (RunOK), which secrets may still be written (Known),    *)
(* which public half is the newest (Offered), and what a run that is alone *)
(* has left to do (Quiet); for the second, that what one writer read still *)
(* stands (AsRead) and that no signing secret is issued twice.             *)
(***************************************************************************)
EXTENDS SecretCustody, FiniteSetTheorems, TLAPS

RunPcs == {"idle", "keys", "subscriptions", "reporting"}

\* What is not sealed is not there.
RowOK(row) == row \in Row /\ \A c \in Columns : row[c].under = Nothing => row[c] = Empty

\* A run works with the two secrets that are deployed, on rows that exist.
RunOK(r, secrets) ==
    /\ r = [pc |-> r.pc, from |-> r.from, to |-> r.to, keys |-> r.keys,
            subs |-> r.subs, stranded |-> r.stranded, exit |-> r.exit]
    /\ r.pc \in RunPcs /\ r.exit \in {"none", "complete", "incomplete"}
    /\ r.stranded \in BOOLEAN
    /\ DOMAIN r.keys \subseteq KeyRows
    /\ \A k \in DOMAIN r.keys : r.keys[k] \in Secrets
    /\ DOMAIN r.subs \subseteq Subscriptions
    /\ \A s \in DOMAIN r.subs : RowOK(r.subs[s])
    /\ r.pc # "idle" => /\ r.from = secrets.previous /\ r.to = secrets.current
                        /\ secrets.previous # Nothing
    /\ r.pc \in {"subscriptions", "reporting"} => DOMAIN r.keys = {}
    /\ r.pc = "reporting" => DOMAIN r.subs = {}

\* What a handler is about to write is sealed, and for a row there may be.
HandlerOK(h) ==
    /\ h \in [pc : {"idle", "registering", "rotating", "sealed", "retiring"},
              sub : Subscriptions \cup {Nothing}, recipient : Secrets \cup {Nothing}]
    /\ h.pc # "idle" => h.sub \in Subscriptions
    /\ h.pc \in {"registering", "sealed"} => h.recipient # Nothing

Shape ==
    /\ TypeOK /\ RunOK(run, deployed)
    /\ bounds \in [issued : Nat, runs : Nat, lost : Nat]
    /\ published # <<>>
    /\ \A h \in Handlers : HandlerOK(handler[h])
    /\ \A s \in Subscriptions : RowOK(sub[s])

LEMMA SecretsNat ==
    /\ MaxSecrets \in Nat /\ MaxSecrets > 0 /\ 1 \in Secrets
    /\ \A x \in Secrets : x \in Nat /\ x # Nothing
BY CustodyAssumption DEF Secrets, Nothing

LEMMA SubscriptionsNat ==
    \A s \in Subscriptions : s \in Nat /\ s > 0 /\ s <= Cardinality(Subscriptions)
BY CustodyAssumption, FS_CardinalityType

LEMMA RowFields ==
    ASSUME NEW row, RowOK(row)
    PROVE  /\ row.secret = Seal(row.secret.under, row.secret.holds)
           /\ row.previous = Seal(row.previous.under, row.previous.holds)
           /\ row.secret.under \in Secrets \cup {Nothing} /\ row.secret.holds \in Nat
           /\ row.previous.under \in Secrets \cup {Nothing} /\ row.previous.holds \in Nat
           /\ row.secret.under = Nothing => row.secret = Empty
           /\ row.previous.under = Nothing => row.previous = Empty
BY DEF RowOK, Row, Seal, Columns

LEMMA RowMade ==
    ASSUME NEW a \in Secrets \cup {Nothing}, NEW m \in Nat, a = Nothing => m = Nothing,
           NEW b \in Secrets \cup {Nothing}, NEW n \in Nat, b = Nothing => n = Nothing,
           NEW i \in Secrets \cup {Nothing}
    PROVE  RowOK([secret |-> Seal(a, m), previous |-> Seal(b, n), custody_key_id |-> i])
BY DEF RowOK, Row, Seal, Columns, Empty

LEMMA RecipientType ==
    ASSUME Shape PROVE Recipient \in Secrets
BY DEF Shape, TypeOK, Recipient

LEMMA PublishType ==
    ASSUME Shape, NEW secret \in Secrets, Publish(secret)
    PROVE  published' \in Seq(Secrets) /\ published' # <<>>
<1>1. published \in Seq(Secrets) /\ published # <<>> BY DEF Shape, TypeOK
<1>2. CASE published' = published BY <1>1, <1>2
<1>3. CASE published' = Append(published, secret)
  <2>1. /\ Append(published, secret) \in Seq(Secrets)
        /\ Len(Append(published, secret)) = Len(published) + 1 /\ Len(published) \in Nat
    BY <1>1
  <2> QED BY <1>3, <2>1
<1> QED BY <1>2, <1>3 DEF Publish

LEMMA NoRunOK == ASSUME NEW secrets PROVE RunOK(NoRun, secrets)
<1>1. DOMAIN <<>> = {} OBVIOUS
<1> QED BY <1>1 DEF RunOK, NoRun, RunPcs

LEMMA ShapeInit == Init => Shape
<1> SUFFICES ASSUME Init PROVE Shape OBVIOUS
<1>1. \A s \in Subscriptions : s \in Nat BY SubscriptionsNat
<1>2. \A s \in Subscriptions : RowOK(sub[s])
  <2>1. RowOK(NoRow) BY SecretsNat DEF NoRow, RowOK, Row, Empty, Seal, Columns, Nothing
  <2>2. ASSUME NEW s \in Subscriptions
        PROVE  RowOK([secret |-> Seal(1, s), previous |-> Empty, custody_key_id |-> 1])
    BY <1>1, SecretsNat, RowMade DEF Nothing, Empty
  <2> QED BY <2>1, <2>2 DEF Init
<1>3. /\ sub = [s \in Subscriptions |-> sub[s]] /\ endpoint \in [Subscriptions -> Nat]
  <2>1. PICK there \in SUBSET Subscriptions :
          /\ sub = [s \in Subscriptions |->
               IF s \in there THEN [secret |-> Seal(1, s), previous |-> Empty,
                                     custody_key_id |-> 1]
               ELSE NoRow]
          /\ endpoint = [s \in Subscriptions |-> IF s \in there THEN s ELSE Nothing]
    BY DEF Init
  <2>2. sub = [s \in Subscriptions |-> sub[s]] BY <2>1
  <2>3. endpoint \in [Subscriptions -> Nat] BY <2>1, <1>1 DEF Nothing
  <2> QED BY <2>2, <2>3
<1>4. /\ deployed \in [current : Secrets, previous : Secrets \cup {Nothing}]
      /\ running \in [Workers -> Secrets] /\ published \in Seq(Secrets) /\ published # <<>>
      /\ key \in [KeyRows -> Secrets \cup {Nothing}]
  <2>1. published \in Seq(Secrets) /\ published # <<>>
    <3>1. 1 \in Secrets BY SecretsNat
    <3>2. published = <<1>> BY DEF Init
    <3> QED BY <3>1, <3>2
  <2>2. key \in [KeyRows -> Secrets \cup {Nothing}]
    <3>1. key \in [KeyRows -> {Nothing, 1}] BY DEF Init
    <3> QED BY <3>1, SecretsNat
  <2> QED BY <2>1, <2>2, SecretsNat DEF Init
<1>5. bounds \in [issued : Nat, runs : Nat, lost : Nat]
  BY CustodyAssumption, FS_CardinalityType DEF Init
<1>6. \A h \in Handlers : HandlerOK(handler[h]) BY DEF Init, HandlerOK, Idle
<1>7. handler = [h \in Handlers |-> handler[h]] BY DEF Init
<1>8. RunOK(run, deployed) BY NoRunOK DEF Init
<1>9. contended \subseteq Subscriptions /\ calm \in {"no", "alone", "finished"}
  BY DEF Init
<1>10. sub \in [Subscriptions -> Row] BY <1>2, <1>3 DEF RowOK
<1>11. handler \in [Handlers ->
           [pc : {"idle", "registering", "rotating", "sealed", "retiring"},
            sub : Subscriptions \cup {Nothing}, recipient : Secrets \cup {Nothing}]]
  BY <1>6, <1>7 DEF HandlerOK
<1> QED
  BY <1>2, <1>3, <1>4, <1>5, <1>6, <1>8, <1>9, <1>10, <1>11 DEF Shape, TypeOK, RunOK, RunPcs

LEMMA HandlerNext ==
    ASSUME Shape, Next
    PROVE  /\ handler' \in [Handlers ->
                  [pc : {"idle", "registering", "rotating", "sealed", "retiring"},
                   sub : Subscriptions \cup {Nothing}, recipient : Secrets \cup {Nothing}]]
           /\ \A h \in Handlers : HandlerOK(handler'[h])
<1> DEFINE Goal == /\ handler' \in [Handlers ->
                          [pc : {"idle", "registering", "rotating", "sealed", "retiring"},
                           sub : Subscriptions \cup {Nothing},
                           recipient : Secrets \cup {Nothing}]]
                   /\ \A h \in Handlers : HandlerOK(handler'[h])
<1>t. /\ handler \in [Handlers ->
              [pc : {"idle", "registering", "rotating", "sealed", "retiring"},
               sub : Subscriptions \cup {Nothing}, recipient : Secrets \cup {Nothing}]]
      /\ \A h \in Handlers : HandlerOK(handler[h])
  BY DEF Shape, TypeOK
<1>r. Recipient \in Secrets /\ Recipient # Nothing BY RecipientType, SecretsNat
<1>i. HandlerOK(Idle) BY DEF HandlerOK, Idle
<1>k. ASSUME NEW h \in Handlers, NEW x, HandlerOK(x), handler' = [handler EXCEPT ![h] = x]
      PROVE  Goal
  BY <1>k, <1>t DEF HandlerOK
<1>u. ASSUME UNCHANGED handler PROVE Goal BY <1>t, <1>u
<1>1. ASSUME NEW h \in Handlers, NEW s \in Subscriptions, NEW pc, NEW recipient,
             Begins(h, s, pc, recipient),
             HandlerOK([pc |-> pc, sub |-> s, recipient |-> recipient])
      PROVE  Goal
  BY <1>1, <1>k DEF Begins
<1>2. ASSUME NEW h \in Handlers, Handles(h) PROVE Goal
  <2>1. ASSUME NEW s \in Subscriptions, RegisterReads(h, s) PROVE Goal
    BY <2>1, <1>1, <1>r DEF RegisterReads, HandlerOK
  <2>2. ASSUME NEW s \in Subscriptions, RotateReads(h, s) PROVE Goal
    BY <2>2, <1>1 DEF RotateReads, HandlerOK
  <2>3. ASSUME NEW s \in Subscriptions, RetireReads(h, s) PROVE Goal
    BY <2>3, <1>1 DEF RetireReads, HandlerOK
  <2>4. CASE TakesRecipient(h)
    <3> DEFINE x == [handler[h] EXCEPT !.pc = "sealed", !.recipient = Recipient]
    <3>1. handler' = [handler EXCEPT ![h] = x] BY <2>4, <1>t DEF TakesRecipient
    <3>2. handler[h].sub \in Subscriptions BY <2>4, <1>t DEF TakesRecipient, HandlerOK
    <3>3. HandlerOK(x) BY <3>2, <1>t, <1>r DEF HandlerOK
    <3> HIDE DEF x
    <3> QED BY <3>1, <3>3, <1>k
  <2>5. CASE RegisterInserts(h) \/ RotateWrites(h) \/ RetireWrites(h) \/ HandlerLost(h)
    BY <2>5, <1>k, <1>i DEF RegisterInserts, RotateWrites, Issues, RetireWrites, HandlerLost
  <2> QED BY <1>2, <2>1, <2>2, <2>3, <2>4, <2>5 DEF Handles
<1>3. ASSUME \/ \E w \in Workers : Restart(w) \/ \E k \in KeyRows : StoreKey(w, k)
             \/ \E s \in Subscriptions : Configure(s)
             \/ Rekeys \/ Deploy \/ DropPrevious
      PROVE  Goal
  BY <1>3, <1>u DEF Restart, StoreKey, Configure, Rekeys, RekeyStarts, RekeyKey,
     RekeyReadsSubscriptions, RekeySubscription, RekeyPublishes, RekeyReports, RekeyLost,
     Deploy, DropPrevious
<1> QED BY <1>2, <1>3 DEF Next

LEMMA RunNext ==
    ASSUME Shape, Next PROVE RunOK(run', deployed')
<1>t. /\ RunOK(run, deployed)
      /\ key \in [KeyRows -> Secrets \cup {Nothing}]
      /\ \A s \in Subscriptions : RowOK(sub[s])
  BY DEF Shape, TypeOK
<1>1. ASSUME UNCHANGED run, UNCHANGED deployed PROVE RunOK(run', deployed')
  BY <1>1, <1>t
<1>2. CASE Rekeys
  <2>d. UNCHANGED deployed
    BY <1>2 DEF Rekeys, RekeyStarts, RekeyKey, RekeyReadsSubscriptions, RekeySubscription,
       RekeyPublishes, RekeyReports, RekeyLost
  <2>1. CASE RekeyStarts
    <3>1. DOMAIN NoRun.subs = {} BY DEF NoRun
    <3> QED BY <2>1, <2>d, <1>t, <3>1 DEF RekeyStarts, RunOK, NoRun, RunPcs
  <2>2. CASE RekeyKey
    <3>1. PICK k \in KeyRows :
            run' = [run EXCEPT !.keys = Without(run.keys, k),
                               !.stranded = run.stranded \/ Stranded(run.keys[k])]
      BY <2>2 DEF RekeyKey
    <3>2. run.pc = "keys" BY <2>2 DEF RekeyKey
    <3> QED BY <3>1, <3>2, <2>d, <1>t DEF RunOK, Without, Stranded, RunPcs
  <2>3. CASE RekeyReadsSubscriptions
    <3>1. DOMAIN run.keys = {} /\ run.pc = "keys" BY <2>3 DEF RekeyReadsSubscriptions
    <3>2. run' = [run EXCEPT !.pc = "subscriptions",
                        !.subs = [s \in {r \in Subscriptions : Exists(r)} |-> sub[s]]]
      BY <2>3 DEF RekeyReadsSubscriptions
    <3> QED BY <3>1, <3>2, <2>d, <1>t DEF RunOK, RunPcs
  <2>4. CASE RekeySubscription
    <3>1. PICK s \in Subscriptions, b \in BOOLEAN :
            run' = [run EXCEPT !.subs = Without(run.subs, s), !.stranded = b]
      <4>1. PICK s \in Subscriptions :
              run' = [run EXCEPT !.subs = Without(run.subs, s),
                        !.stranded = run.stranded \/
                            \E c \in Columns : run.subs[s][c] # Empty
                                                 /\ Stranded(run.subs[s][c].under)]
        BY <2>4 DEF RekeySubscription
      <4>2. (run.stranded \/ \E c \in Columns : run.subs[s][c] # Empty
                                                 /\ Stranded(run.subs[s][c].under)) \in BOOLEAN
        BY <1>t DEF RunOK
      <4> QED BY <4>1, <4>2
    <3>2. run.pc = "subscriptions" BY <2>4 DEF RekeySubscription
    <3> QED BY <3>1, <3>2, <2>d, <1>t DEF RunOK, Without, RunPcs
  <2>5. CASE RekeyPublishes
    BY <2>5, <2>d, <1>t DEF RekeyPublishes, RunOK, RunPcs
  <2>6. CASE RekeyReports
    <3>1. DOMAIN <<>> = {} OBVIOUS
    <3> QED BY <2>6, <2>d, <3>1 DEF RekeyReports, RunOK, NoRun, RunPcs
  <2>7. CASE RekeyLost
    BY <2>7, NoRunOK DEF RekeyLost
  <2> QED BY <1>2, <2>1, <2>2, <2>3, <2>4, <2>5, <2>6, <2>7 DEF Rekeys
<1>3. CASE Deploy
  BY <1>3, NoRunOK DEF Deploy
<1>4. CASE DropPrevious
  BY <1>4, <1>t DEF DropPrevious, RunOK
<1>5. ASSUME \/ \E w \in Workers : Restart(w) \/ \E k \in KeyRows : StoreKey(w, k)
             \/ \E h \in Handlers : Handles(h)
             \/ \E s \in Subscriptions : Configure(s)
      PROVE  UNCHANGED <<run, deployed>>
  BY <1>5 DEF Restart, StoreKey, Handles, Configure, TakesRecipient, RegisterInserts,
     RotateWrites, Issues, RetireWrites, HandlerLost, RegisterReads, RotateReads, RetireReads,
     Begins
<1> QED BY <1>1, <1>2, <1>3, <1>4, <1>5 DEF Next

\* The secrets a process may have, and what is under them.
LEMMA SecretsNext ==
    ASSUME Shape, Next
    PROVE  /\ deployed' \in [current : Secrets, previous : Secrets \cup {Nothing}]
           /\ running' \in [Workers -> Secrets]
           /\ published' \in Seq(Secrets) /\ published' # <<>>
           /\ key' \in [KeyRows -> Secrets \cup {Nothing}]
<1>t. /\ deployed \in [current : Secrets, previous : Secrets \cup {Nothing}]
      /\ running \in [Workers -> Secrets]
      /\ published \in Seq(Secrets) /\ published # <<>>
      /\ key \in [KeyRows -> Secrets \cup {Nothing}]
      /\ RunOK(run, deployed)
  BY DEF Shape, TypeOK
<1>r. run.pc # "idle" => run.to \in Secrets BY <1>t DEF RunOK
<1>1. CASE \E w \in Workers : Restart(w) \/ \E k \in KeyRows : StoreKey(w, k)
  BY <1>1, <1>t, PublishType DEF Restart, StoreKey
<1>2. CASE Rekeys
  <2>1. CASE RekeyKey
    BY <2>1, <1>t, <1>r DEF RekeyKey
  <2>2. CASE RekeyPublishes
    BY <2>2, <1>t, <1>r, PublishType DEF RekeyPublishes
  <2> QED
    BY <1>2, <2>1, <2>2, <1>t DEF Rekeys, RekeyStarts, RekeyReadsSubscriptions,
       RekeySubscription, RekeyReports, RekeyLost
<1>3. CASE Deploy \/ DropPrevious
  BY <1>3, <1>t, SecretsNat DEF Deploy, DropPrevious, Secrets
<1>4. CASE \/ \E h \in Handlers : Handles(h)
           \/ \E s \in Subscriptions : Configure(s)
  BY <1>4, <1>t DEF Handles, Configure, TakesRecipient, RegisterInserts, RotateWrites,
     Issues, RetireWrites, HandlerLost, RegisterReads, RotateReads, RetireReads, Begins
<1> QED BY <1>1, <1>2, <1>3, <1>4 DEF Next

\* One row is written, by a handler or by the run.
LEMMA RowsNext ==
    ASSUME Shape, Next
    PROVE  /\ sub' \in [Subscriptions -> Row]
           /\ \A s \in Subscriptions : RowOK(sub'[s])
<1> DEFINE Goal == /\ sub' \in [Subscriptions -> Row]
                   /\ \A s \in Subscriptions : RowOK(sub'[s])
<1>t. /\ sub \in [Subscriptions -> Row] /\ \A s \in Subscriptions : RowOK(sub[s])
      /\ \A h \in Handlers : HandlerOK(handler[h])
      /\ bounds.issued \in Nat /\ RunOK(run, deployed)
      /\ deployed.current \in Secrets
  BY DEF Shape, TypeOK
<1>f. Fresh \in Nat BY <1>t DEF Fresh
<1>k. ASSUME NEW s \in Subscriptions, NEW row, RowOK(row), sub' = [sub EXCEPT ![s] = row]
      PROVE  Goal
  BY <1>k, <1>t DEF RowOK
<1>u. ASSUME UNCHANGED sub PROVE Goal BY <1>t, <1>u
<1>1. ASSUME NEW h \in Handlers, RegisterInserts(h) PROVE Goal
  <2> DEFINE a == handler[h].recipient
             row == [secret |-> Seal(a, Fresh), previous |-> Seal(Nothing, Nothing),
                     custody_key_id |-> a]
  <2>1. /\ handler[h].sub \in Subscriptions /\ a \in Secrets \cup {Nothing} /\ a # Nothing
    BY <1>1, <1>t DEF RegisterInserts, HandlerOK
  <2>2. RowOK(row) BY <2>1, <1>f, RowMade DEF Nothing
  <2>3. sub' = [sub EXCEPT ![handler[h].sub] = row]
    BY <1>1 DEF RegisterInserts, Issues, Empty
  <2> HIDE DEF row
  <2> QED BY <2>1, <2>2, <2>3, <1>k
<1>2. ASSUME NEW h \in Handlers, RotateWrites(h) PROVE Goal
  <2> DEFINE a == handler[h].recipient
             now == sub[handler[h].sub]
             row == [secret |-> Seal(a, Fresh),
                     previous |-> Seal(now.secret.under, now.secret.holds),
                     custody_key_id |-> a]
  <2>1. /\ handler[h].sub \in Subscriptions /\ a \in Secrets \cup {Nothing} /\ a # Nothing
    BY <1>2, <1>t DEF RotateWrites, HandlerOK
  <2>2. /\ now.secret = Seal(now.secret.under, now.secret.holds)
        /\ now.secret.under \in Secrets \cup {Nothing} /\ now.secret.holds \in Nat
        /\ now.secret.under = Nothing => now.secret.holds = Nothing
    <3>1. RowOK(now) BY <2>1, <1>t
    <3> HIDE DEF now
    <3>2. Empty.holds = Nothing BY DEF Empty, Seal
    <3> QED BY <3>1, <3>2, RowFields
  <2>3. RowOK(row) BY <2>1, <2>2, <1>f, RowMade
  <2>4. sub' = [sub EXCEPT ![handler[h].sub] = row]
    BY <1>2, <2>2 DEF RotateWrites, Issues
  <2> HIDE DEF row
  <2> QED BY <2>1, <2>3, <2>4, <1>k
<1>3. ASSUME NEW h \in Handlers, RetireWrites(h) PROVE Goal
  <2> DEFINE now == sub[handler[h].sub]
             row == [now EXCEPT !.previous = Empty]
  <2>1. handler[h].sub \in Subscriptions
    BY <1>3, <1>t DEF RetireWrites, HandlerOK
  <2>2. RowOK(row)
    BY <2>1, <1>t DEF RowOK, Row, Columns, Empty, Seal, Nothing
  <2>3. sub' = [sub EXCEPT ![handler[h].sub] = row]
    BY <1>3, <2>1, <1>t DEF RetireWrites
  <2> HIDE DEF row
  <2> QED BY <2>1, <2>2, <2>3, <1>k
<1>4. CASE RekeySubscription
  <2>1. PICK s \in Subscriptions :
          /\ s \in DOMAIN run.subs
          /\ sub' = [sub EXCEPT ![s] = Resealed(sub[s], run.subs[s], run.to,
                                                Moves(run.subs[s], run.from))]
    BY <1>4 DEF RekeySubscription, First
  <2>2. run.to \in Secrets /\ run.to # Nothing
    BY <1>4, <1>t, SecretsNat DEF RekeySubscription, RunOK
  <2>3. RowOK(run.subs[s]) /\ RowOK(sub[s]) BY <2>1, <1>t DEF RunOK
  <2>4. ASSUME NEW columns
        PROVE  RowOK(Resealed(sub[s], run.subs[s], run.to, columns))
    BY <2>2, <2>3 DEF Resealed, RowOK, Row, Columns, Seal, Empty
  <2> QED BY <2>1, <2>4, <1>k
<1>5. CASE \/ \E w \in Workers : Restart(w) \/ \E k \in KeyRows : StoreKey(w, k)
           \/ \E s \in Subscriptions : Configure(s)
           \/ Deploy \/ DropPrevious
           \/ Rekeys /\ ~RekeySubscription
  BY <1>5, <1>u DEF Restart, StoreKey, Configure, Rekeys, RekeyStarts, RekeyKey,
     RekeyReadsSubscriptions, RekeyPublishes, RekeyReports, RekeyLost, Deploy, DropPrevious
<1>6. ASSUME NEW h \in Handlers, Handles(h),
             ~RegisterInserts(h), ~RotateWrites(h), ~RetireWrites(h)
      PROVE  Goal
  BY <1>6, <1>u DEF Handles, TakesRecipient, HandlerLost, RegisterReads, RotateReads,
     RetireReads, Begins
<1> QED BY <1>1, <1>2, <1>3, <1>4, <1>5, <1>6 DEF Next

LEMMA ShapeNext == Shape /\ Next => Shape'
<1> SUFFICES ASSUME Shape, Next PROVE Shape' OBVIOUS
<1>1. /\ bounds' \in [issued : Nat, runs : Nat, lost : Nat]
      /\ endpoint' \in [Subscriptions -> Nat]
  <2>t. /\ bounds \in [issued : Nat, runs : Nat, lost : Nat]
        /\ endpoint \in [Subscriptions -> Nat]
        /\ \A s \in Subscriptions : RowOK(sub[s])
    BY DEF Shape, TypeOK
  <2>1. ASSUME NEW what \in {"issued", "runs", "lost"}, Spends(what)
        PROVE  bounds' \in [issued : Nat, runs : Nat, lost : Nat]
    BY <2>1, <2>t DEF Spends
  <2>2. CASE \E h \in Handlers : Handles(h)
    BY <2>2, <2>1, <2>t DEF Handles, TakesRecipient, RegisterInserts, RotateWrites, Issues,
       RetireWrites, HandlerLost, RegisterReads, RotateReads, RetireReads, Begins
  <2>3. CASE \E s \in Subscriptions : Configure(s)
    BY <2>3, <2>t, RowFields DEF Configure
  <2>4. CASE Rekeys
    BY <2>4, <2>1, <2>t DEF Rekeys, RekeyStarts, RekeyKey, RekeyReadsSubscriptions,
       RekeySubscription, RekeyPublishes, RekeyReports, RekeyLost
  <2>5. CASE \/ \E w \in Workers : Restart(w) \/ \E k \in KeyRows : StoreKey(w, k)
             \/ Deploy \/ DropPrevious
    BY <2>5, <2>t DEF Restart, StoreKey, Deploy, DropPrevious
  <2> QED BY <2>2, <2>3, <2>4, <2>5 DEF Next
<1>2. contended' \subseteq Subscriptions /\ calm' \in {"no", "alone", "finished"}
  BY DEF Shape, TypeOK, Next, Observe
<1>3. RunOK(run', deployed') BY RunNext
<1> QED
  BY <1>1, <1>2, <1>3, HandlerNext, SecretsNext, RowsNext DEF Shape, TypeOK, RunOK, RunPcs

LEMMA ShapeHolds == Spec => []Shape
<1>1. Shape /\ UNCHANGED vars => Shape'
  BY DEF Shape, TypeOK, vars, RunOK
<1> QED BY <1>1, ShapeInit, ShapeNext, PTL DEF Spec

-----------------------------------------------------------------------------
(* The secrets that are deployed.                                           *)

Known == {deployed.current, deployed.previous, Nothing}

\* Nothing is sealed under another secret, or is about to be.
Deployed ==
    /\ \A w \in Workers : running[w] \in Known
    /\ \A h \in Handlers : handler[h].recipient \in Known
    /\ \A k \in KeyRows : key[k] \in Known
    /\ \A s \in Subscriptions, c \in Columns : sub[s][c].under \in Known

\* The newest public half is that of a secret that is deployed, and of the
\* current one as soon as that was published at all.
Offered ==
    /\ Recipient \in Known
    /\ \A n \in DOMAIN published :
        /\ published[n] <= deployed.current
        /\ published[n] = deployed.current => Recipient = deployed.current
    /\ run.pc = "reporting" => Recipient = deployed.current
    /\ run.pc = "idle" /\ run.exit = "complete" => Recipient = deployed.current

LEMMA PublishEffect ==
    ASSUME Shape, Offered, Publish(deployed.current), UNCHANGED deployed
    PROVE  /\ Recipient' = deployed.current
           /\ \A n \in DOMAIN published' : published'[n] <= deployed.current
<1>t. published \in Seq(Secrets) /\ deployed.current \in Secrets BY DEF Shape, TypeOK
<1>1. CASE \E n \in DOMAIN published : published[n] = deployed.current
  BY <1>1 DEF Publish, Offered, Recipient
<1>2. CASE ~ \E n \in DOMAIN published : published[n] = deployed.current
  <2>1. published' = Append(published, deployed.current) BY <1>2 DEF Publish
  <2>2. Len(published') = Len(published) + 1 /\ published'[Len(published) + 1] = deployed.current
    BY <2>1, <1>t
  <2>3. \A n \in 1..Len(published) : published'[n] = published[n] BY <2>1, <1>t
  <2>4. deployed.current \in Nat BY <1>t, SecretsNat
  <2> QED BY <2>2, <2>3, <2>1, <2>4, <1>t DEF Recipient, Offered
<1> QED BY <1>1, <1>2

LEMMA OfferedNext ==
    ASSUME Careful, Shape, Offered, Next PROVE Offered'
<1>t. /\ published \in Seq(Secrets) /\ RunOK(run, deployed)
      /\ deployed \in [current : Secrets, previous : Secrets \cup {Nothing}]
      /\ Recipient \in Secrets
  BY RecipientType DEF Shape, TypeOK
<1>1. ASSUME Publish(deployed.current), UNCHANGED deployed PROVE Offered'
  BY <1>1, PublishEffect DEF Offered, Known
<1>2. ASSUME UNCHANGED <<published, deployed, run>> PROVE Offered'
  BY <1>2 DEF Offered, Known, Recipient
<1>3. CASE Rekeys
  <2>1. CASE RekeyPublishes
    BY <2>1, <1>1, <1>t DEF RekeyPublishes, RunOK
  <2>2. CASE RekeyReports
    <3>1. run.pc = "reporting" /\ UNCHANGED <<published, deployed>> /\ run'.pc = "idle"
      BY <2>2 DEF RekeyReports, NoRun
    <3> QED BY <3>1 DEF Offered, Known, Recipient
  <2>3. CASE Rekeys /\ ~RekeyPublishes /\ ~RekeyReports
    <3>1. UNCHANGED <<published, deployed>>
      BY <2>3 DEF Rekeys, RekeyStarts, RekeyKey, RekeyReadsSubscriptions, RekeySubscription,
         RekeyLost
    <3>2. \/ run'.pc = "idle" /\ run'.exit = "none"
          \/ run'.pc \in {"keys", "subscriptions"}
      <4>1. CASE RekeyStarts
        BY <4>1, RunNext DEF RekeyStarts, NoRun, RunOK
      <4>5. CASE RekeyLost
        BY <4>5 DEF RekeyLost, NoRun
      <4>2. CASE RekeyKey
        BY <4>2, <1>t DEF RekeyKey, RunOK
      <4>3. CASE RekeyReadsSubscriptions
        BY <4>3, <1>t DEF RekeyReadsSubscriptions, RunOK
      <4>4. CASE RekeySubscription
        BY <4>4, <1>t DEF RekeySubscription, RunOK
      <4> QED BY <2>3, <4>1, <4>2, <4>3, <4>4, <4>5 DEF Rekeys
    <3> QED BY <3>1, <3>2 DEF Offered, Known, Recipient
  <2> QED BY <1>3, <2>1, <2>2, <2>3
<1>4. ASSUME NEW w \in Workers, Restart(w) PROVE Offered'
  BY <1>4, <1>1 DEF Restart
<1>5. CASE Deploy
  <2>1. /\ deployed' = [current |-> deployed.current + 1, previous |-> deployed.current]
        /\ deployed.previous = Nothing /\ UNCHANGED published
        /\ run'.pc = "idle" /\ run'.exit = "none"
    BY <1>5 DEF Deploy, NoRun
  <2>2. Recipient = deployed.current BY <2>1, <1>t, SecretsNat DEF Offered, Known
  <2>3. \A n \in DOMAIN published : published[n] \in Nat BY <1>t, SecretsNat
  <2>4. deployed.current \in Nat BY <1>t, SecretsNat
  <2> QED BY <2>1, <2>2, <2>3, <2>4 DEF Offered, Known, Recipient
<1>6. CASE DropPrevious
  <2>1. /\ deployed' = [deployed EXCEPT !.previous = Nothing]
        /\ UNCHANGED <<published, run>> /\ run.pc = "idle" /\ run.exit = "complete"
    BY <1>6 DEF DropPrevious
  <2>2. deployed'.current = deployed.current BY <2>1, <1>t
  <2> QED BY <2>1, <2>2 DEF Offered, Known, Recipient
<1>7. CASE \/ \E w \in Workers, k \in KeyRows : StoreKey(w, k)
           \/ \E h \in Handlers : Handles(h)
           \/ \E s \in Subscriptions : Configure(s)
  BY <1>7, <1>2 DEF StoreKey, Handles, Configure, TakesRecipient, RegisterInserts,
     RotateWrites, Issues, RetireWrites, HandlerLost, RegisterReads, RotateReads,
     RetireReads, Begins
<1> QED BY <1>3, <1>4, <1>5, <1>6, <1>7 DEF Next

LEMMA DeployedNext ==
    ASSUME Careful, Shape, Deployed, Offered, Next PROVE Deployed'
<1>t. /\ RunOK(run, deployed) /\ running \in [Workers -> Secrets]
      /\ deployed \in [current : Secrets, previous : Secrets \cup {Nothing}]
      /\ key \in [KeyRows -> Secrets \cup {Nothing}] /\ sub \in [Subscriptions -> Row]
      /\ \A s \in Subscriptions : RowOK(sub[s])
      /\ handler \in [Handlers ->
              [pc : {"idle", "registering", "rotating", "sealed", "retiring"},
               sub : Subscriptions \cup {Nothing}, recipient : Secrets \cup {Nothing}]]
      /\ \A h \in Handlers : HandlerOK(handler[h])
  BY DEF Shape, TypeOK
<1>o. /\ Recipient \in Known /\ Nothing \in Known /\ deployed.current \in Known
  BY DEF Offered, Known
<1>c. run.pc # "idle" => run.to \in Known BY <1>t, <1>o DEF RunOK
<1>d. Empty.under = Nothing BY DEF Empty, Seal
<1>1. CASE Deploy
  <2>1. Known \subseteq Known'
    BY <1>1, <1>t DEF Deploy, Known
  <2>2. UNCHANGED <<running, handler, key, sub>> BY <1>1 DEF Deploy
  <2> QED BY <2>1, <2>2 DEF Deployed
<1>2. CASE DropPrevious
  <2>1. UNCHANGED <<running, handler, key, sub>> /\ Known' = {deployed.current, Nothing}
    BY <1>2, <1>t DEF DropPrevious, Known
  <2>2. \A w \in Workers : running[w] \in Known' BY <2>1, <1>2 DEF DropPrevious
  <2>3. \A h \in Handlers : handler[h].recipient \in Known' BY <2>1, <1>2 DEF DropPrevious
  <2>4. \A x \in Sealed : x \in Known' BY <2>1, <1>2 DEF DropPrevious, Survey
  <2>5. /\ \A k \in KeyRows : key[k] \in Sealed
        /\ \A s \in Subscriptions, c \in Columns : sub[s][c].under \in Sealed
    BY DEF Sealed
  <2> QED BY <2>1, <2>2, <2>3, <2>4, <2>5 DEF Deployed
<1>3. ASSUME Next, ~Deploy, ~DropPrevious PROVE Deployed'
  <2>d. UNCHANGED deployed /\ Known' = Known
    BY <1>3 DEF Next, Restart, StoreKey, Handles, Configure, TakesRecipient, RegisterInserts,
       RotateWrites, Issues, RetireWrites, HandlerLost, RegisterReads, RotateReads,
       RetireReads, Begins, Rekeys, RekeyStarts, RekeyKey, RekeyReadsSubscriptions,
       RekeySubscription, RekeyPublishes, RekeyReports, RekeyLost, Known
  <2>1. \A w \in Workers : running'[w] \in Known
    <3>1. ASSUME NEW v \in Workers, Restart(v) PROVE \A w \in Workers : running'[w] \in Known
      BY <3>1, <1>t, <1>o DEF Restart, Deployed
    <3>2. CASE \A v \in Workers : ~Restart(v)
      <4>1. UNCHANGED running
        BY <1>3, <3>2 DEF Next, StoreKey, Handles, Configure, TakesRecipient,
           RegisterInserts, RotateWrites, Issues, RetireWrites, HandlerLost, RegisterReads,
           RotateReads, RetireReads, Begins, Rekeys, RekeyStarts, RekeyKey,
           RekeyReadsSubscriptions, RekeySubscription, RekeyPublishes, RekeyReports, RekeyLost
      <4> QED BY <4>1 DEF Deployed
    <3> QED BY <3>1, <3>2
  <2>2. \A k \in KeyRows : key'[k] \in Known
    <3>1. ASSUME NEW w \in Workers, NEW j \in KeyRows, StoreKey(w, j)
          PROVE  \A k \in KeyRows : key'[k] \in Known
      BY <3>1, <1>t DEF StoreKey, Deployed
    <3>2. CASE RekeyKey
      BY <3>2, <1>t, <1>c DEF RekeyKey, Deployed
    <3>3. CASE ~RekeyKey /\ \A w \in Workers, j \in KeyRows : ~StoreKey(w, j)
      <4>1. UNCHANGED key
        BY <1>3, <3>3 DEF Next, Restart, Handles, Configure, TakesRecipient,
           RegisterInserts, RotateWrites, Issues, RetireWrites, HandlerLost, RegisterReads,
           RotateReads, RetireReads, Begins, Rekeys, RekeyStarts,
           RekeyReadsSubscriptions, RekeySubscription, RekeyPublishes, RekeyReports, RekeyLost
      <4> QED BY <4>1 DEF Deployed
    <3> QED BY <3>1, <3>2, <3>3
  <2>3. \A h \in Handlers : handler'[h].recipient \in Known
    <3> DEFINE Goal == \A h \in Handlers : handler'[h].recipient \in Known
    <3>k. ASSUME NEW h \in Handlers, NEW x, x.recipient \in Known,
                 handler' = [handler EXCEPT ![h] = x]
          PROVE  Goal
      BY <3>k, <1>t DEF Deployed
    <3>1. ASSUME NEW h \in Handlers, NEW s \in Subscriptions,
                 RegisterReads(h, s) \/ RotateReads(h, s) \/ RetireReads(h, s)
          PROVE  Goal
      BY <3>1, <3>k, <1>o DEF RegisterReads, RotateReads, RetireReads, Begins
    <3>2. ASSUME NEW h \in Handlers, TakesRecipient(h) PROVE Goal
      BY <3>2, <1>t, <1>o DEF TakesRecipient, Deployed
    <3>3. ASSUME NEW h \in Handlers,
                 RegisterInserts(h) \/ RotateWrites(h) \/ RetireWrites(h) \/ HandlerLost(h)
          PROVE  Goal
      BY <3>3, <3>k, <1>o DEF RegisterInserts, RotateWrites, Issues, RetireWrites,
         HandlerLost, Idle
    <3>4. CASE \A h \in Handlers : ~Handles(h)
      <4>1. UNCHANGED handler
        BY <1>3, <3>4 DEF Next, Restart, StoreKey, Configure, Rekeys, RekeyStarts, RekeyKey,
           RekeyReadsSubscriptions, RekeySubscription, RekeyPublishes, RekeyReports, RekeyLost
      <4> QED BY <4>1 DEF Deployed
    <3> QED BY <3>1, <3>2, <3>3, <3>4 DEF Handles
  <2>4. \A s \in Subscriptions, c \in Columns : sub'[s][c].under \in Known
    <3> DEFINE Goal == \A s \in Subscriptions, c \in Columns : sub'[s][c].under \in Known
    <3>k. ASSUME NEW s \in Subscriptions, NEW row,
                 row.secret.under \in Known, row.previous.under \in Known,
                 sub' = [sub EXCEPT ![s] = row]
          PROVE  Goal
      BY <3>k, <1>t DEF Deployed, Columns
    <3>n. \A s \in Subscriptions : sub[s].secret.under \in Known /\ sub[s].previous.under \in Known
      BY DEF Deployed, Columns
    <3>1. ASSUME NEW h \in Handlers, RegisterInserts(h) \/ RotateWrites(h) PROVE Goal
      <4>1. handler[h].sub \in Subscriptions
        BY <3>1, <1>t DEF RegisterInserts, RotateWrites, HandlerOK
      <4>2. PICK row : /\ row.secret.under \in Known /\ row.previous.under \in Known
                       /\ sub' = [sub EXCEPT ![handler[h].sub] = row]
        BY <3>1, <4>1, <3>n, <1>d, <1>o DEF RegisterInserts, RotateWrites, Issues, Seal, Deployed
      <4> QED BY <4>1, <4>2, <3>k
    <3>2. ASSUME NEW h \in Handlers, RetireWrites(h) PROVE Goal
      <4>1. handler[h].sub \in Subscriptions
        BY <3>2, <1>t DEF RetireWrites, HandlerOK
      <4> QED BY <3>2, <4>1, <3>n, <1>d, <1>o, <1>t DEF RetireWrites, Columns, Row
    <3>3. CASE RekeySubscription
      <4>1. PICK s, columns :
              /\ s \in Subscriptions /\ s \in DOMAIN run.subs
              /\ sub' = [sub EXCEPT ![s] = Resealed(sub[s], run.subs[s], run.to, columns)]
        BY <3>3 DEF RekeySubscription, First
      <4>2. run.to \in Known BY <3>3, <1>c DEF RekeySubscription
      <4>3. /\ Resealed(sub[s], run.subs[s], run.to, columns).secret.under \in Known
            /\ Resealed(sub[s], run.subs[s], run.to, columns).previous.under \in Known
        <5>1. s \in Subscriptions BY <4>1
        <5> QED BY <5>1, <4>2, <3>n DEF Resealed, Seal
      <4> QED BY <4>1, <4>3, <3>k
    <3>4. CASE /\ ~RekeySubscription
               /\ \A h \in Handlers : ~RegisterInserts(h) /\ ~RotateWrites(h) /\ ~RetireWrites(h)
      <4>1. UNCHANGED sub
        BY <1>3, <3>4 DEF Next, Restart, StoreKey, Handles, Configure, TakesRecipient,
           HandlerLost, RegisterReads, RotateReads, RetireReads, Begins, Rekeys, RekeyStarts,
           RekeyKey, RekeyReadsSubscriptions, RekeyPublishes, RekeyReports, RekeyLost
      <4> QED BY <4>1 DEF Deployed
    <3> QED BY <3>1, <3>2, <3>3, <3>4
  <2> QED BY <2>d, <2>1, <2>2, <2>3, <2>4 DEF Deployed
<1> QED BY <1>1, <1>2, <1>3

-----------------------------------------------------------------------------
(* A run that is alone.                                                     *)

\* What it has not come to is as it was read, and the rest is done.
KeysLeft ==
    \A k \in KeyRows :
        IF k \in DOMAIN run.keys THEN run.keys[k] = key[k]
        ELSE key[k] \in {Nothing, deployed.current}
RowsLeft ==
    run.pc \in {"subscriptions", "reporting"} => \A s \in Subscriptions :
        IF s \in DOMAIN run.subs THEN run.subs[s] = sub[s]
        ELSE \A c \in Columns : sub[s][c].under \in {Nothing, deployed.current}

Undisturbed == run.pc # "idle" /\ ~run.stranded /\ Alone /\ KeysLeft /\ RowsLeft
Done == run.pc = "idle" /\ run.exit = "complete" /\ Survey \subseteq {deployed.current}

Quiet == (calm = "alone" => Undisturbed) /\ (calm = "finished" => Done)

\* The steps of the run itself.
LEMMA RunUndisturbed ==
    ASSUME Shape, Deployed, Undisturbed, Rekeys, Alone'
    PROVE  \/ Undisturbed'
           \/ Done'
           \/ run'.pc = "idle" /\ run'.exit = "none"
<1>t. /\ RunOK(run, deployed)
      /\ deployed \in [current : Secrets, previous : Secrets \cup {Nothing}]
      /\ key \in [KeyRows -> Secrets \cup {Nothing}] /\ sub \in [Subscriptions -> Row]
      /\ \A s \in Subscriptions : RowOK(sub[s])
  BY DEF Shape, TypeOK
<1>n. \A x \in Secrets : x # Nothing BY SecretsNat
<1>d. UNCHANGED deployed
  BY DEF Rekeys, RekeyStarts, RekeyKey, RekeyReadsSubscriptions, RekeySubscription,
     RekeyPublishes, RekeyReports, RekeyLost
<1>r. run.pc # "idle" /\ run.from = deployed.previous /\ run.to = deployed.current
  BY <1>t DEF Undisturbed, RunOK
<1>1. CASE RekeyKey
  <2>1. PICK k \in KeyRows :
          /\ k \in DOMAIN run.keys
          /\ key' = IF run.keys[k] = run.from THEN [key EXCEPT ![k] = run.to] ELSE key
          /\ run' = [run EXCEPT !.keys = Without(run.keys, k),
                                !.stranded = run.stranded \/ Stranded(run.keys[k])]
    BY <1>1 DEF RekeyKey, First
  <2>2. key[k] = run.keys[k] /\ key[k] \in {run.from, run.to}
    BY <2>1, <1>t, <1>r, <1>n DEF Undisturbed, KeysLeft, Deployed, Known, RunOK
  <2>3. run'.pc = "keys" /\ run'.keys = Without(run.keys, k) /\ ~run'.stranded
    BY <2>1, <2>2, <1>1, <1>t DEF RekeyKey, RunOK, Stranded, Undisturbed
  <2>4. KeysLeft'
    <3>1. DOMAIN run'.keys = DOMAIN run.keys \ {k}
          /\ \A j \in DOMAIN run.keys \ {k} : run'.keys[j] = run.keys[j]
      BY <2>3 DEF Without
    <3>2. key'[k] = deployed.current /\ \A j \in KeyRows \ {k} : key'[j] = key[j]
      BY <2>1, <2>2, <1>r, <1>t
    <3> QED BY <3>1, <3>2, <1>d DEF Undisturbed, KeysLeft
  <2> QED BY <2>3, <2>4 DEF Undisturbed, RowsLeft
<1>2. CASE RekeyReadsSubscriptions
  <2>1. /\ run'.pc = "subscriptions" /\ run'.keys = run.keys /\ run'.stranded = run.stranded
        /\ run'.subs = [s \in {r \in Subscriptions : Exists(r)} |-> sub[s]]
        /\ UNCHANGED <<key, sub>>
    BY <1>2, <1>t DEF RekeyReadsSubscriptions, RunOK
  <2>2. \A c \in Columns : NoRow[c].under = Nothing
    BY DEF NoRow, Columns, Empty, Seal
  <2>3. RowsLeft' BY <2>1, <2>2 DEF RowsLeft, Exists
  <2> QED BY <2>1, <2>3, <1>d DEF Undisturbed, KeysLeft
<1>3. CASE RekeySubscription
  <2>1. PICK s \in Subscriptions :
          /\ s \in DOMAIN run.subs
          /\ sub' = [sub EXCEPT ![s] = Resealed(sub[s], run.subs[s], run.to,
                                                Moves(run.subs[s], run.from))]
          /\ run' = [run EXCEPT
                 !.subs = Without(run.subs, s),
                 !.stranded = run.stranded \/
                     \E c \in Columns : run.subs[s][c] # Empty /\ Stranded(run.subs[s][c].under)]
    BY <1>3 DEF RekeySubscription, First
  <2>2. run.pc = "subscriptions" /\ UNCHANGED key BY <1>3 DEF RekeySubscription
  <2>3. run.subs[s] = sub[s] BY <2>1, <2>2 DEF Undisturbed, RowsLeft
  <2>4. \A c \in Columns : sub[s][c].under \in {run.from, run.to, Nothing}
    BY <1>r DEF Deployed, Known
  <2>5. ~ \E c \in Columns : run.subs[s][c] # Empty /\ Stranded(run.subs[s][c].under)
    BY <2>3, <2>4, <1>t DEF RowOK, Stranded
  <2>6. /\ run'.pc = "subscriptions" /\ run'.subs = Without(run.subs, s) /\ ~run'.stranded
        /\ run'.keys = run.keys
    BY <2>1, <2>2, <2>5, <1>t DEF RunOK, Undisturbed
  <2>7. \A c \in Columns : sub'[s][c].under \in {Nothing, deployed.current}
    <3>1. sub'[s] = Resealed(sub[s], sub[s], run.to, Moves(sub[s], run.from))
      BY <2>1, <2>3, <1>t
    <3>2. CASE Moves(sub[s], run.from) = {}
      BY <3>1, <3>2, <2>4, <1>r DEF Moves, Resealed
    <3>3. CASE Moves(sub[s], run.from) # {}
      BY <3>1, <3>3, <2>4, <1>r DEF Moves, Resealed, Columns, Seal
    <3> QED BY <3>2, <3>3
  <2>8. RowsLeft'
    <3>1. DOMAIN run'.subs = DOMAIN run.subs \ {s}
          /\ \A q \in DOMAIN run.subs \ {s} : run'.subs[q] = run.subs[q]
      BY <2>6 DEF Without
    <3>2. \A q \in Subscriptions \ {s} : sub'[q] = sub[q]
      BY <2>1, <1>t
    <3> QED BY <3>1, <3>2, <2>2, <2>7, <1>d DEF Undisturbed, RowsLeft
  <2> QED BY <2>2, <2>6, <2>8, <1>d DEF Undisturbed, KeysLeft
<1>4. CASE RekeyPublishes
  <2>1. /\ run'.pc = "reporting" /\ run'.keys = run.keys /\ run'.subs = run.subs
        /\ run'.stranded = run.stranded /\ UNCHANGED <<key, sub>>
        /\ run.pc = "subscriptions"
    BY <1>4, <1>t DEF RekeyPublishes, RunOK
  <2> QED BY <2>1, <1>d DEF Undisturbed, KeysLeft, RowsLeft
<1>5. CASE RekeyReports
  <2>1. /\ run.pc = "reporting" /\ UNCHANGED <<key, sub>>
        /\ run'.pc = "idle" /\ run'.exit = "complete"
    BY <1>5 DEF RekeyReports, Undisturbed, NoRun
  <2>2. DOMAIN run.keys = {} /\ DOMAIN run.subs = {} BY <2>1, <1>t DEF RunOK
  <2>3. Survey' \subseteq {deployed.current}
    BY <2>1, <2>2 DEF Survey, Sealed, Undisturbed, KeysLeft, RowsLeft
  <2> QED BY <2>1, <2>3, <1>d DEF Done
<1>6. CASE RekeyLost
  BY <1>6 DEF RekeyLost, NoRun
<1> QED BY <1>1, <1>2, <1>3, <1>4, <1>5, <1>6, <1>r DEF Rekeys, RekeyStarts

LEMMA RunBegins ==
    ASSUME Shape, Deployed, Next, run.pc = "idle", run'.pc # "idle", Alone
    PROVE  Undisturbed'
<1>1. RekeyStarts
  <2>1. CASE Deploy BY <2>1 DEF Deploy, NoRun
  <2>2. ASSUME ~Rekeys, ~Deploy PROVE UNCHANGED run
    BY <2>2 DEF Next, Restart, StoreKey, Handles, Configure, TakesRecipient, RegisterInserts,
       RotateWrites, Issues, RetireWrites, HandlerLost, RegisterReads, RotateReads,
       RetireReads, Begins, DropPrevious
  <2> QED
    BY <2>1, <2>2 DEF Rekeys, RekeyKey, RekeyReadsSubscriptions, RekeySubscription,
       RekeyPublishes, RekeyReports, RekeyLost
<1>2. UNCHANGED <<deployed, running, published, key, sub, handler>>
  BY <1>1 DEF RekeyStarts
<1>3. RunOK(run', deployed') BY RunNext
<1>4. /\ run'.pc = "keys" /\ ~run'.stranded
      /\ run'.keys = [k \in {j \in KeyRows : key[j] # Nothing} |-> key[k]]
  BY <1>1, <1>3 DEF RekeyStarts, NoRun, RunOK
<1>5. KeysLeft' BY <1>2, <1>4 DEF KeysLeft
<1>6. Alone' BY <1>2 DEF Alone, Recipient
<1> QED BY <1>4, <1>5, <1>6 DEF Undisturbed, RowsLeft

LEMMA QuietNext == Shape /\ Deployed /\ Quiet /\ Next => Quiet'
<1> SUFFICES ASSUME Shape, Deployed, Quiet, Next PROVE Quiet' OBVIOUS
<1>t. /\ RunOK(run, deployed) /\ key \in [KeyRows -> Secrets \cup {Nothing}]
      /\ running \in [Workers -> Secrets]
      /\ calm \in {"no", "alone", "finished"}
  BY DEF Shape, TypeOK
<1>o. calm' = IF run.pc = "idle"
              THEN IF run'.pc # "idle" /\ Alone THEN "alone" ELSE "no"
              ELSE IF calm = "no" \/ ~Alone' THEN "no"
              ELSE IF run'.pc # "idle" THEN "alone"
              ELSE IF run'.exit = "none" THEN "no" ELSE "finished"
  BY DEF Next, Observe
<1>1. CASE run.pc = "idle"
  BY <1>1, <1>o, RunBegins DEF Quiet
<1>2. CASE run.pc # "idle" /\ (calm = "no" \/ ~Alone')
  BY <1>2, <1>o DEF Quiet
<1>3. CASE run.pc # "idle" /\ calm # "no" /\ Alone'
  <2>1. Undisturbed BY <1>3, <1>t DEF Quiet, Done
  <2>2. \/ Undisturbed'
        \/ Done'
        \/ run'.pc = "idle" /\ run'.exit = "none"
    <3>1. CASE Rekeys BY <3>1, <2>1, <1>3, RunUndisturbed
    <3>2. ASSUME UNCHANGED <<run, deployed, key, sub>> PROVE Undisturbed'
      BY <3>2, <2>1, <1>3 DEF Undisturbed, KeysLeft, RowsLeft
    <3>3. ASSUME NEW w \in Workers, NEW k \in KeyRows, StoreKey(w, k) PROVE Undisturbed'
      <4>1. key[k] = Nothing /\ key' = [key EXCEPT ![k] = deployed.current]
            /\ UNCHANGED <<run, deployed, sub>>
        BY <3>3, <2>1 DEF StoreKey, Undisturbed, Alone
      <4>2. k \notin DOMAIN run.keys
        BY <4>1, <2>1, <1>t, SecretsNat DEF Undisturbed, KeysLeft, RunOK
      <4>3. KeysLeft' BY <4>1, <4>2, <2>1, <1>t DEF Undisturbed, KeysLeft
      <4> QED BY <4>1, <4>3, <2>1, <1>3 DEF Undisturbed, RowsLeft
    <3>4. ASSUME NEW h \in Handlers, Handles(h) PROVE UNCHANGED <<run, deployed, key, sub>>
      <4>1. handler[h].pc = "idle" BY <2>1 DEF Undisturbed, Alone
      <4> QED
        BY <3>4, <4>1 DEF Handles, TakesRecipient, RegisterInserts, RotateWrites,
           RetireWrites, HandlerLost, RegisterReads, RotateReads, RetireReads, Begins
    <3>5. ASSUME \E s \in Subscriptions : Configure(s)
          PROVE  UNCHANGED <<run, deployed, key, sub>>
      BY <3>5 DEF Configure
    <3>6. \A w \in Workers : ~Restart(w) BY <2>1 DEF Restart, Undisturbed, Alone
    <3>7. ~Deploy /\ ~DropPrevious BY <1>3, <1>t DEF Deploy, DropPrevious, RunOK
    <3> QED BY <3>1, <3>2, <3>3, <3>4, <3>5, <3>6, <3>7 DEF Next
  <2> QED BY <2>2, <1>3, <1>o DEF Quiet, Undisturbed, Done
<1> QED BY <1>1, <1>2, <1>3

LEMMA CustodyInit == Init => Deployed /\ Offered /\ Quiet
<1> SUFFICES ASSUME Init PROVE Deployed /\ Offered /\ Quiet OBVIOUS
<1>1. deployed.current = 1 /\ deployed.previous = Nothing /\ published = <<1>> /\ calm = "no"
  BY DEF Init
<1>2. Offered
  <2>1. Recipient = 1 /\ DOMAIN published = {1} BY <1>1 DEF Recipient
  <2> QED BY <1>1, <2>1 DEF Offered, Known
<1>3. Deployed
  <2>1. PICK there \in SUBSET Subscriptions :
          sub = [s \in Subscriptions |->
               IF s \in there THEN [secret |-> Seal(1, s), previous |-> Empty,
                                     custody_key_id |-> 1]
               ELSE NoRow]
    BY DEF Init
  <2>2. \A s \in Subscriptions, c \in Columns : sub[s][c].under \in {Nothing, 1}
    <3> SUFFICES ASSUME NEW s \in Subscriptions
                 PROVE  /\ sub[s].secret.under \in {Nothing, 1}
                        /\ sub[s].previous.under \in {Nothing, 1}
      BY DEF Columns
    <3>1. CASE s \in there BY <2>1, <3>1 DEF Seal, Empty
    <3>2. CASE s \notin there BY <2>1, <3>2 DEF NoRow, Seal, Empty
    <3> QED BY <3>1, <3>2
  <2>3. /\ \A w \in Workers : running[w] = 1
        /\ \A h \in Handlers : handler[h].recipient = Nothing
        /\ \A k \in KeyRows : key[k] \in {Nothing, 1}
    BY DEF Init, Idle
  <2> QED BY <1>1, <2>2, <2>3 DEF Deployed, Known
<1> QED BY <1>1, <1>2, <1>3 DEF Quiet

\* Whatever is sealed is under a secret that is deployed, through workers that still
\* run with the old one, handlers half way, lost runs and secrets replaced again; and
\* a run of rekey that was alone leaves nothing under the old secret.
THEOREM CustodyHolds ==
    ASSUME Careful
    PROVE  Spec => []NothingStranded
<1>1. Shape /\ Deployed /\ Offered /\ Quiet /\ [Next]_vars => (Deployed /\ Offered /\ Quiet)'
  <2> SUFFICES ASSUME Shape, Deployed, Offered, Quiet, [Next]_vars
               PROVE  (Deployed /\ Offered /\ Quiet)'
    OBVIOUS
  <2>1. CASE Next BY <2>1, DeployedNext, OfferedNext, QuietNext
  <2>2. CASE UNCHANGED vars
    BY <2>2 DEF vars, Deployed, Offered, Quiet, Known, Recipient, Undisturbed, Done, Alone,
       KeysLeft, RowsLeft, Survey, Sealed
  <2> QED BY <2>1, <2>2
<1>2. Deployed /\ Quiet => NothingStranded
  BY DEF Deployed, Quiet, Done, NothingStranded, Sealed, Known
<1> QED BY <1>1, <1>2, CustodyInit, ShapeHolds, PTL DEF Spec

-----------------------------------------------------------------------------
(* What an endpoint verifies with.  It is not inductive: what one writer read *)
(* of a subscription must still stand when it writes (AsRead), which is so    *)
(* while nobody else is under way on it (OneWriter), and what was retired     *)
(* must not come back as the secret of another (IssuedOnce).                  *)

\* What the run has read of the row and is about to write back.
Rekeying(s) == /\ run.pc = "subscriptions" /\ s \in DOMAIN run.subs
               /\ Moves(run.subs[s], run.from) # {}

OneWriter(s) ==
    /\ \A g, h \in Handlers : handler[g].sub = s /\ handler[h].sub = s => g = h
    /\ Rekeying(s) => \A h \in Handlers : handler[h].sub # s

\* While one writes, what it read still stands.
AsRead(s) ==
    /\ Rekeying(s) => run.subs[s] = sub[s]
    /\ \A h \in Handlers : handler[h].sub = s =>
        /\ handler[h].pc = "registering" => ~Exists(s)
        /\ handler[h].pc \in {"rotating", "sealed"} => Exists(s) /\ ~Rotating(s)
        /\ handler[h].pc = "retiring" =>
            Exists(s) /\ Rotating(s) /\ endpoint[s] = sub[s].secret.holds

Verified(s) ==
    /\ Exists(s) <=> sub[s].secret.holds # Nothing
    /\ ~Exists(s) => endpoint[s] = Nothing
    /\ Rotating(s) => sub[s].secret.holds # sub[s].previous.holds
    /\ endpoint[s] # Nothing => endpoint[s] \in Signs(s)
    /\ Signs(s) \cap retired = {}

\* The signing secrets of a subscription, those a run will write back included.
Numbers(s) == Signs(s) \cup
    IF s \in DOMAIN run.subs THEN {run.subs[s][c].holds : c \in Columns} ELSE {}

\* A signing secret is issued once, to one subscription.
IssuedOnce ==
    /\ \A s \in Subscriptions : Numbers(s) \subseteq 0..bounds.issued
    /\ retired \subseteq 1..bounds.issued
    /\ \A s, t \in Subscriptions : s # t => Numbers(s) \cap Numbers(t) \subseteq {Nothing}

VerifyInv ==
    /\ IssuedOnce
    /\ \A s \in Subscriptions \ contended : OneWriter(s) /\ AsRead(s) /\ Verified(s)

LEMMA SignsAre ==
    \A s \in Subscriptions : Signs(s) = {sub[s].secret.holds, sub[s].previous.holds}
BY DEF Signs, Columns

\* Two writers make a subscription contended.
LEMMA Lonely ==
    \A s \in Subscriptions : ~(Cardinality(Writers(s)) > 1) => OneWriter(s)
<1> SUFFICES ASSUME NEW s \in Subscriptions, ~(Cardinality(Writers(s)) > 1)
             PROVE  OneWriter(s)
  OBVIOUS
<1>1. IsFiniteSet(Writers(s))
  <2>1. IsFiniteSet({h \in Handlers : handler[h].sub = s})
    BY CustodyAssumption, FS_Subset
  <2>2. IsFiniteSet({h \in Handlers : handler[h].sub = s} \cup {"rekey"})
    BY <2>1, FS_AddElement
  <2>3. Writers(s) \subseteq {h \in Handlers : handler[h].sub = s} \cup {"rekey"}
    BY DEF Writers
  <2> QED BY <2>2, <2>3, FS_Subset
<1>2. ASSUME NEW a \in Writers(s), NEW b \in Writers(s) PROVE a = b
  <2> SUFFICES ASSUME a # b PROVE FALSE OBVIOUS
  <2>1. IsFiniteSet({a}) /\ Cardinality({a}) = 1 BY FS_Singleton
  <2>2. Cardinality({a} \cup {b}) = 2 BY <2>1, FS_AddElement
  <2>3. {a} \cup {b} \in SUBSET Writers(s) OBVIOUS
  <2>4. 2 <= Cardinality(Writers(s)) BY <1>1, <2>2, <2>3, FS_Subset
  <2>5. Cardinality(Writers(s)) \in Nat BY <1>1, FS_CardinalityType
  <2> QED BY <2>4, <2>5
<1>3. \A h \in Handlers : handler[h].sub = s => h \in Writers(s) BY DEF Writers
<1>4. Rekeying(s) => "rekey" \in Writers(s) BY DEF Rekeying, Writers
<1>5. "rekey" \notin Handlers BY CustodyAssumption
<1> QED BY <1>2, <1>3, <1>4, <1>5 DEF OneWriter

LEMMA LonelyAfter ==
    (\A s \in Subscriptions : ~(Cardinality(Writers(s)) > 1) => OneWriter(s))'
BY Lonely, PTL

LEMMA LonelyNext ==
    ASSUME Next, NEW s \in Subscriptions, s \notin contended'
    PROVE  s \notin contended /\ OneWriter(s)'
<1>2. contended' = contended \cup
          {t \in Subscriptions : Cardinality(Writers(t)') > 1}
  BY DEF Next, Observe
<1>3. s \notin contended /\ ~(Cardinality(Writers(s)') > 1) BY <1>2
<1> QED BY <1>3, LonelyAfter

\* Whoever is under way on s goes on as it was, or is gone.
HandlersStay(s) == \A h \in Handlers :
    handler'[h].sub = s => handler'[h] = handler[h]

\* A step that leaves a subscription to whoever is under way on it.
LEMMA Untouched ==
    ASSUME NEW s \in Subscriptions, AsRead(s), Verified(s),
           sub'[s] = sub[s], endpoint'[s] = endpoint[s], HandlersStay(s),
           Signs(s) \cap retired' = {},
           Rekeying(s)' => run'.subs[s] = sub[s]
    PROVE  AsRead(s)' /\ Verified(s)'
<1>1. /\ Exists(s)' = Exists(s) /\ Rotating(s)' = Rotating(s)
      /\ Signs(s)' = Signs(s)
  BY DEF Exists, Rotating, Signs
<1>2. Verified(s)' BY <1>1 DEF Verified
<1>3. AsRead(s)' BY <1>1 DEF AsRead, HandlersStay
<1> QED BY <1>2, <1>3

\* The row of s as a handler that is alone on it writes it.
LEMMA HandlerWrites ==
    ASSUME Shape, IssuedOnce, NEW h \in Handlers, NEW s \in Subscriptions,
           handler[h].sub = s, OneWriter(s), AsRead(s), Verified(s),
           RegisterInserts(h) \/ RotateWrites(h) \/ RetireWrites(h)
    PROVE  AsRead(s)' /\ Verified(s)'
<1>t. /\ sub \in [Subscriptions -> Row] /\ RowOK(sub[s]) /\ HandlerOK(handler[h])
      /\ handler \in [Handlers ->
              [pc : {"idle", "registering", "rotating", "sealed", "retiring"},
               sub : Subscriptions \cup {Nothing}, recipient : Secrets \cup {Nothing}]]
      /\ bounds.issued \in Nat
  BY DEF Shape, TypeOK
<1>n. s # Nothing BY SubscriptionsNat DEF Nothing
<1>0. /\ handler' = [handler EXCEPT ![h] = Idle] /\ run' = run /\ endpoint' = endpoint
  BY DEF RegisterInserts, RotateWrites, Issues, RetireWrites
<1>1. ~Rekeying(s)' BY <1>0 DEF OneWriter, Rekeying
<1>2. \A g \in Handlers : handler'[g].sub # s
  BY <1>0, <1>t, <1>n DEF OneWriter, Idle
<1>3. AsRead(s)' BY <1>1, <1>2 DEF AsRead
<1>4. /\ sub[s].secret.holds \in 0..bounds.issued
      /\ sub[s].previous.holds \in 0..bounds.issued
      /\ \A x \in retired : x \in 1..bounds.issued
  BY SignsAre DEF IssuedOnce, Numbers
<1>5. /\ Fresh \in Nat /\ Fresh > bounds.issued /\ Fresh # Nothing /\ Fresh \notin retired
  BY <1>t, <1>4 DEF Fresh, Nothing
<1>6. /\ Exists(s) <=> sub[s].secret.holds # Nothing
      /\ ~Exists(s) => endpoint[s] = Nothing
      /\ Rotating(s) => sub[s].secret.holds # sub[s].previous.holds
      /\ endpoint[s] # Nothing => endpoint[s] \in Signs(s)
      /\ Signs(s) \cap retired = {}
  BY DEF Verified
<1>7. Signs(s) = {sub[s].secret.holds, sub[s].previous.holds} BY SignsAre
<1>8. /\ Empty.holds = Nothing /\ Nothing \notin retired
  BY <1>4 DEF Empty, Seal, Nothing
<1>9. ASSUME NEW row, sub'[s] = row, row \in Row,
             row.secret.holds # Nothing,
             row.previous # Empty => row.secret.holds # row.previous.holds,
             endpoint[s] # Nothing => endpoint[s] \in {row.secret.holds, row.previous.holds},
             {row.secret.holds, row.previous.holds} \cap retired' = {}
      PROVE  Verified(s)'
  <2>1. Signs(s)' = {row.secret.holds, row.previous.holds} BY <1>9 DEF Signs, Columns
  <2>2. Exists(s)'
    BY <1>9, <1>8 DEF Exists, NoRow
  <2>3. Rotating(s)' <=> row.previous # Empty BY <1>9 DEF Rotating
  <2> QED BY <1>0, <1>9, <2>1, <2>2, <2>3 DEF Verified
<1>10. CASE RegisterInserts(h)
  <2> DEFINE a == handler[h].recipient
             row == [secret |-> Seal(a, Fresh), previous |-> Empty, custody_key_id |-> a]
  <2>1. sub'[s] = row /\ retired' = retired
    BY <1>10, <1>t DEF RegisterInserts, Issues
  <2>2. /\ row.secret.holds = Fresh /\ row.previous = Empty
        /\ row.previous.holds = Nothing
    BY <1>8 DEF Seal
  <2>3. row \in Row
    BY <1>t, <1>5, <1>10 DEF Row, Seal, Empty, Nothing, RegisterInserts, HandlerOK
  <2>4. endpoint[s] = Nothing BY <1>10, <1>6 DEF RegisterInserts, AsRead
  <2> HIDE DEF row
  <2> QED BY <1>3, <1>5, <1>8, <1>9, <2>1, <2>2, <2>3, <2>4
<1>11. CASE RotateWrites(h)
  <2> DEFINE a == handler[h].recipient
             row == [secret |-> Seal(a, Fresh), previous |-> sub[s].secret,
                     custody_key_id |-> a]
  <2>1. sub'[s] = row /\ retired' = retired
    BY <1>11, <1>t DEF RotateWrites, Issues
  <2>2. row.secret.holds = Fresh /\ row.previous = sub[s].secret
    BY DEF Seal
  <2>3. row \in Row
    BY <1>t, <1>5, <1>11 DEF Row, Seal, RotateWrites, HandlerOK
  <2>4. Exists(s) /\ ~Rotating(s) BY <1>11 DEF RotateWrites, AsRead
  <2>5. sub[s].previous.holds = Nothing BY <2>4, <1>8 DEF Rotating
  <2>6. Fresh # sub[s].secret.holds BY <1>t, <1>4, <1>5
  <2> HIDE DEF row
  <2> QED BY <1>3, <1>5, <1>6, <1>7, <1>9, <2>1, <2>2, <2>3, <2>4, <2>5, <2>6
<1>12. CASE RetireWrites(h)
  <2> DEFINE row == [sub[s] EXCEPT !.previous = Empty]
  <2>1. /\ sub'[s] = row
        /\ retired' = retired \cup ({sub[s].previous.holds} \ {Nothing})
    BY <1>12, <1>t DEF RetireWrites
  <2>2. /\ row.secret = sub[s].secret /\ row.previous = Empty
        /\ row.previous.holds = Nothing
    BY <1>t, <1>8 DEF Row
  <2>3. row \in Row BY <1>t DEF Row, Empty, Seal, Nothing
  <2>4. Exists(s) /\ Rotating(s) /\ endpoint[s] = sub[s].secret.holds
    BY <1>12 DEF RetireWrites, AsRead
  <2> HIDE DEF row
  <2> QED BY <1>3, <1>6, <1>7, <1>8, <1>9, <2>1, <2>2, <2>3, <2>4
<1> QED BY <1>10, <1>11, <1>12

\* A handler does something else, or does it to another subscription.
LEMMA HandlesVerified ==
    ASSUME Shape, IssuedOnce, NEW h \in Handlers, NEW s \in Subscriptions,
           OneWriter(s), AsRead(s), Verified(s), Handles(h)
    PROVE  AsRead(s)' /\ Verified(s)'
<1>t. /\ sub \in [Subscriptions -> Row] /\ HandlerOK(handler[h])
      /\ handler \in [Handlers ->
              [pc : {"idle", "registering", "rotating", "sealed", "retiring"},
               sub : Subscriptions \cup {Nothing}, recipient : Secrets \cup {Nothing}]]
  BY DEF Shape, TypeOK
<1>n. s # Nothing BY SubscriptionsNat DEF Nothing
<1>u. /\ run' = run /\ endpoint' = endpoint
  BY DEF Handles, TakesRecipient, RegisterInserts, RotateWrites, Issues, RetireWrites,
     HandlerLost, RegisterReads, RotateReads, RetireReads, Begins
<1>r. (Rekeying(s)' => run'.subs[s] = sub[s]) /\ Signs(s) \cap retired = {}
  BY <1>u DEF Rekeying, AsRead, Verified
<1>1. CASE HandlerLost(h)
  <2>1. HandlersStay(s)
    BY <1>1, <1>t, <1>n DEF HandlerLost, HandlersStay, Idle
  <2> QED BY <1>1, <1>u, <1>r, <2>1, Untouched DEF HandlerLost
<1>2. CASE RegisterInserts(h) \/ RotateWrites(h) \/ RetireWrites(h)
  <2>1. CASE handler[h].sub = s BY <1>2, <2>1, HandlerWrites
  <2>2. CASE handler[h].sub # s
    <3> DEFINE t == handler[h].sub
    <3>1. t \in Subscriptions
      BY <1>2, <1>t DEF RegisterInserts, RotateWrites, RetireWrites, HandlerOK
    <3>2. sub'[s] = sub[s]
      BY <1>2, <2>2, <1>t DEF RegisterInserts, RotateWrites, Issues, RetireWrites
    <3>3. handler' = [handler EXCEPT ![h] = Idle]
      BY <1>2 DEF RegisterInserts, RotateWrites, Issues, RetireWrites
    <3>4. HandlersStay(s)
      BY <1>t, <1>n, <3>3 DEF HandlersStay, Idle
    <3>5. retired' \subseteq retired \cup (Signs(t) \ {Nothing})
      BY <1>2, <3>1, SignsAre DEF RegisterInserts, RotateWrites, Issues, RetireWrites
    <3>6. Signs(s) \cap Signs(t) \subseteq {Nothing}
      BY <2>2, <3>1 DEF IssuedOnce, Numbers
    <3> HIDE DEF t
    <3>7. Signs(s) \cap retired' = {} BY <1>r, <3>5, <3>6
    <3> QED BY <1>u, <1>r, <3>2, <3>4, <3>7, Untouched
  <2> QED BY <2>1, <2>2
<1>3. CASE TakesRecipient(h)
  <2>1. UNCHANGED <<sub, endpoint, retired, run>> BY <1>3 DEF TakesRecipient
  <2>2. /\ Exists(s)' = Exists(s) /\ Rotating(s)' = Rotating(s)
        /\ Signs(s)' = Signs(s) /\ Rekeying(s)' = Rekeying(s)
    BY <2>1 DEF Exists, Rotating, Signs, Rekeying
  <2>3. \A g \in Handlers :
          /\ handler'[g].sub = handler[g].sub
          /\ \/ handler'[g].pc = handler[g].pc
             \/ handler'[g].pc = "sealed" /\ handler[g].pc = "rotating"
    BY <1>3, <1>t DEF TakesRecipient
  <2>4. AsRead(s)' BY <2>1, <2>2, <2>3 DEF AsRead
  <2> QED BY <2>1, <2>2, <2>4 DEF Verified
<1>4. ASSUME NEW t \in Subscriptions,
             RegisterReads(h, t) \/ RotateReads(h, t) \/ RetireReads(h, t)
      PROVE  AsRead(s)' /\ Verified(s)'
  <2>1. UNCHANGED <<sub, endpoint, retired, run>>
    BY <1>4 DEF RegisterReads, RotateReads, RetireReads, Begins
  <2>2. /\ Exists(s)' = Exists(s) /\ Rotating(s)' = Rotating(s)
        /\ Signs(s)' = Signs(s) /\ Rekeying(s)' = Rekeying(s)
    BY <2>1 DEF Exists, Rotating, Signs, Rekeying
  <2>3. \A g \in Handlers : g # h => handler'[g] = handler[g]
    BY <1>4, <1>t DEF RegisterReads, RotateReads, RetireReads, Begins
  <2>4. /\ handler'[h].sub = t
        /\ handler'[h].pc \in {"registering", "rotating", "retiring"}
        /\ handler'[h].pc = "registering" => ~Exists(t)
        /\ handler'[h].pc = "rotating" => Exists(t) /\ ~Rotating(t)
        /\ handler'[h].pc = "retiring" =>
              Rotating(t) /\ endpoint[t] = sub[t].secret.holds
    BY <1>4, <1>t DEF RegisterReads, RotateReads, RetireReads, MayRotate, Begins
  <2>5. Rotating(t) => Exists(t) BY DEF Rotating, Exists, NoRow
  <2>6. AsRead(s)' BY <2>1, <2>2, <2>3, <2>4, <2>5 DEF AsRead
  <2> QED BY <2>1, <2>2, <2>6 DEF Verified
<1> QED BY <1>1, <1>2, <1>3, <1>4 DEF Handles

\* What the run writes back has the signing secrets of the row it read.
LEMMA ResealedHolds ==
    ASSUME NEW now, NEW row, NEW to, NEW columns
    PROVE  /\ Resealed(now, row, to, columns).secret.holds
                \in {now.secret.holds, row.secret.holds}
           /\ Resealed(now, row, to, columns).previous.holds
                \in {now.previous.holds, row.previous.holds}
           /\ columns = {} => Resealed(now, row, to, columns) = now
           /\ columns # {} => Resealed(now, row, to, columns).custody_key_id = to
BY DEF Resealed, Seal

\* A row that the run seals again keeps the signing secrets it had.
LEMMA RowResealed ==
    ASSUME Shape, NEW s \in Subscriptions, AsRead(s), Verified(s), Rekeying(s),
           sub'[s] = Resealed(sub[s], run.subs[s], run.to, Moves(run.subs[s], run.from)),
           endpoint' = endpoint, retired' = retired
    PROVE  Verified(s)'
<1> DEFINE columns == Moves(run.subs[s], run.from)
<1>1. /\ run.pc = "subscriptions" /\ columns # {} /\ run.subs[s] = sub[s]
  BY DEF Rekeying, AsRead
<1>2. run.from # Nothing /\ run.to # Nothing
  BY <1>1, SecretsNat DEF Shape, TypeOK, RunOK
<1>3. \E c \in Columns : sub[s][c].under = run.from BY <1>1 DEF Moves
<1>4. Exists(s)
  BY <1>2, <1>3 DEF Exists, NoRow, Empty, Seal, Columns
<1>5. /\ sub'[s].secret.holds = sub[s].secret.holds
      /\ sub'[s].previous.holds = sub[s].previous.holds
      /\ sub'[s].custody_key_id = run.to
  BY <1>1, ResealedHolds
<1>6. Exists(s)' BY <1>2, <1>5 DEF Exists, NoRow
<1>7. Signs(s)' = Signs(s) BY <1>5 DEF Signs, Columns
<1>8. Rotating(s)' => Rotating(s)
  <2>1. "previous" \in columns => sub[s].previous.under = run.from BY <1>1 DEF Moves
  <2>2. "previous" \notin columns => sub'[s].previous = sub[s].previous
    BY <1>1 DEF Resealed
  <2> QED BY <1>2, <2>1, <2>2 DEF Rotating, Empty, Seal
<1> QED BY <1>4, <1>5, <1>6, <1>7, <1>8 DEF Verified

LEMMA RekeysVerified ==
    ASSUME Shape, NEW s \in Subscriptions,
           OneWriter(s), AsRead(s), Verified(s), Rekeys
    PROVE  AsRead(s)' /\ Verified(s)'
<1>u. UNCHANGED <<handler, endpoint, retired>>
  BY DEF Rekeys, RekeyStarts, RekeyKey, RekeyReadsSubscriptions, RekeySubscription,
     RekeyPublishes, RekeyReports, RekeyLost
<1>t. sub \in [Subscriptions -> Row] /\ RunOK(run, deployed)
  BY DEF Shape, TypeOK
<1>h. HandlersStay(s) /\ Signs(s) \cap retired' = {}
  BY <1>u DEF HandlersStay, Verified
<1>1. CASE RekeyReadsSubscriptions
  <2>1. run'.subs = [t \in {r \in Subscriptions : Exists(r)} |-> sub[t]] /\ sub' = sub
    BY <1>1, <1>t DEF RekeyReadsSubscriptions, RunOK
  <2>2. Rekeying(s)' => run'.subs[s] = sub[s] BY <2>1 DEF Rekeying
  <2> QED BY <1>u, <1>h, <2>1, <2>2, Untouched
<1>2. CASE RekeySubscription
  <2>1. PICK t \in Subscriptions :
          /\ t \in DOMAIN run.subs
          /\ sub' = [sub EXCEPT ![t] = Resealed(sub[t], run.subs[t], run.to,
                                                Moves(run.subs[t], run.from))]
          /\ run'.subs = Without(run.subs, t)
    BY <1>2, <1>t DEF RekeySubscription, First, RunOK
  <2>0. run.pc = "subscriptions" BY <1>2 DEF RekeySubscription
  <2>2. run'.pc = run.pc /\ run'.from = run.from
    BY <1>2, <1>t DEF RekeySubscription, RunOK
  <2>3. CASE t # s
    <3>1. sub'[s] = sub[s] BY <2>1, <2>3
    <3>2. Rekeying(s)' => Rekeying(s) /\ run'.subs[s] = run.subs[s]
      BY <2>0, <2>1, <2>2, <2>3 DEF Rekeying, Without
    <3>3. Rekeying(s)' => run'.subs[s] = sub[s] BY <3>2 DEF AsRead
    <3> QED BY <1>u, <1>h, <3>1, <3>3, Untouched
  <2>4. CASE t = s /\ Moves(run.subs[s], run.from) = {}
    <3>1. sub'[s] = sub[s] BY <1>t, <2>1, <2>4, ResealedHolds
    <3>2. ~Rekeying(s)' BY <2>1, <2>4 DEF Rekeying, Without
    <3> QED BY <1>u, <1>h, <3>1, <3>2, Untouched
  <2>5. CASE t = s /\ Moves(run.subs[s], run.from) # {}
    <3>1. Rekeying(s) BY <2>0, <2>1, <2>5 DEF Rekeying
    <3>2. Verified(s)' BY <1>t, <1>u, <2>1, <2>5, <3>1, RowResealed
    <3>3. ~Rekeying(s)' BY <2>1, <2>5 DEF Rekeying, Without
    <3>4. \A h \in Handlers : handler'[h].sub # s BY <1>u, <3>1 DEF OneWriter
    <3> QED BY <3>2, <3>3, <3>4 DEF AsRead
  <2> QED BY <2>3, <2>4, <2>5
<1>3. CASE RekeyStarts \/ RekeyKey \/ RekeyPublishes \/ RekeyReports \/ RekeyLost
  <2>1. sub' = sub /\ run'.pc # "subscriptions"
    <3>1. CASE RekeyStarts BY <3>1 DEF RekeyStarts, NoRun
    <3>2. CASE RekeyKey BY <3>2, <1>t DEF RekeyKey, RunOK
    <3>3. CASE RekeyPublishes BY <3>3, <1>t DEF RekeyPublishes, RunOK
    <3>4. CASE RekeyReports \/ RekeyLost BY <3>4 DEF RekeyReports, RekeyLost, NoRun
    <3> QED BY <1>3, <3>1, <3>2, <3>3, <3>4
  <2>2. ~Rekeying(s)' BY <2>1 DEF Rekeying
  <2> QED BY <1>u, <1>h, <2>1, <2>2, Untouched
<1> QED BY <1>1, <1>2, <1>3 DEF Rekeys

LEMMA OthersVerified ==
    ASSUME Shape, NEW s \in Subscriptions,
           OneWriter(s), AsRead(s), Verified(s),
           \/ \E w \in Workers : Restart(w) \/ \E k \in KeyRows : StoreKey(w, k)
           \/ \E t \in Subscriptions : Configure(t)
           \/ Deploy \/ DropPrevious
    PROVE  AsRead(s)' /\ Verified(s)'
<1>u. UNCHANGED <<handler, sub, retired>>
  BY DEF Restart, StoreKey, Configure, Deploy, DropPrevious
<1>h. HandlersStay(s) /\ Signs(s) \cap retired' = {}
  BY <1>u DEF HandlersStay, Verified
<1>r. Rekeying(s)' => run'.subs[s] = sub[s]
  <2>1. CASE run' = run BY <2>1 DEF Rekeying, AsRead
  <2>2. CASE run' = NoRun BY <2>2 DEF Rekeying, NoRun
  <2> QED BY <2>1, <2>2 DEF Restart, StoreKey, Configure, Deploy, DropPrevious
<1>1. CASE endpoint'[s] = endpoint[s] BY <1>1, <1>u, <1>h, <1>r, Untouched
<1>2. CASE endpoint'[s] # endpoint[s]
  <2>1. Configure(s)
    BY <1>2 DEF Restart, StoreKey, Configure, Deploy, DropPrevious, Shape, TypeOK
  <2>2. /\ Exists(s) /\ endpoint'[s] = sub[s].secret.holds /\ run' = run
    BY <2>1 DEF Configure, Shape, TypeOK
  <2>3. /\ Exists(s)' = Exists(s) /\ Rotating(s)' = Rotating(s)
        /\ Signs(s)' = Signs(s) /\ Rekeying(s)' = Rekeying(s)
    BY <1>u, <2>2 DEF Exists, Rotating, Signs, Rekeying
  <2>4. sub[s].secret.holds \in Signs(s) BY SignsAre
  <2>5. Verified(s)' BY <1>u, <2>2, <2>3, <2>4 DEF Verified
  <2>6. AsRead(s)' BY <1>u, <2>2, <2>3 DEF AsRead
  <2> QED BY <2>5, <2>6
<1> QED BY <1>1, <1>2

-----------------------------------------------------------------------------
(* Which numbers a step may put into a row.                                  *)

NoneNew ==
    /\ bounds'.issued = bounds.issued
    /\ \A t \in Subscriptions : Numbers(t)' \subseteq Numbers(t) \cup {Nothing}
    /\ retired' \subseteq retired \cup 1..bounds.issued

Issued(s) ==
    /\ bounds'.issued = Fresh
    /\ Numbers(s)' \subseteq Numbers(s) \cup {Nothing, Fresh}
    /\ \A t \in Subscriptions \ {s} : Numbers(t)' \subseteq Numbers(t) \cup {Nothing}
    /\ retired' = retired

LEMMA NumbersAre ==
    \A s \in Subscriptions :
        /\ s \in DOMAIN run.subs => Numbers(s) =
              {sub[s].secret.holds, sub[s].previous.holds,
               run.subs[s].secret.holds, run.subs[s].previous.holds}
        /\ s \notin DOMAIN run.subs => Numbers(s) =
              {sub[s].secret.holds, sub[s].previous.holds}
BY DEF Numbers, Signs, Columns

LEMMA NumbersAfter ==
    \A s \in Subscriptions :
        /\ s \in DOMAIN run'.subs => Numbers(s)' =
              {sub'[s].secret.holds, sub'[s].previous.holds,
               run'.subs[s].secret.holds, run'.subs[s].previous.holds}
        /\ s \notin DOMAIN run'.subs => Numbers(s)' =
              {sub'[s].secret.holds, sub'[s].previous.holds}
BY DEF Numbers, Signs, Columns

\* Numbers that are issued once stay so.
LEMMA IssuedOnceStep ==
    ASSUME bounds.issued \in Nat, IssuedOnce, NoneNew \/ \E s \in Subscriptions : Issued(s)
    PROVE  IssuedOnce'
<1>0. Nothing \in 0..bounds.issued /\ Nothing \in 0..Fresh /\ Fresh \in 0..Fresh
  BY DEF Nothing, Fresh
<1>1. CASE NoneNew
  <2>1. \A s \in Subscriptions : Numbers(s)' \subseteq 0..bounds'.issued
    BY <1>0, <1>1 DEF NoneNew, IssuedOnce
  <2>2. retired' \subseteq 1..bounds'.issued BY <1>1 DEF NoneNew, IssuedOnce
  <2>3. \A s, t \in Subscriptions : s # t => Numbers(s)' \cap Numbers(t)' \subseteq {Nothing}
    BY <1>1 DEF NoneNew, IssuedOnce
  <2> QED BY <2>1, <2>2, <2>3 DEF IssuedOnce
<1>2. ASSUME NEW s \in Subscriptions, Issued(s) PROVE IssuedOnce'
  <2>0. /\ 0..bounds.issued \subseteq 0..Fresh /\ 1..bounds.issued \subseteq 1..Fresh
        /\ Fresh \notin 0..bounds.issued
    BY DEF Fresh
  <2>1. \A t \in Subscriptions : Numbers(t)' \subseteq 0..bounds'.issued
    BY <1>0, <1>2, <2>0 DEF Issued, IssuedOnce
  <2>2. retired' \subseteq 1..bounds'.issued BY <1>2, <2>0 DEF Issued, IssuedOnce
  <2>3. ASSUME NEW t \in Subscriptions, NEW u \in Subscriptions, t # u
        PROVE  Numbers(t)' \cap Numbers(u)' \subseteq {Nothing}
    <3>1. /\ Numbers(t) \subseteq 0..bounds.issued /\ Numbers(u) \subseteq 0..bounds.issued
          /\ Numbers(t) \cap Numbers(u) \subseteq {Nothing}
      BY <2>3 DEF IssuedOnce
    <3>2. \A v \in Subscriptions : v # s => Numbers(v)' \subseteq Numbers(v) \cup {Nothing}
      BY <1>2 DEF Issued
    <3>3. Numbers(s)' \subseteq Numbers(s) \cup {Nothing, Fresh} BY <1>2 DEF Issued
    <3>4. CASE t # s /\ u # s BY <3>1, <3>2, <3>4
    <3>5. CASE t = s /\ u # s BY <2>0, <3>1, <3>2, <3>3, <3>5
    <3>6. CASE t # s /\ u = s BY <2>0, <3>1, <3>2, <3>3, <3>6
    <3> QED BY <2>3, <3>4, <3>5, <3>6
  <2> QED BY <2>1, <2>2, <2>3 DEF IssuedOnce
<1> QED BY <1>1, <1>2

\* A step that leaves the rows, or writes one of them with what was in it.
LEMMA NoneNewWhen ==
    ASSUME Shape, UNCHANGED <<retired, bounds.issued>>,
           NEW s \in Subscriptions,
           \A t \in Subscriptions \ {s} : sub'[t] = sub[t],
           {sub'[s].secret.holds, sub'[s].previous.holds} \subseteq Numbers(s) \cup {Nothing},
           \A t \in DOMAIN run'.subs : t \in DOMAIN run.subs /\ run'.subs[t] = run.subs[t]
    PROVE  NoneNew
<1>1. \A t \in Subscriptions :
        {sub'[t].secret.holds, sub'[t].previous.holds} \subseteq Numbers(t) \cup {Nothing}
  BY SignsAre DEF Numbers
<1>2. \A t \in Subscriptions : Numbers(t)' \subseteq Numbers(t) \cup {Nothing}
  BY <1>1, NumbersAre, NumbersAfter
<1> QED BY <1>2 DEF NoneNew

LEMMA NoneNewAside ==
    ASSUME Shape, UNCHANGED <<sub, retired, bounds.issued>>, run' = run \/ run'.subs = <<>>
    PROVE  NoneNew
<1>1. DOMAIN <<>> = {} OBVIOUS
<1>2. \A t \in DOMAIN run'.subs : t \in DOMAIN run.subs /\ run'.subs[t] = run.subs[t]
  BY <1>1
<1>3. \A t \in Subscriptions : Numbers(t)' \subseteq Numbers(t) \cup {Nothing}
  BY <1>2, NumbersAre, NumbersAfter
<1> QED BY <1>3 DEF NoneNew

LEMMA HandlesNumbers ==
    ASSUME Shape, IssuedOnce, NEW h \in Handlers, Handles(h)
    PROVE  NoneNew \/ \E s \in Subscriptions : Issued(s)
<1>t. /\ sub \in [Subscriptions -> Row] /\ HandlerOK(handler[h])
      /\ bounds \in [issued : Nat, runs : Nat, lost : Nat]
  BY DEF Shape, TypeOK
<1>0. run' = run
  BY DEF Handles, TakesRecipient, RegisterInserts, RotateWrites, Issues, RetireWrites,
     HandlerLost, RegisterReads, RotateReads, RetireReads, Begins
<1>e. Empty.holds = Nothing BY DEF Empty, Seal
<1>1. CASE RegisterInserts(h) \/ RotateWrites(h)
  <2> DEFINE s == handler[h].sub
  <2>1. s \in Subscriptions
    BY <1>1, <1>t DEF RegisterInserts, RotateWrites, HandlerOK
  <2>2. PICK row :
          /\ Issues(h, row)
          /\ row.secret.holds = Fresh
          /\ row.previous.holds \in {Nothing, sub[s].secret.holds}
    <3>1. CASE RegisterInserts(h)
      <4> DEFINE row == [secret |-> Seal(handler[h].recipient, Fresh),
                         previous |-> Empty, custody_key_id |-> handler[h].recipient]
      <4>1. row.secret.holds = Fresh /\ row.previous.holds = Nothing BY <1>e DEF Seal
      <4>2. Issues(h, row) BY <3>1 DEF RegisterInserts
      <4> HIDE DEF row
      <4> QED BY <4>1, <4>2
    <3>2. CASE RotateWrites(h)
      <4> DEFINE row == [secret |-> Seal(handler[h].recipient, Fresh),
                         previous |-> sub[s].secret,
                         custody_key_id |-> handler[h].recipient]
      <4>1. row.secret.holds = Fresh /\ row.previous.holds = sub[s].secret.holds
        BY DEF Seal
      <4>2. Issues(h, row) BY <3>2 DEF RotateWrites
      <4> HIDE DEF row
      <4> QED BY <4>1, <4>2
    <3> QED BY <1>1, <3>1, <3>2
  <2>3. /\ sub' = [sub EXCEPT ![s] = row] /\ retired' = retired
        /\ bounds'.issued = Fresh
    BY <1>t, <2>2 DEF Issues, Spends, Fresh
  <2>4. \A t \in Subscriptions : sub'[t] = IF t = s THEN row ELSE sub[t]
    BY <1>t, <2>3
  <2>5. sub[s].secret.holds \in Numbers(s) BY <2>1, SignsAre DEF Numbers
  <2> HIDE DEF s
  <2>6. PICK t \in Subscriptions : t = s BY <2>1
  <2>7. Numbers(t)' \subseteq Numbers(t) \cup {Nothing, Fresh}
    BY <1>0, <2>2, <2>4, <2>5, <2>6, NumbersAre, NumbersAfter
  <2>8. \A u \in Subscriptions \ {t} : Numbers(u)' \subseteq Numbers(u) \cup {Nothing}
    BY <1>0, <2>4, <2>6, NumbersAre, NumbersAfter
  <2> QED BY <2>3, <2>7, <2>8 DEF Issued
<1>2. CASE RetireWrites(h)
  <2> DEFINE s == handler[h].sub
  <2>1. s \in Subscriptions BY <1>2, <1>t DEF RetireWrites, HandlerOK
  <2>2. /\ sub'[s].secret = sub[s].secret /\ sub'[s].previous = Empty
        /\ \A t \in Subscriptions : t # s => sub'[t] = sub[t]
    BY <1>2, <1>t, <2>1 DEF RetireWrites, Row
  <2>3. /\ retired' = retired \cup ({sub[s].previous.holds} \ {Nothing})
        /\ bounds' = bounds
    BY <1>2 DEF RetireWrites
  <2> HIDE DEF s
  <2>4. sub[s].previous.holds \in 0..bounds.issued
    BY <2>1, SignsAre DEF IssuedOnce, Numbers
  <2>5. retired' \subseteq retired \cup 1..bounds.issued
    BY <1>t, <2>3, <2>4 DEF Nothing
  <2>6. \A t \in Subscriptions : Numbers(t)' \subseteq Numbers(t) \cup {Nothing}
    BY <1>0, <1>e, <2>2, NumbersAre, NumbersAfter
  <2> QED BY <2>3, <2>5, <2>6 DEF NoneNew
<1>3. ASSUME ~RegisterInserts(h), ~RotateWrites(h), ~RetireWrites(h)
      PROVE  NoneNew
  <2>1. UNCHANGED <<sub, retired, bounds.issued>>
    BY <1>3, <1>t DEF Handles, TakesRecipient, HandlerLost, RegisterReads, RotateReads,
       RetireReads, Begins, Spends
  <2> QED BY <1>0, <2>1, NoneNewAside
<1> QED BY <1>1, <1>2, <1>3

LEMMA RekeysNumbers ==
    ASSUME Shape, Rekeys
    PROVE  NoneNew
<1>t. /\ sub \in [Subscriptions -> Row] /\ RunOK(run, deployed)
      /\ bounds \in [issued : Nat, runs : Nat, lost : Nat]
  BY DEF Shape, TypeOK
<1>0. UNCHANGED <<retired, bounds.issued>>
  BY <1>t DEF Rekeys, RekeyStarts, RekeyKey, RekeyReadsSubscriptions, RekeySubscription,
     RekeyPublishes, RekeyReports, RekeyLost, Spends
<1>1. CASE RekeyStarts \/ RekeyReports \/ RekeyLost
  <2>1. sub' = sub /\ run'.subs = <<>>
    <3>1. CASE RekeyStarts BY <3>1 DEF RekeyStarts, NoRun
    <3>2. CASE RekeyReports BY <3>2 DEF RekeyReports, NoRun
    <3>3. CASE RekeyLost BY <3>3 DEF RekeyLost, NoRun
    <3> QED BY <1>1, <3>1, <3>2, <3>3
  <2> QED BY <1>0, <2>1, NoneNewAside
<1>2. CASE RekeyKey \/ RekeyPublishes
  <2>1. sub' = sub /\ run'.subs = run.subs
    BY <1>2, <1>t DEF RekeyKey, RekeyPublishes, RunOK
  <2>2. \A t \in Subscriptions : Numbers(t)' = Numbers(t)
    BY <2>1 DEF Numbers, Signs
  <2> QED BY <1>0, <2>2 DEF NoneNew
<1>3. CASE RekeyReadsSubscriptions
  <2>1. /\ run'.subs = [s \in {r \in Subscriptions : Exists(r)} |-> sub[s]]
        /\ sub' = sub
    BY <1>3, <1>t DEF RekeyReadsSubscriptions, RunOK
  <2>2. \A t \in Subscriptions :
            Numbers(t)' = {sub[t].secret.holds, sub[t].previous.holds}
    BY <2>1, NumbersAfter
  <2>3. \A t \in Subscriptions : Numbers(t)' \subseteq Numbers(t) \cup {Nothing}
    BY <2>2, SignsAre DEF Numbers
  <2> QED BY <1>0, <2>3 DEF NoneNew
<1>4. CASE RekeySubscription
  <2>1. PICK s \in Subscriptions :
          /\ s \in DOMAIN run.subs
          /\ sub' = [sub EXCEPT ![s] = Resealed(sub[s], run.subs[s], run.to,
                                                Moves(run.subs[s], run.from))]
          /\ run'.subs = Without(run.subs, s)
    BY <1>4, <1>t DEF RekeySubscription, First, RunOK
  <2>2. {sub'[s].secret.holds, sub'[s].previous.holds} \subseteq Numbers(s)
    BY <1>t, <2>1, ResealedHolds, NumbersAre
  <2>3. \A t \in Subscriptions \ {s} : sub'[t] = sub[t] BY <2>1
  <2>4. \A t \in DOMAIN run'.subs : t \in DOMAIN run.subs /\ run'.subs[t] = run.subs[t]
    BY <2>1 DEF Without
  <2> QED BY <1>0, <2>2, <2>3, <2>4, NoneNewWhen
<1> QED BY <1>1, <1>2, <1>3, <1>4 DEF Rekeys

LEMMA NumbersNext ==
    ASSUME Shape, IssuedOnce, Next
    PROVE  NoneNew \/ \E s \in Subscriptions : Issued(s)
<1>1. CASE \/ \E w \in Workers : Restart(w) \/ \E k \in KeyRows : StoreKey(w, k)
           \/ \E s \in Subscriptions : Configure(s)
           \/ Deploy \/ DropPrevious
  <2>1. UNCHANGED <<sub, retired, bounds>> /\ run' \in {run, NoRun}
    BY <1>1 DEF Restart, StoreKey, Configure, Deploy, DropPrevious
  <2>2. run' = run \/ run'.subs = <<>> BY <2>1 DEF NoRun
  <2> QED BY <2>1, <2>2, NoneNewAside
<1> QED BY <1>1, HandlesNumbers, RekeysNumbers DEF Next

LEMMA VerifyInit == Init => VerifyInv
<1> SUFFICES ASSUME Init PROVE VerifyInv OBVIOUS
<1>1. PICK there \in SUBSET Subscriptions :
        /\ sub = [s \in Subscriptions |->
               IF s \in there THEN [secret |-> Seal(1, s), previous |-> Empty,
                                     custody_key_id |-> 1]
               ELSE NoRow]
        /\ endpoint = [s \in Subscriptions |-> IF s \in there THEN s ELSE Nothing]
  BY DEF Init
<1>2. /\ \A h \in Handlers : handler[h].sub = Nothing
      /\ run = NoRun /\ run.pc = "idle" /\ run.subs = <<>> /\ retired = {}
      /\ bounds.issued = Cardinality(Subscriptions)
  BY DEF Init, Idle, NoRun
<1>3. \A s \in Subscriptions :
        /\ s \in there => /\ Exists(s) /\ ~Rotating(s) /\ sub[s].secret.holds = s
                          /\ sub[s].previous.holds = Nothing /\ endpoint[s] = s
        /\ s \notin there => /\ ~Exists(s) /\ ~Rotating(s) /\ endpoint[s] = Nothing
                             /\ sub[s].secret.holds = Nothing
                             /\ sub[s].previous.holds = Nothing
  BY <1>1 DEF Exists, Rotating, NoRow, Empty, Seal, Nothing
<1>n. \A s \in Subscriptions : s \in Nat /\ s # Nothing /\ s <= Cardinality(Subscriptions)
  BY SubscriptionsNat DEF Nothing
<1>4. ASSUME NEW s \in Subscriptions PROVE OneWriter(s) /\ AsRead(s) /\ Verified(s)
  <2>1. ~Rekeying(s) BY <1>2 DEF Rekeying
  <2>2. OneWriter(s) /\ AsRead(s) BY <1>2, <1>n, <2>1 DEF OneWriter, AsRead
  <2>3. Verified(s) BY <1>2, <1>3, <1>n, SignsAre DEF Verified
  <2> QED BY <2>2, <2>3
<1>5. DOMAIN run.subs = {} BY <1>2
<1>6. \A s \in Subscriptions : Numbers(s) \subseteq {s, Nothing}
  BY <1>3, <1>5, NumbersAre
<1>7. Cardinality(Subscriptions) \in Nat BY CustodyAssumption, FS_CardinalityType
<1>8. \A s \in Subscriptions : {s, Nothing} \subseteq 0..Cardinality(Subscriptions)
  BY <1>n, <1>7 DEF Nothing
<1>9. IssuedOnce BY <1>2, <1>6, <1>8 DEF IssuedOnce
<1> QED BY <1>4, <1>9 DEF VerifyInv

LEMMA VerifyNext == Shape /\ VerifyInv /\ [Next]_vars => VerifyInv'
<1> SUFFICES ASSUME Shape, VerifyInv, [Next]_vars PROVE VerifyInv' OBVIOUS
<1>1. CASE UNCHANGED vars
  <2>1. IssuedOnce'
    <3>1. UNCHANGED <<sub, run, bounds, retired>> BY <1>1 DEF vars
    <3>2. \A s : Numbers(s)' = Numbers(s) BY <3>1 DEF Numbers, Signs
    <3> QED BY <3>1, <3>2 DEF VerifyInv, IssuedOnce
  <2>2. ASSUME NEW s \in Subscriptions, s \notin contended'
        PROVE  (OneWriter(s) /\ AsRead(s) /\ Verified(s))'
    BY <1>1, <2>2 DEF VerifyInv, OneWriter, AsRead, Verified, Rekeying, Exists, Rotating,
       Signs, vars
  <2> QED BY <2>1, <2>2 DEF VerifyInv
<1>2. CASE Next
  <2>1. bounds.issued \in Nat BY DEF Shape
  <2>2. IssuedOnce' BY <1>2, <2>1, NumbersNext, IssuedOnceStep DEF VerifyInv
  <2>3. ASSUME NEW s \in Subscriptions, s \notin contended'
        PROVE  (OneWriter(s) /\ AsRead(s) /\ Verified(s))'
    <3>1. s \notin contended /\ OneWriter(s)' BY <1>2, <2>3, LonelyNext
    <3>2. OneWriter(s) /\ AsRead(s) /\ Verified(s) /\ IssuedOnce
      BY <3>1 DEF VerifyInv
    <3>3. AsRead(s)' /\ Verified(s)'
      BY <1>2, <3>2, HandlesVerified, RekeysVerified, OthersVerified DEF Next
    <3> QED BY <3>1, <3>3
  <2> QED BY <2>2, <2>3 DEF VerifyInv
<1> QED BY <1>1, <1>2

\* A delivery is signed with a secret its endpoint verifies with, and never with
\* one whose overlap was ended, through rotations, lost answers, custody secrets
\* that are replaced and runs of rekey that stop half way, for any number of
\* subscriptions and handlers and whether or not the operator is careful; as long
\* as no two of these write one subscription at a time.
THEOREM EndpointVerifiesHolds == Spec => []EndpointVerifies
<1>1. VerifyInv => EndpointVerifies
  BY DEF VerifyInv, Verified, EndpointVerifies
<1> QED BY <1>1, VerifyInit, VerifyNext, ShapeHolds, PTL DEF Spec

=============================================================================
