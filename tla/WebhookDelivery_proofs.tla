----------------------- MODULE WebhookDelivery_proofs -----------------------
(***************************************************************************)
(* Proofs about WebhookDelivery, for every number of subscriptions, events, *)
(* dispatchers and operators.  RowsStep says what a step may do to a row of *)
(* webhook_delivery, to its subscription and to its claim: every action is  *)
(* shown to stay within it (NextGood), and each part of DeliveryInv is then *)
(* shown to be preserved from RowsStep alone, without the actions.  The     *)
(* refinement of EventDelivery and the count of the failures, which are     *)
(* about what the actions do besides, follow under headings of their own.   *)
(***************************************************************************)
EXTENDS WebhookDelivery, TLAPS, FiniteSetTheorems

\* What the operators on one row do to it: its place never changes, and the
\* result is a row.
LEMMA RowOps ==
    ASSUME NEW row \in DeliveryRow
    PROVE  /\ Taken(row) \in DeliveryRow /\ Taken(row).seq = row.seq
           /\ Taken(row).state = "delivering" /\ Taken(row).claim = "held"
           /\ Backed(row) \in DeliveryRow /\ Backed(row).seq = row.seq
           /\ Backed(row).state = "pending"
           /\ Requeued(row) \in DeliveryRow /\ Requeued(row).seq = row.seq
           /\ Requeued(row).state = "pending"
           /\ DueNow(row) \in DeliveryRow /\ DueNow(row).seq = row.seq
           /\ DueNow(row).state = "pending"
           /\ \A st \in RowStates : /\ Over(row, st) \in DeliveryRow
                                    /\ Over(row, st).seq = row.seq
                                    /\ Over(row, st).state = st
<1>a. row.attempts + 1 \in Nat BY DEF DeliveryRow
<1>b. /\ "delivering" \in RowStates /\ "pending" \in RowStates BY DEF RowStates
<1>1. /\ Taken(row) \in DeliveryRow /\ Taken(row).seq = row.seq
      /\ Taken(row).state = "delivering" /\ Taken(row).claim = "held"
  BY <1>a, <1>b DEF Taken, DeliveryRow
<1>2. /\ Backed(row) \in DeliveryRow /\ Backed(row).seq = row.seq
      /\ Backed(row).state = "pending"
  BY DEF Backed, DeliveryRow, RowStates
<1>3. /\ Requeued(row) \in DeliveryRow /\ Requeued(row).seq = row.seq
      /\ Requeued(row).state = "pending"
  BY DEF Requeued, DeliveryRow, RowStates
<1>4. /\ DueNow(row) \in DeliveryRow /\ DueNow(row).seq = row.seq
      /\ DueNow(row).state = "pending"
  BY DEF DueNow, DeliveryRow, RowStates
<1>5. ASSUME NEW st \in RowStates
      PROVE  /\ Over(row, st) \in DeliveryRow /\ Over(row, st).seq = row.seq
             /\ Over(row, st).state = st
  BY DEF Over, DeliveryRow
<1> QED BY <1>1, <1>2, <1>3, <1>4, <1>5

LEMMA FreshRows ==
    /\ Absent \in DeliveryRow /\ Absent.state = "absent" /\ Absent.seq = 0
    /\ \A n \in Nat : /\ Queued(n) \in DeliveryRow /\ Queued(n).seq = n
                      /\ Queued(n).state = "pending"
BY DEF Absent, Queued, DeliveryRow, RowStates

\* Deliveries, pointwise.
Rows == [Subscriptions -> [Events -> DeliveryRow]]

\* Inserted rows are behind every row there is, and inside the new count.
LEMMA InsertedRows ==
    ASSUME NEW table \in Rows, written \in Nat, NEW missing \in SUBSET Subscriptions,
           NEW e \in Events
    PROVE  /\ Cardinality(missing) \in Nat
           /\ Inserted(table, missing, e) \in Rows
           /\ \A t \in Subscriptions, f \in Events :
                IF t \in missing /\ f = e
                THEN /\ Inserted(table, missing, e)[t][f] \in DeliveryRow
                     /\ Inserted(table, missing, e)[t][f].state = "pending"
                     /\ Inserted(table, missing, e)[t][f].seq > written
                     /\ Inserted(table, missing, e)[t][f].seq <= written + Cardinality(missing)
                ELSE Inserted(table, missing, e)[t][f] = table[t][f]
<1> DEFINE behind(t) == {u \in missing : u <= t}
<1>1. IsFiniteSet(missing)
  BY SubscriptionsAssumption, FS_Subset
<1>2. Cardinality(missing) \in Nat
  BY <1>1, FS_CardinalityType
<1>3. ASSUME NEW t \in missing
      PROVE  /\ Cardinality(behind(t)) \in Nat
             /\ Cardinality(behind(t)) > 0
             /\ Cardinality(behind(t)) <= Cardinality(missing)
  <2>1. behind(t) \subseteq missing OBVIOUS
  <2>2. IsFiniteSet(behind(t)) /\ Cardinality(behind(t)) <= Cardinality(missing)
    BY <2>1, <1>1, FS_Subset
  <2>3. t \in behind(t) BY SubscriptionsAssumption
  <2> QED BY <2>2, <2>3, FS_CardinalityType, FS_EmptySet
<1> HIDE DEF behind
<1>4. \A t \in Subscriptions : t \in missing =>
        /\ Queued(written + Cardinality(behind(t))) \in DeliveryRow
        /\ Queued(written + Cardinality(behind(t))).state = "pending"
        /\ Queued(written + Cardinality(behind(t))).seq = written + Cardinality(behind(t))
  BY <1>3, FreshRows
<1>5. Inserted(table, missing, e) = [t \in Subscriptions |->
        IF t \in missing THEN [table[t] EXCEPT ![e] = Queued(written + Cardinality(behind(t)))]
        ELSE table[t]]
  BY DEF Inserted, behind
<1>6. Inserted(table, missing, e) \in Rows
  BY <1>4, <1>5 DEF Rows
<1>7. ASSUME NEW t \in Subscriptions, NEW f \in Events, t \in missing /\ f = e
      PROVE  Inserted(table, missing, e)[t][f] = Queued(written + Cardinality(behind(t)))
  BY <1>5, <1>7 DEF Rows
<1>8. ASSUME NEW t \in Subscriptions, NEW f \in Events, ~(t \in missing /\ f = e)
      PROVE  Inserted(table, missing, e)[t][f] = table[t][f]
  BY <1>5, <1>8 DEF Rows
<1> QED BY <1>2, <1>3, <1>4, <1>6, <1>7, <1>8

LEMMA RequeueRows ==
    ASSUME NEW table \in Rows, NEW those \in SUBSET Subscriptions, NEW e \in Events
    PROVE  /\ Requeue(table, those, e) \in Rows
           /\ \A t \in Subscriptions, f \in Events :
                Requeue(table, those, e)[t][f] =
                    IF t \in those /\ f = e /\ table[t][f].state \in Redeliverable
                    THEN Requeued(table[t][f]) ELSE table[t][f]
<1>1. \A t \in Subscriptions, f \in Events : Requeued(table[t][f]) \in DeliveryRow
  BY RowOps DEF Rows
<1> QED BY <1>1 DEF Requeue, Rows

-----------------------------------------------------------------------------
(* Types. *)

Shape == TypeOK /\ InHand

\* One dispatcher's record, pointwise.
LEMMA StepAt ==
    ASSUME dispatcher \in [Dispatchers -> DispatcherState], NEW d \in Dispatchers,
           NEW pc \in {"idle"} \cup Holding \cup Telling, Step(d, pc)
    PROVE  /\ dispatcher' \in [Dispatchers -> DispatcherState]
           /\ dispatcher'[d].pc = pc /\ dispatcher'[d].sub = dispatcher[d].sub
           /\ dispatcher'[d].event = dispatcher[d].event
           /\ \A c \in Dispatchers : c # d => dispatcher'[c] = dispatcher[c]
BY DEF Step, DispatcherState

LEMMA RestsAt ==
    ASSUME dispatcher \in [Dispatchers -> DispatcherState], NEW d \in Dispatchers, Rests(d)
    PROVE  /\ dispatcher' \in [Dispatchers -> DispatcherState]
           /\ dispatcher'[d].pc = "idle"
           /\ \A c \in Dispatchers : c # d => dispatcher'[c] = dispatcher[c]
BY DEF Rests, Idle, DispatcherState

\* What a dispatcher does to the dispatchers: it goes on with its row or rests.
GoesOn(d) ==
    /\ dispatcher' \in [Dispatchers -> DispatcherState]
    /\ \/ dispatcher'[d].pc = "idle"
       \/ /\ dispatcher[d].pc # "idle"
          /\ dispatcher'[d].sub = dispatcher[d].sub
          /\ dispatcher'[d].event = dispatcher[d].event
          /\ dispatcher'[d].pc \in Holding => dispatcher[d].pc \in Holding
    /\ \A c \in Dispatchers : c # d => dispatcher'[c] = dispatcher[c]

LEMMA DeliversGoesOn ==
    ASSUME Shape, NEW d \in Dispatchers, Delivers(d) \/ DispatcherLost(d)
    PROVE  GoesOn(d)
<1>t. dispatcher \in [Dispatchers -> DispatcherState] BY DEF Shape, TypeOK
<1>p. {"signed", "accepted", "refused", "succeeded", "exhausted"} \subseteq
        {"idle"} \cup Holding \cup Telling
  BY DEF Holding, Telling
<1>1. CASE Rests(d)
  BY <1>1, <1>t, RestsAt DEF GoesOn
<1>2. CASE dispatcher[d].pc = "claimed" /\ Step(d, "signed")
  BY <1>2, <1>t, <1>p, StepAt DEF GoesOn, Holding
<1>3. CASE dispatcher[d].pc = "signed" /\ (Step(d, "accepted") \/ Step(d, "refused"))
  BY <1>3, <1>t, <1>p, StepAt DEF GoesOn, Holding
<1>4. CASE dispatcher[d].pc \in {"accepted", "refused"} /\
           (Step(d, "succeeded") \/ Step(d, "exhausted"))
  BY <1>4, <1>t, <1>p, StepAt DEF GoesOn, Holding
<1> QED
  BY <1>1, <1>2, <1>3, <1>4 DEF Delivers, DispatcherLost, Sign, Post, Delivered,
     RetryLater, GiveUp, SubscriptionSucceeded, SubscriptionFailed

\* An operator's record.
LEMMA OperatorAt ==
    ASSUME operator \in [Operators -> OperatorState], NEW p \in Operators,
           NEW what \in OperatorState, operator' = [operator EXCEPT ![p] = what]
    PROVE  /\ operator' \in [Operators -> OperatorState]
           /\ operator'[p] = what
           /\ \A q \in Operators : q # p => operator'[q] = operator[q]
OBVIOUS

LEMMA AtRestType == AtRest \in OperatorState /\ AtRest.pc = "idle"
BY DEF AtRest, OperatorState

LEMMA TypeInit == Init => Shape
<1> SUFFICES ASSUME Init PROVE Shape OBVIOUS
<1>1. sub \in [Subscriptions -> SubscriptionRow]
  BY DEF Init, Unregistered, SubscriptionRow
<1>2. delivery \in [Subscriptions -> [Events -> DeliveryRow]]
  BY FreshRows DEF Init
<1>3. dispatcher \in [Dispatchers -> DispatcherState]
  BY DEF Init, Idle, DispatcherState
<1>4. operator \in [Operators -> OperatorState]
  BY AtRestType DEF Init
<1>5. /\ audit \in [Events -> {"none", "writing", "recorded", "failed", "ping"}]
      /\ wants \in [Events -> SUBSET Subscriptions]
      /\ got \in [Subscriptions -> SUBSET Events]
      /\ again \in [Subscriptions -> SUBSET Events]
  BY DEF Init
<1>6. written \in Nat /\ operations \in Nat /\ crashes \in Nat
  BY DEF Init
<1>7. InHand
  BY AtRestType DEF Init, InHand, Idle, AtRest
<1> QED BY <1>1, <1>2, <1>3, <1>4, <1>5, <1>6, <1>7 DEF Shape, TypeOK

-----------------------------------------------------------------------------
(* The effect of each group of actions on the table of deliveries.         *)

\* One row is written, or was deleted meanwhile.
LEMMA SettledEffect ==
    ASSUME Shape, NEW d \in Dispatchers, dispatcher[d].pc # "idle",
           NEW row \in DeliveryRow, Settled(d, row)
    PROVE  /\ delivery' \in Rows
           /\ \A t \in Subscriptions, f \in Events :
                delivery'[t][f] = IF /\ t = dispatcher[d].sub /\ f = dispatcher[d].event
                                     /\ delivery[t][f] # Absent
                                  THEN row ELSE delivery[t][f]
<1> DEFINE s == dispatcher[d].sub
           e == dispatcher[d].event
           new == IF delivery[s][e] = Absent THEN Absent ELSE row
<1>1. delivery \in Rows BY DEF Shape, TypeOK, Rows
<1>2. s \in Subscriptions /\ e \in Events BY DEF Shape, InHand
<1>3. delivery' = [delivery EXCEPT ![s][e] = new] BY <1>1, <1>2 DEF Settled, Rows
<1>4. new \in DeliveryRow BY FreshRows
<1> HIDE DEF s, e, new
<1>5. /\ delivery' \in Rows
      /\ \A t \in Subscriptions, f \in Events :
            delivery'[t][f] = IF t = s /\ f = e THEN new ELSE delivery[t][f]
  BY <1>1, <1>2, <1>3, <1>4 DEF Rows
<1> QED BY <1>5 DEF s, e, new

\* The row a dispatcher settles, and what it may write on it.
LEMMA OutcomeEffect ==
    ASSUME Shape, NEW d \in Dispatchers, Delivered(d) \/ RetryLater(d) \/ GiveUp(d)
    PROVE  /\ delivery' \in Rows
           /\ dispatcher[d].pc \in Holding /\ dispatcher'[d].pc \notin Holding
           /\ \A t \in Subscriptions, f \in Events :
                \/ delivery'[t][f] = delivery[t][f]
                \/ /\ t = dispatcher[d].sub /\ f = dispatcher[d].event
                   /\ delivery[t][f] # Absent
                   /\ delivery'[t][f].seq = delivery[t][f].seq
                   /\ delivery'[t][f].state \in {"pending", "delivered", "failed"}
           /\ UNCHANGED <<sub, written, audit, wants, operator, got, again,
                          operations, crashes>>
<1>1. Its(d) \in DeliveryRow
  BY DEF Shape, TypeOK, InHand, Its, Delivered, RetryLater, GiveUp
<1>t. dispatcher \in [Dispatchers -> DispatcherState] BY DEF Shape, TypeOK
<1>s. "delivered" \in RowStates /\ "failed" \in RowStates BY DEF RowStates
<1>d. dispatcher[d].pc \in Holding /\ dispatcher[d].pc # "idle"
  BY DEF Delivered, RetryLater, GiveUp, Holding
<1>2. PICK row \in DeliveryRow :
        /\ Settled(d, row) /\ row.seq = Its(d).seq
        /\ row.state \in {"pending", "delivered", "failed"}
  BY <1>1, <1>s, RowOps DEF Delivered, RetryLater, GiveUp
<1>3. dispatcher'[d].pc \notin Holding
  <2>1. CASE Rests(d) BY <2>1, <1>t, RestsAt DEF Holding
  <2>2. CASE Step(d, "succeeded") \/ Step(d, "exhausted")
    BY <2>2, <1>t, StepAt DEF Holding, Telling
  <2> QED BY <2>1, <2>2 DEF Delivered, RetryLater, GiveUp
<1>4. /\ delivery' \in Rows
      /\ \A t \in Subscriptions, f \in Events :
            delivery'[t][f] = IF /\ t = dispatcher[d].sub /\ f = dispatcher[d].event
                                 /\ delivery[t][f] # Absent
                              THEN row ELSE delivery[t][f]
  BY <1>d, <1>2, SettledEffect
<1>5. PICK t \in Subscriptions, e \in Events : t = dispatcher[d].sub /\ e = dispatcher[d].event
  BY <1>d DEF Shape, InHand
<1>6. row.seq = delivery[t][e].seq BY <1>2, <1>5 DEF Its
<1>7. UNCHANGED <<sub, written, audit, wants, operator, got, again, operations, crashes>>
  BY <1>2 DEF Settled
<1> HIDE DEF Shape
<1> QED BY <1>d, <1>2, <1>3, <1>4, <1>5, <1>6, <1>7

LEMMA ClaimEffect ==
    ASSUME Shape, NEW d \in Dispatchers, Claim(d)
    PROVE  \E s \in Subscriptions, e \in Events :
            /\ Claimable(s, e)
            /\ delivery' \in Rows
            /\ \A t \in Subscriptions, f \in Events :
                delivery'[t][f] = IF t = s /\ f = e THEN Taken(delivery[t][f])
                                  ELSE delivery[t][f]
            /\ dispatcher' \in [Dispatchers -> DispatcherState]
            /\ dispatcher'[d].pc = "claimed" /\ dispatcher'[d].sub = s
            /\ dispatcher'[d].event = e
            /\ \A c \in Dispatchers : c # d => dispatcher'[c] = dispatcher[c]
            /\ UNCHANGED <<sub, written, audit, wants, operator, got, again,
                           operations, crashes>>
<1>1. PICK s \in Subscriptions, e \in Events :
        /\ Claimable(s, e)
        /\ delivery' = [delivery EXCEPT ![s][e] = Taken(delivery[s][e])]
        /\ dispatcher' = [dispatcher EXCEPT ![d] =
                [pc |-> "claimed", sub |-> s, event |-> e,
                 attempts |-> delivery[s][e].attempts + 1]]
  BY DEF Claim, Shape, TypeOK
<1>2. delivery \in Rows /\ delivery[s][e] \in DeliveryRow BY DEF Shape, TypeOK, Rows
<1>3. Taken(delivery[s][e]) \in DeliveryRow BY <1>2, RowOps
<1>4. /\ delivery' \in Rows
      /\ \A t \in Subscriptions, f \in Events :
            delivery'[t][f] = IF t = s /\ f = e THEN Taken(delivery[s][e]) ELSE delivery[t][f]
  BY <1>1, <1>2, <1>3 DEF Rows
<1>5. dispatcher \in [Dispatchers -> DispatcherState] BY DEF Shape, TypeOK
<1>6. [pc |-> "claimed", sub |-> s, event |-> e,
       attempts |-> delivery[s][e].attempts + 1] \in DispatcherState
  BY <1>2 DEF DeliveryRow, DispatcherState, Holding
<1>7. /\ dispatcher' \in [Dispatchers -> DispatcherState]
      /\ dispatcher'[d].pc = "claimed" /\ dispatcher'[d].sub = s
      /\ dispatcher'[d].event = e
      /\ \A c \in Dispatchers : c # d => dispatcher'[c] = dispatcher[c]
  BY <1>1, <1>5, <1>6
<1>8. UNCHANGED <<sub, written, audit, wants, operator, got, again,
                  operations, crashes>>
  BY DEF Claim
<1> QED BY <1>1, <1>4, <1>7, <1>8

\* Time touches the lease or the wait of one row, and nothing else of it.
LEMMA TimeEffect ==
    ASSUME Shape, NEW s \in Subscriptions, NEW e \in Events,
           LeaseExpires(s, e) \/ BackoffEnds(s, e)
    PROVE  /\ delivery' \in Rows
           /\ \A t \in Subscriptions, f \in Events :
                /\ delivery'[t][f].seq = delivery[t][f].seq
                /\ delivery'[t][f].state = delivery[t][f].state
                /\ delivery[t][f] = Absent => delivery'[t][f] = Absent
                /\ \/ delivery'[t][f].claim = delivery[t][f].claim
                   \/ t = s /\ f = e /\ LeaseExpires(s, e)
           /\ UNCHANGED <<sub, written, audit, wants, dispatcher, operator, got,
                          again, operations, crashes>>
<1>1. delivery \in Rows /\ delivery[s][e] \in DeliveryRow BY DEF Shape, TypeOK, Rows
<1>2. CASE LeaseExpires(s, e)
  <2> DEFINE row == [delivery[s][e] EXCEPT !.claim = "expired"]
  <2>1. /\ row \in DeliveryRow /\ row.seq = delivery[s][e].seq
        /\ row.state = delivery[s][e].state
    BY <1>1 DEF DeliveryRow
  <2>2. delivery' = [delivery EXCEPT ![s][e] = row]
    BY <1>1, <1>2 DEF LeaseExpires, Rows
  <2>3. delivery[s][e] # Absent BY <1>2, FreshRows DEF LeaseExpires
  <2> HIDE DEF row
  <2>4. /\ delivery' \in Rows
        /\ \A t \in Subscriptions, f \in Events :
            delivery'[t][f] = IF t = s /\ f = e THEN row ELSE delivery[t][f]
    BY <1>1, <2>1, <2>2 DEF Rows
  <2> QED BY <2>1, <2>3, <2>4, <1>2 DEF LeaseExpires
<1>3. CASE BackoffEnds(s, e)
  <2> DEFINE row == [delivery[s][e] EXCEPT !.waits = FALSE]
  <2>1. /\ row \in DeliveryRow /\ row.seq = delivery[s][e].seq
        /\ row.state = delivery[s][e].state /\ row.claim = delivery[s][e].claim
    BY <1>1 DEF DeliveryRow
  <2>2. delivery' = [delivery EXCEPT ![s][e] = row]
    BY <1>1, <1>3 DEF BackoffEnds, Rows
  <2>3. delivery[s][e] # Absent BY <1>3 DEF BackoffEnds, Absent
  <2> HIDE DEF row
  <2>4. /\ delivery' \in Rows
        /\ \A t \in Subscriptions, f \in Events :
            delivery'[t][f] = IF t = s /\ f = e THEN row ELSE delivery[t][f]
    BY <1>1, <2>1, <2>2 DEF Rows
  <2> QED BY <2>1, <2>3, <2>4, <1>3 DEF BackoffEnds
<1> QED BY <1>2, <1>3

\* Parking, resuming and deleting touch all rows of one subscription.
LEMMA ParkEffect ==
    ASSUME Shape, NEW d \in Dispatchers, SubscriptionFailed(d)
    PROVE  /\ sub' \in [Subscriptions -> SubscriptionRow]
           /\ delivery' \in Rows
           /\ \A t \in Subscriptions : /\ sub'[t].is = sub[t].is
                                       /\ sub[t].parked => sub'[t].parked
           /\ \A t \in Subscriptions, f \in Events :
                \/ delivery'[t][f] = delivery[t][f]
                \/ /\ delivery[t][f].state = "pending"
                   /\ delivery'[t][f].state = "parked" /\ sub'[t].parked
                   /\ delivery'[t][f].seq = delivery[t][f].seq
                   /\ delivery[t][f] # Absent
           /\ UNCHANGED <<written, again, operator, got>>
<1> DEFINE s == dispatcher[d].sub
           row == [sub[s] EXCEPT !.failures = sub[s].failures + 1,
                                 !.parked = sub[s].parked \/ Parks(s)]
<1>s. s \in Subscriptions BY DEF Shape, InHand, SubscriptionFailed
<1>t. /\ sub \in [Subscriptions -> SubscriptionRow] /\ delivery \in Rows
      /\ sub[s] \in SubscriptionRow /\ delivery[s] \in [Events -> DeliveryRow]
  BY <1>s DEF Shape, TypeOK, Rows
<1>b. Parks(s) \in BOOLEAN BY <1>s, <1>t, LimitsAssumption DEF Parks, SubscriptionRow
<1>c. sub[s].failures + 1 \in Nat BY <1>t DEF SubscriptionRow
<1>r. /\ row \in SubscriptionRow /\ row.is = sub[s].is
      /\ row.parked <=> sub[s].parked \/ Parks(s)
  <2>1. sub[s].parked \in BOOLEAN BY <1>t DEF SubscriptionRow
  <2>2. (sub[s].parked \/ Parks(s)) \in BOOLEAN BY <1>b, <2>1
  <2> QED BY <1>t, <1>c, <2>2 DEF SubscriptionRow
<1>1. UNCHANGED <<written, again, operator, got>> BY DEF SubscriptionFailed
<1>2. CASE sub[s].is # "live"
  BY <1>1, <1>2, <1>t DEF SubscriptionFailed
<1>3. CASE sub[s].is = "live"
  <2>1. sub' = [sub EXCEPT ![s] = row]
    BY <1>3, <1>t, <1>s DEF SubscriptionFailed
  <2> HIDE DEF row
  <2>2. /\ sub' \in [Subscriptions -> SubscriptionRow]
        /\ \A t \in Subscriptions : sub'[t] = IF t = s THEN row ELSE sub[t]
    BY <2>1, <1>t, <1>r
  <2>3. /\ Parked(delivery[s]) \in [Events -> DeliveryRow]
        /\ \A f \in Events : Parked(delivery[s])[f] =
            IF delivery[s][f].state = "pending" THEN Over(delivery[s][f], "parked")
            ELSE delivery[s][f]
    <3>1. \A f \in Events : Over(delivery[s][f], "parked") \in DeliveryRow
      BY <1>t, RowOps DEF RowStates
    <3> QED BY <1>t, <3>1 DEF Parked
  <2>4. CASE ~Parks(s)
    BY <2>2, <2>4, <1>1, <1>3, <1>t, <1>r DEF SubscriptionFailed
  <2>5. CASE Parks(s)
    <3>1. delivery' = [delivery EXCEPT ![s] = Parked(delivery[s])]
      BY <2>5, <1>3, <1>t, <1>s DEF SubscriptionFailed
    <3>2. /\ delivery' \in Rows
          /\ \A t \in Subscriptions, f \in Events :
                delivery'[t][f] = IF t = s THEN Parked(delivery[s])[f] ELSE delivery[t][f]
      BY <3>1, <2>3, <1>t DEF Rows
    <3>3. \A f \in Events : /\ Over(delivery[s][f], "parked").seq = delivery[s][f].seq
                            /\ Over(delivery[s][f], "parked").state = "parked"
      BY <1>t, RowOps DEF RowStates
    <3>4. \A t \in Subscriptions, f \in Events :
            delivery[t][f].state = "pending" => delivery[t][f] # Absent
      BY FreshRows
    <3> QED BY <3>2, <3>3, <3>4, <2>2, <2>3, <2>5, <1>1, <1>r
  <2> QED BY <2>4, <2>5
<1> QED BY <1>2, <1>3

LEMMA ResumeEffect ==
    ASSUME Shape, NEW s \in Subscriptions, Resume(s)
    PROVE  /\ sub' \in [Subscriptions -> SubscriptionRow]
           /\ delivery' \in Rows
           /\ \A t \in Subscriptions : /\ sub'[t].is = sub[t].is
                                       /\ t # s => sub'[t] = sub[t]
           /\ \A t \in Subscriptions, f \in Events :
                IF t = s /\ delivery[t][f].state = "parked"
                THEN /\ delivery'[t][f].state = "pending"
                     /\ delivery'[t][f].seq = delivery[t][f].seq
                     /\ delivery[t][f] # Absent
                ELSE delivery'[t][f] = delivery[t][f]
           /\ UNCHANGED <<written, again, dispatcher, operator, got>>
<1> DEFINE row == [sub[s] EXCEPT !.parked = FALSE, !.failures = 0, !.enabled = TRUE]
<1>t. /\ sub \in [Subscriptions -> SubscriptionRow] /\ delivery \in Rows
      /\ sub[s] \in SubscriptionRow /\ delivery[s] \in [Events -> DeliveryRow]
  BY DEF Shape, TypeOK, Rows
<1>r. row \in SubscriptionRow /\ row.is = sub[s].is
  BY <1>t DEF SubscriptionRow
<1>1. sub' = [sub EXCEPT ![s] = row]
  BY <1>t DEF Resume
<1> HIDE DEF row
<1>2. /\ sub' \in [Subscriptions -> SubscriptionRow]
      /\ \A t \in Subscriptions : sub'[t] = IF t = s THEN row ELSE sub[t]
  BY <1>1, <1>t, <1>r
<1>3. \A f \in Events : /\ DueNow(delivery[s][f]) \in DeliveryRow
                        /\ DueNow(delivery[s][f]).seq = delivery[s][f].seq
                        /\ DueNow(delivery[s][f]).state = "pending"
  BY <1>t, RowOps
<1>4. /\ Revived(delivery[s]) \in [Events -> DeliveryRow]
      /\ \A f \in Events : Revived(delivery[s])[f] =
            IF delivery[s][f].state = "parked" THEN DueNow(delivery[s][f])
            ELSE delivery[s][f]
  BY <1>t, <1>3 DEF Revived
<1>5. delivery' = [delivery EXCEPT ![s] = Revived(delivery[s])]
  BY <1>t DEF Resume
<1>6. /\ delivery' \in Rows
      /\ \A t \in Subscriptions, f \in Events :
            delivery'[t][f] = IF t = s THEN Revived(delivery[s])[f] ELSE delivery[t][f]
  BY <1>5, <1>4, <1>t DEF Rows
<1>7. \A f \in Events : delivery[s][f].state = "parked" => delivery[s][f] # Absent
  BY FreshRows
<1>8. UNCHANGED <<written, again, dispatcher, operator, got>> BY DEF Resume
<1> QED BY <1>2, <1>3, <1>4, <1>6, <1>7, <1>8, <1>r

LEMMA DeleteEffect ==
    ASSUME Shape, NEW s \in Subscriptions, Delete(s)
    PROVE  /\ sub' \in [Subscriptions -> SubscriptionRow]
           /\ delivery' \in Rows
           /\ sub'[s].is = "gone"
           /\ \A t \in Subscriptions : t # s => sub'[t] = sub[t]
           /\ \A t \in Subscriptions, f \in Events :
                delivery'[t][f] = IF t = s THEN Absent ELSE delivery[t][f]
           /\ UNCHANGED <<written, again, dispatcher, operator, got>>
<1>t. sub \in [Subscriptions -> SubscriptionRow] /\ delivery \in Rows
  BY DEF Shape, TypeOK, Rows
<1>1. LET row == [Unregistered EXCEPT !.is = "gone"]
      IN  row \in SubscriptionRow /\ row.is = "gone"
  BY DEF Unregistered, SubscriptionRow
<1>2. /\ sub' \in [Subscriptions -> SubscriptionRow] /\ sub'[s].is = "gone"
      /\ \A t \in Subscriptions : t # s => sub'[t] = sub[t]
  BY <1>1, <1>t DEF Delete
<1>3. delivery' = [delivery EXCEPT ![s] = [e \in Events |-> Absent]] BY DEF Delete
<1>4. /\ delivery' \in Rows
      /\ \A t \in Subscriptions, f \in Events :
            delivery'[t][f] = IF t = s THEN Absent ELSE delivery[t][f]
  BY <1>3, <1>t, FreshRows DEF Rows
<1> QED BY <1>2, <1>4 DEF Delete

-----------------------------------------------------------------------------
(* What any step may do to one row, one subscription and one claim.  Every  *)
(* action is shown once to stay within this, and the invariants are then     *)
(* shown from this alone.                                                    *)

Stays(t, f) ==
    /\ delivery'[t][f].state = delivery[t][f].state
    /\ delivery'[t][f].seq = delivery[t][f].seq
    /\ delivery[t][f] = Absent => delivery'[t][f] = Absent
    /\ \/ delivery'[t][f].claim = delivery[t][f].claim
       \/ LeaseOutlivesPost => \A d \in Dispatchers : ~Holds(d, t, f)

Appears(t, f) ==
    /\ delivery[t][f] = Absent /\ sub[t].is = "live"
    /\ delivery'[t][f].state = "pending"
    /\ delivery'[t][f].seq > written /\ delivery'[t][f].seq <= written'
    /\ audit'[f] \in {"recorded", "ping"}

Settles(t, f) ==
    /\ \E d \in Dispatchers : Holds(d, t, f) /\ dispatcher'[d].pc \notin Holding
    /\ delivery'[t][f].state \in {"pending", "delivered", "failed"}

IsTaken(t, f) ==
    /\ Claimable(t, f)
    /\ delivery'[t][f].state = "delivering" /\ delivery'[t][f].claim = "held"

Sets(t, f) ==
    /\ delivery[t][f].state = "pending"
    /\ delivery'[t][f].state = "parked" /\ sub'[t].parked

Returns(t, f) ==
    /\ delivery[t][f].state = "parked"
    /\ delivery'[t][f].state = "pending"

Repeats(t, f) ==
    /\ delivery[t][f].state \in Redeliverable
    /\ delivery'[t][f].state = "pending" /\ f \in again'[t]

RowStep(t, f) ==
    \/ Stays(t, f)
    \/ Appears(t, f)
    \/ /\ delivery[t][f] # Absent
       /\ delivery'[t][f].seq = delivery[t][f].seq
       /\ \/ Settles(t, f) \/ IsTaken(t, f) \/ Sets(t, f)
          \/ Returns(t, f) \/ Repeats(t, f)
    \/ sub'[t].is = "gone" /\ delivery'[t][f] = Absent

SubStep(t) ==
    /\ sub[t].is = "gone" => sub'[t].is = "gone"
    /\ sub'[t].is = "gone" =>
        sub[t].is = "gone" \/ \A f \in Events : delivery'[t][f] = Absent
    /\ sub[t].parked =>
        sub'[t].parked \/ \A f \in Events : delivery'[t][f].state # "parked"
    /\ again[t] \subseteq again'[t]

HoldStep(d, t, f) == Holds(d, t, f)' =>
    \/ Holds(d, t, f)
    \/ /\ IsTaken(t, f)
       /\ \A c \in Dispatchers : c # d => dispatcher'[c] = dispatcher[c]

RowsStep ==
    /\ written' \in Nat /\ written <= written'
    /\ \A t \in Subscriptions : SubStep(t)
    /\ \A t \in Subscriptions, f \in Events : RowStep(t, f)
    /\ \A d \in Dispatchers, t \in Subscriptions, f \in Events : HoldStep(d, t, f)

\* A dispatcher that goes on takes nothing new.
LEMMA GoingOnTakesNothing ==
    ASSUME NEW d \in Dispatchers, GoesOn(d),
           NEW c \in Dispatchers, NEW t \in Subscriptions, NEW f \in Events
    PROVE  HoldStep(c, t, f)
<1>1. "idle" \notin Holding BY DEF Holding
<1> QED BY <1>1 DEF GoesOn, HoldStep, Holds

\* What steps preserve, from RowsStep alone.
LEMMA ParkedTogetherStep ==
    ASSUME TypeOK, TypeOK', ParkedTogether, RowsStep
    PROVE  ParkedTogether'
<1> SUFFICES ASSUME NEW s \in Subscriptions, NEW e \in Events,
                    delivery'[s][e].state = "parked", ~sub'[s].parked
             PROVE  FALSE
  BY DEF ParkedTogether
<1>1. RowStep(s, e) /\ SubStep(s) BY DEF RowsStep
<1>2. ~sub[s].parked BY <1>1 DEF SubStep
<1>3. delivery[s][e].state # "parked" BY <1>2 DEF ParkedTogether
<1>4. ~Stays(s, e) BY <1>3 DEF Stays
<1>5. ~Appears(s, e) BY DEF Appears
<1>6. ~Settles(s, e) /\ ~IsTaken(s, e) /\ ~Sets(s, e) /\ ~Returns(s, e) /\ ~Repeats(s, e)
  BY DEF Settles, IsTaken, Sets, Returns, Repeats
<1>7. delivery'[s][e] # Absent BY FreshRows
<1> QED BY <1>1, <1>4, <1>5, <1>6, <1>7 DEF RowStep

LEMMA SeqsGrowStep ==
    ASSUME TypeOK, TypeOK', SeqsGrow, RowsStep
    PROVE  SeqsGrow'
<1> SUFFICES ASSUME NEW s \in Subscriptions, NEW e \in Events
             PROVE  /\ delivery'[s][e].seq <= written'
                    /\ sub'[s].is = "gone" => delivery'[s][e] = Absent
  BY DEF SeqsGrow
<1>1. RowStep(s, e) /\ SubStep(s) /\ written \in Nat /\ written' \in Nat /\ written <= written'
  BY DEF RowsStep, TypeOK
<1>2. delivery[s][e].seq \in Nat BY DEF TypeOK, DeliveryRow
<1>3. delivery[s][e].seq <= written /\ (sub[s].is = "gone" => delivery[s][e] = Absent)
  BY DEF SeqsGrow
<1>4. delivery'[s][e].seq <= written'
  <2>1. CASE delivery'[s][e].seq = delivery[s][e].seq BY <2>1, <1>1, <1>2, <1>3
  <2>2. CASE Appears(s, e) BY <2>2 DEF Appears
  <2>3. CASE delivery'[s][e] = Absent BY <2>3, <1>1, FreshRows
  <2> QED BY <1>1, <2>1, <2>2, <2>3 DEF RowStep, Stays
<1>5. ASSUME sub'[s].is = "gone" PROVE delivery'[s][e] = Absent
  <2>1. CASE sub[s].is = "gone"
    BY <1>1, <1>3, <2>1 DEF RowStep, Stays, Appears
  <2>2. CASE sub[s].is # "gone" BY <1>1, <1>5, <2>2 DEF SubStep
  <2> QED BY <2>1, <2>2
<1> QED BY <1>4, <1>5

\* The claim rests on the lease: only the dispatcher that holds a row settles
\* it, and only a row nobody holds is claimed.
LEMMA ClaimStandsStep ==
    ASSUME TypeOK, TypeOK', SeqsGrow, ClaimStands, LeaseOutlivesPost, RowsStep
    PROVE  ClaimStands'
<1> SUFFICES ASSUME NEW d \in Dispatchers, NEW s \in Subscriptions, NEW e \in Events,
                    Holds(d, s, e)'
             PROVE  /\ \/ sub'[s].is = "gone"
                       \/ delivery'[s][e].state = "delivering" /\ delivery'[s][e].claim = "held"
                    /\ \A c \in Dispatchers : Holds(c, s, e)' => c = d
  BY DEF ClaimStands
<1>1. RowStep(s, e) /\ SubStep(s) /\ \A c \in Dispatchers : HoldStep(c, s, e)
  BY DEF RowsStep
<1>n. IsTaken(s, e) => \A c \in Dispatchers : ~Holds(c, s, e)
  BY DEF IsTaken, Claimable, Due, Served, ClaimStands
<1>2. CASE Holds(d, s, e)
  <2>1. /\ \/ sub[s].is = "gone"
           \/ delivery[s][e].state = "delivering" /\ delivery[s][e].claim = "held"
        /\ \A c \in Dispatchers : Holds(c, s, e) => c = d
    BY <1>2 DEF ClaimStands
  <2>2. ~IsTaken(s, e) BY <1>2, <1>n
  <2>3. \A c \in Dispatchers : Holds(c, s, e)' => c = d
    BY <1>1, <2>1, <2>2 DEF HoldStep
  <2>4. ~Settles(s, e)
    <3>1. dispatcher'[d].pc \in Holding BY DEF Holds
    <3> QED BY <3>1, <2>1 DEF Settles
  <2>5. CASE sub[s].is = "gone" BY <2>5, <2>3, <1>1 DEF SubStep
  <2>6. CASE delivery[s][e].state = "delivering" /\ delivery[s][e].claim = "held"
    <3>1. ~Sets(s, e) /\ ~Returns(s, e) /\ ~Repeats(s, e)
      BY <2>6 DEF Sets, Returns, Repeats, Redeliverable
    <3>2. ~Appears(s, e) BY <2>6, FreshRows DEF Appears
    <3>3. CASE Stays(s, e) BY <3>3, <2>3, <2>6, <1>2, LeaseOutlivesPost DEF Stays
    <3>4. CASE sub'[s].is = "gone" BY <3>4, <2>3
    <3> QED BY <1>1, <2>2, <2>4, <3>1, <3>2, <3>3, <3>4 DEF RowStep
  <2> QED BY <2>1, <2>5, <2>6
<1>3. CASE ~Holds(d, s, e)
  <2>1. /\ IsTaken(s, e)
        /\ \A c \in Dispatchers : c # d => dispatcher'[c] = dispatcher[c]
    BY <1>1, <1>3 DEF HoldStep
  <2>2. \A c \in Dispatchers : c # d => ~Holds(c, s, e)'
    BY <2>1, <1>n DEF Holds
  <2> QED BY <2>1, <2>2 DEF IsTaken
<1> QED BY <1>2, <1>3

\* Nothing gets in front of an event in flight: what is inserted is behind it,
\* what is parked was not there when it was claimed, what a dispatcher settles
\* was owed before, and what is put back is known to be.
LEMMA OrderedStep ==
    ASSUME TypeOK, TypeOK', SeqsGrow, ClaimStands, ParkedTogether, Ordered, RowsStep
    PROVE  Ordered'
<1> SUFFICES ASSUME NEW s \in Subscriptions, NEW e \in Events, NEW f \in Events,
                    delivery'[s][e].state = "delivering",
                    delivery'[s][f].state \in Owing \cup {"parked"},
                    delivery'[s][f].seq < delivery'[s][e].seq,
                    f \notin again'[s]
             PROVE  FALSE
  BY DEF Ordered
<1>1. RowStep(s, e) /\ RowStep(s, f) /\ SubStep(s)
  BY DEF RowsStep
<1>t. /\ delivery[s][e].seq \in Nat /\ delivery[s][f].seq \in Nat /\ written \in Nat
      /\ delivery'[s][e].seq \in Nat /\ delivery'[s][f].seq \in Nat
  BY DEF TypeOK, DeliveryRow
<1>2. f \notin again[s] BY <1>1 DEF SubStep
<1>a. delivery'[s][e] # Absent /\ delivery'[s][f] # Absent
  BY FreshRows DEF Owing
<1>3. /\ delivery'[s][e].seq = delivery[s][e].seq
      /\ delivery[s][e].state = "delivering" \/ Claimable(s, e)
  BY <1>1, <1>a DEF RowStep, Stays, Appears, Settles, IsTaken, Sets, Returns, Repeats
<1>b. delivery[s][e] # Absent
  BY <1>3, FreshRows DEF Claimable, Due
<1>g. sub[s].is # "gone" BY <1>b DEF SeqsGrow
<1>4. delivery'[s][f].seq = delivery[s][f].seq
  <2>1. ~Appears(s, f)
    <3>1. delivery[s][e].seq <= written BY DEF SeqsGrow
    <3> QED BY <3>1, <1>3, <1>t DEF Appears
  <2> QED BY <2>1, <1>1, <1>a DEF RowStep, Stays
<1>5. delivery[s][f].state \in Owing \cup {"parked"}
  <2>1. CASE Stays(s, f) BY <2>1 DEF Stays
  <2>2. CASE Settles(s, f) BY <2>2, <1>g DEF Settles, ClaimStands, Owing
  <2>3. CASE IsTaken(s, f) BY <2>3 DEF IsTaken, Claimable, Due, Owing
  <2>4. CASE Sets(s, f) \/ Returns(s, f) BY <2>4 DEF Sets, Returns, Owing
  <2>5. ~Repeats(s, f) BY DEF Repeats
  <2>6. ~Appears(s, f)
    <3>1. delivery[s][e].seq <= written BY DEF SeqsGrow
    <3> QED BY <3>1, <1>3, <1>t DEF Appears
  <2> QED BY <1>1, <1>a, <2>1, <2>2, <2>3, <2>4, <2>5, <2>6 DEF RowStep
<1>6. CASE delivery[s][e].state = "delivering"
  BY <1>6, <1>2, <1>3, <1>4, <1>5 DEF Ordered
<1>7. CASE Claimable(s, e)
  <2>1. delivery[s][f].state \notin Owing
    BY <1>7, <1>3, <1>4 DEF Claimable, Overtaking
  <2>2. delivery[s][f].state # "parked"
    BY <1>7 DEF Claimable, Served, ParkedTogether
  <2> QED BY <1>5, <2>1, <2>2
<1> QED BY <1>3, <1>6, <1>7

-----------------------------------------------------------------------------
(* Every action stays within RowsStep and keeps the shape of the state.     *)

AuditStep ==
    /\ \A f \in Events :
        /\ audit'[f] \in {"none", "writing"} => audit[f] \in {"none", "writing"}
        /\ audit[f] = "recorded" => audit'[f] = "recorded"
    /\ \A p \in Operators : operator'[p].pc = "resending" =>
        \/ operator'[p] = operator[p]
        \/ audit[operator'[p].event] = "recorded"

Good == Shape' /\ RowsStep /\ AuditStep

LEMMA UnwrittenStep ==
    ASSUME Shape, Unwritten, Good
    PROVE  Unwritten'
<1>1. ASSUME NEW s \in Subscriptions, NEW e \in Events, audit'[e] \in {"none", "writing"}
      PROVE  delivery'[s][e] = Absent
  <2>1. delivery[s][e] = Absent BY <1>1 DEF Unwritten, Good, AuditStep
  <2>2. RowStep(s, e) BY DEF Good, RowsStep
  <2> QED BY <1>1, <2>1, <2>2 DEF RowStep, Stays, Appears
<1>2. ASSUME NEW p \in Operators, operator'[p].pc = "resending"
      PROVE  audit'[operator'[p].event] = "recorded"
  <2>1. operator'[p].event \in Events BY <1>2 DEF Good, Shape, InHand
  <2>2. audit[operator'[p].event] = "recorded"
    BY <1>2 DEF Good, AuditStep, Unwritten
  <2> QED BY <2>1, <2>2 DEF Good, AuditStep
<1> QED BY <1>1, <1>2 DEF Unwritten

\* What stays as it is.
LEMMA StillRows ==
    ASSUME delivery' = delivery, NEW t \in Subscriptions, NEW f \in Events
    PROVE  RowStep(t, f)
BY DEF RowStep, Stays

LEMMA StillHolds ==
    ASSUME dispatcher' = dispatcher,
           NEW d \in Dispatchers, NEW t \in Subscriptions, NEW f \in Events
    PROVE  HoldStep(d, t, f)
BY DEF HoldStep, Holds

LEMMA StillSub ==
    ASSUME NEW t \in Subscriptions, again' = again,
           sub'[t].is = sub[t].is, sub'[t].parked = sub[t].parked
    PROVE  SubStep(t)
BY DEF SubStep

LEMMA StillAudit ==
    ASSUME audit' = audit, operator' = operator
    PROVE  AuditStep
BY DEF AuditStep

LEMMA HandsGoOn ==
    ASSUME Shape, NEW d \in Dispatchers, GoesOn(d), operator' = operator
    PROVE  InHand'
<1>1. ASSUME NEW c \in Dispatchers, dispatcher'[c].pc # "idle"
      PROVE  dispatcher'[c].sub \in Subscriptions /\ dispatcher'[c].event \in Events
  BY <1>1 DEF GoesOn, Shape, InHand
<1> QED BY <1>1 DEF Shape, InHand

LEMMA HandsStill ==
    ASSUME Shape, dispatcher' = dispatcher, operator' = operator
    PROVE  InHand'
BY DEF Shape, InHand

\* An operator goes to rest, or begins something it has a subscription and an
\* event for.
LEMMA HandsEnd ==
    ASSUME Shape, dispatcher' = dispatcher, NEW p \in Operators, Ends(p)
    PROVE  /\ InHand' /\ operator' \in [Operators -> OperatorState]
           /\ audit' = audit => AuditStep
           /\ \A q \in Operators : operator'[q].pc = "resending" => operator'[q] = operator[q]
<1>1. /\ operator' \in [Operators -> OperatorState] /\ operator'[p] = AtRest
      /\ \A q \in Operators : q # p => operator'[q] = operator[q]
  BY AtRestType, OperatorAt DEF Ends, Shape, TypeOK
<1>2. operator'[p].pc = "idle" BY <1>1, AtRestType
<1>3. \A q \in Operators : operator'[q].pc = "resending" => operator'[q] = operator[q]
  BY <1>1, <1>2
<1>4. ASSUME NEW q \in Operators
      PROVE  /\ operator'[q].pc \in {"redelivering", "pinging"} =>
                    operator'[q].sub \in Subscriptions
             /\ operator'[q].pc \in {"redelivering", "resending"} =>
                    operator'[q].event \in Events
  BY <1>1, <1>2 DEF Shape, InHand
<1>5. \A d \in Dispatchers : dispatcher'[d].pc # "idle" =>
        dispatcher'[d].sub \in Subscriptions /\ dispatcher'[d].event \in Events
  BY DEF Shape, InHand
<1>6. InHand' BY <1>4, <1>5 DEF InHand
<1> QED BY <1>1, <1>3, <1>6 DEF AuditStep

LEMMA BeginsGood ==
    ASSUME Shape, NEW p \in Operators, NEW what \in OperatorState, Begins(p, what),
           what.pc \in {"redelivering", "pinging"} => what.sub \in Subscriptions,
           what.pc \in {"redelivering", "resending"} => what.event \in Events,
           what.pc = "resending" => audit[what.event] = "recorded"
    PROVE  Good
<1>1. /\ operator' \in [Operators -> OperatorState] /\ operator'[p] = what
      /\ \A q \in Operators : q # p => operator'[q] = operator[q]
  BY OperatorAt DEF Begins, Shape, TypeOK
<1>2. ASSUME NEW q \in Operators
      PROVE  /\ operator'[q].pc \in {"redelivering", "pinging"} =>
                    operator'[q].sub \in Subscriptions
             /\ operator'[q].pc \in {"redelivering", "resending"} =>
                    operator'[q].event \in Events
  BY <1>1 DEF Shape, InHand
<1>3. InHand'
  BY <1>2 DEF Shape, InHand, Begins
<1>4. TypeOK'
  BY <1>1 DEF Shape, TypeOK, Begins, rows, Operates
<1>5. AuditStep
  BY <1>1 DEF AuditStep, Begins, rows
<1>6. RowsStep
  BY StillRows, StillHolds, StillSub DEF RowsStep, Begins, rows, Shape, TypeOK
<1> QED BY <1>3, <1>4, <1>5, <1>6 DEF Good, Shape

LEMMA RecordBeginsGood ==
    ASSUME Shape, NEW e \in Events, RecordBegins(e) \/ RecordFails(e)
    PROVE  Good
<1>1. UNCHANGED <<sub, delivery, written, dispatcher, operator, got, again,
                  operations, crashes>>
  BY DEF RecordBegins, RecordFails
<1>2. /\ audit' \in [Events -> {"none", "writing", "recorded", "failed", "ping"}]
      /\ wants' \in [Events -> SUBSET Subscriptions]
  <2>1. /\ audit \in [Events -> {"none", "writing", "recorded", "failed", "ping"}]
        /\ wants \in [Events -> SUBSET Subscriptions] /\ Live \in SUBSET Subscriptions
    BY DEF Shape, TypeOK, Live
  <2>2. CASE RecordBegins(e)
    BY <2>1, <2>2 DEF RecordBegins
  <2>3. CASE RecordFails(e)
    BY <2>1, <2>3 DEF RecordFails
  <2> QED BY <2>2, <2>3
<1>3. Shape'
  BY <1>1, <1>2, HandsStill DEF Shape, TypeOK
<1>4. AuditStep
  BY <1>1 DEF AuditStep, RecordBegins, RecordFails, IsNext, Shape, TypeOK
<1>5. RowsStep
  BY <1>1, StillRows, StillHolds, StillSub DEF RowsStep, Shape, TypeOK
<1> QED BY <1>3, <1>4, <1>5 DEF Good

\* Inserted rows appear, and everything else about the table stays.
LEMMA InsertsGood ==
    ASSUME Shape, NEW e \in Events, NEW missing \in SUBSET Subscriptions,
           \A s \in missing : sub[s].is = "live" /\ delivery[s][e] = Absent,
           NEW those \in SUBSET Subscriptions,
           delivery' = Inserted(Requeue(delivery, those, e), missing, e),
           written' = written + Cardinality(missing),
           SentAgain(those, e),
           audit'[e] \in {"recorded", "ping"},
           UNCHANGED <<sub, dispatcher>>
    PROVE  /\ delivery' \in Rows /\ written' \in Nat
           /\ again' \in [Subscriptions -> SUBSET Events]
           /\ RowsStep
<1>1. delivery \in Rows /\ written \in Nat /\ again \in [Subscriptions -> SUBSET Events]
  BY DEF Shape, TypeOK, Rows
<1> DEFINE middle == Requeue(delivery, those, e)
<1>2. /\ middle \in Rows
      /\ \A t \in Subscriptions, f \in Events : middle[t][f] =
            IF t \in those /\ f = e /\ delivery[t][f].state \in Redeliverable
            THEN Requeued(delivery[t][f]) ELSE delivery[t][f]
  BY <1>1, RequeueRows
<1>d. delivery' = Inserted(middle, missing, e) OBVIOUS
<1> HIDE DEF middle
<1>3. /\ Cardinality(missing) \in Nat /\ delivery' \in Rows
      /\ \A t \in Subscriptions, f \in Events :
            IF t \in missing /\ f = e
            THEN /\ delivery'[t][f].state = "pending"
                 /\ delivery'[t][f].seq > written
                 /\ delivery'[t][f].seq <= written + Cardinality(missing)
            ELSE delivery'[t][f] = middle[t][f]
  BY <1>1, <1>2, <1>d, InsertedRows
<1>4. written' \in Nat /\ written <= written' BY <1>1, <1>3
<1>5. /\ again' \in [Subscriptions -> SUBSET Events]
      /\ \A t \in Subscriptions : /\ again[t] \subseteq again'[t]
                                  /\ t \in those /\ delivery[t][e].state \in Redeliverable
                                        => e \in again'[t]
  BY <1>1 DEF SentAgain
<1>6. ASSUME NEW t \in Subscriptions, NEW f \in Events
      PROVE  RowStep(t, f)
  <2>1. CASE t \in missing /\ f = e
    BY <2>1, <1>3 DEF RowStep, Appears
  <2>2. CASE ~(t \in missing /\ f = e) /\ t \in those /\ f = e
             /\ delivery[t][f].state \in Redeliverable
    <3>1. delivery'[t][f] = Requeued(delivery[t][f]) BY <2>2, <1>2, <1>3
    <3>2. delivery[t][f] \in DeliveryRow BY <1>1 DEF Rows
    <3>3. delivery'[t][f].state = "pending" /\ delivery'[t][f].seq = delivery[t][f].seq
      BY <3>1, <3>2, RowOps
    <3>4. delivery[t][f] # Absent BY <2>2, FreshRows DEF Redeliverable
    <3> QED BY <2>2, <3>3, <3>4, <1>5 DEF RowStep, Repeats
  <2>3. CASE ~(t \in missing /\ f = e) /\ ~(t \in those /\ f = e
             /\ delivery[t][f].state \in Redeliverable)
    BY <2>3, <1>2, <1>3 DEF RowStep, Stays
  <2> QED BY <2>1, <2>2, <2>3
<1>7. RowsStep
  BY <1>4, <1>5, <1>6, StillHolds DEF RowsStep, SubStep
<1> QED BY <1>3, <1>4, <1>5, <1>7

\* Nothing put back on the queue.
LEMMA RequeueNone ==
    ASSUME Shape, NEW e \in Events, again' = again
    PROVE  Requeue(delivery, {}, e) = delivery /\ SentAgain({}, e)
<1>1. /\ delivery = [t \in Subscriptions |-> delivery[t]]
      /\ again = [t \in Subscriptions |-> again[t]]
  BY DEF Shape, TypeOK
<1>2. Requeue(delivery, {}, e) = [t \in Subscriptions |-> delivery[t]]
  BY DEF Requeue
<1>3. SentAgain({}, e)
  BY <1>1 DEF SentAgain
<1> QED BY <1>1, <1>2, <1>3

LEMMA InsertedTypes ==
    ASSUME Shape, delivery' \in Rows, written' \in Nat,
           again' \in [Subscriptions -> SUBSET Events],
           audit' \in [Events -> {"none", "writing", "recorded", "failed", "ping"}],
           operator' \in [Operators -> OperatorState], InHand',
           UNCHANGED <<sub, wants, dispatcher, got, operations, crashes>>
    PROVE  Shape'
BY DEF Shape, TypeOK, Rows

LEMMA RecordCommitsGood ==
    ASSUME Shape, Unwritten, NEW e \in Events, RecordCommits(e)
    PROVE  Good
<1>1. wants[e] \in SUBSET Subscriptions BY DEF Shape, TypeOK
<1>2. \A s \in wants[e] : sub[s].is = "live" /\ delivery[s][e] = Absent
  BY <1>1 DEF RecordCommits, Unwritten
<1>3. Requeue(delivery, {}, e) = delivery /\ SentAgain({}, e)
  BY RequeueNone DEF RecordCommits
<1>4. /\ audit' \in [Events -> {"none", "writing", "recorded", "failed", "ping"}]
      /\ audit'[e] = "recorded" /\ AuditStep
  BY DEF RecordCommits, Shape, TypeOK, AuditStep
<1>5. /\ delivery' \in Rows /\ written' \in Nat
      /\ again' \in [Subscriptions -> SUBSET Events] /\ RowsStep
  <2>1. delivery' = Inserted(Requeue(delivery, {}, e), wants[e], e)
    BY <1>3 DEF RecordCommits
  <2>2. written' = written + Cardinality(wants[e]) /\ UNCHANGED <<sub, dispatcher>>
    BY DEF RecordCommits
  <2> QED BY <1>1, <1>2, <1>3, <1>4, <2>1, <2>2, InsertsGood
<1>6. operator' \in [Operators -> OperatorState] /\ InHand'
  BY HandsStill DEF RecordCommits, Shape, TypeOK
<1>7. Shape'
  BY <1>4, <1>5, <1>6, InsertedTypes DEF RecordCommits
<1> QED BY <1>4, <1>5, <1>7 DEF Good

LEMMA PingWritesGood ==
    ASSUME Shape, Unwritten, NEW p \in Operators, PingWrites(p)
    PROVE  Good
<1> DEFINE s == operator[p].sub
<1>1. s \in Subscriptions BY DEF Shape, InHand, PingWrites
<1>2. /\ InHand' /\ operator' \in [Operators -> OperatorState]
      /\ \A q \in Operators : operator'[q].pc = "resending" => operator'[q] = operator[q]
      /\ audit' = audit => AuditStep
  BY HandsEnd DEF PingWrites
<1>3. UNCHANGED <<sub, wants, dispatcher, got, again, operations, crashes>>
  BY DEF PingWrites
<1> HIDE DEF s
<1>4. CASE sub[s].is = "live"
  <2>1. PICK e \in Events : /\ IsNext(e)
                            /\ audit' = [audit EXCEPT ![e] = "ping"]
                            /\ delivery' = Inserted(delivery, {s}, e)
                            /\ written' = written + 1
    BY <1>4 DEF PingWrites, s
  <2>2. Cardinality({s}) = 1 BY FS_Singleton
  <2>3. Requeue(delivery, {}, e) = delivery /\ SentAgain({}, e)
    BY <1>3, RequeueNone
  <2>4. /\ audit' \in [Events -> {"none", "writing", "recorded", "failed", "ping"}]
        /\ audit'[e] = "ping" /\ audit[e] = "none"
    BY <2>1 DEF IsNext, Shape, TypeOK
  <2>5. \A t \in {s} : sub[t].is = "live" /\ delivery[t][e] = Absent
    BY <1>1, <1>4, <2>4 DEF Unwritten
  <2>6. /\ delivery' \in Rows /\ written' \in Nat
        /\ again' \in [Subscriptions -> SUBSET Events] /\ RowsStep
    <3>1. delivery' = Inserted(Requeue(delivery, {}, e), {s}, e) BY <2>1, <2>3
    <3>2. written' = written + Cardinality({s}) BY <2>1, <2>2
    <3> QED BY <1>1, <1>3, <2>3, <2>4, <2>5, <3>1, <3>2, InsertsGood
  <2>7. Shape' BY <1>2, <1>3, <2>4, <2>6, InsertedTypes
  <2>8. AuditStep
    BY <1>2, <2>1, <2>4 DEF AuditStep, Shape, TypeOK
  <2> QED BY <2>6, <2>7, <2>8 DEF Good
<1>5. CASE sub[s].is # "live"
  <2>1. UNCHANGED <<audit, delivery, written>> BY <1>5 DEF PingWrites, s
  <2>2. Shape' BY <1>2, <1>3, <2>1 DEF Shape, TypeOK
  <2>3. RowsStep
    BY <1>3, <2>1, StillRows, StillHolds, StillSub DEF RowsStep, Shape, TypeOK
  <2> QED BY <1>2, <2>1, <2>2, <2>3 DEF Good
<1> QED BY <1>4, <1>5

LEMMA ResendWritesGood ==
    ASSUME Shape, Unwritten, NEW p \in Operators, ResendWrites(p)
    PROVE  Good
<1> DEFINE e == operator[p].event
           missing == operator[p].missing
           over == operator[p].over
           commits == \A s \in missing : sub[s].is = "live" /\ delivery[s][e] = Absent
<1>1. /\ e \in Events /\ audit[e] = "recorded"
      /\ missing \in SUBSET Subscriptions /\ over \in SUBSET Subscriptions
  BY DEF Shape, TypeOK, InHand, ResendWrites, Unwritten, OperatorState
<1>2. /\ InHand' /\ operator' \in [Operators -> OperatorState]
      /\ audit' = audit => AuditStep
  BY HandsEnd DEF ResendWrites
<1>3. UNCHANGED <<sub, audit, wants, dispatcher, got, operations, crashes>>
  BY DEF ResendWrites
<1>a. audit' \in [Events -> {"none", "writing", "recorded", "failed", "ping"}]
  BY <1>3 DEF Shape, TypeOK
<1>4. CASE commits
  <2>1. /\ delivery' = Inserted(Requeue(delivery, over, e), missing, e)
        /\ written' = written + Cardinality(missing)
        /\ SentAgain(over, e)
    BY <1>4 DEF ResendWrites
  <2> HIDE DEF e, missing, over
  <2>2. /\ delivery' \in Rows /\ written' \in Nat
        /\ again' \in [Subscriptions -> SUBSET Events] /\ RowsStep
    BY <1>1, <1>3, <1>4, <2>1, InsertsGood
  <2>3. Shape' BY <1>2, <1>3, <1>a, <2>2, InsertedTypes
  <2> QED BY <1>2, <1>3, <2>2, <2>3 DEF Good
<1>5. CASE ~commits
  <2>1. UNCHANGED <<delivery, written, again>> BY <1>5 DEF ResendWrites
  <2> HIDE DEF e, missing, over, commits
  <2>2. Shape' BY <1>2, <1>3, <2>1 DEF Shape, TypeOK
  <2>3. RowsStep
    BY <1>3, <2>1, StillRows, StillHolds, StillSub DEF RowsStep, Shape, TypeOK
  <2> QED BY <1>2, <1>3, <2>2, <2>3 DEF Good
<1> QED BY <1>4, <1>5

LEMMA RedeliverWritesGood ==
    ASSUME Shape, Unwritten, NEW p \in Operators, RedeliverWrites(p)
    PROVE  Good
<1> DEFINE e == operator[p].event
           those == {operator[p].sub}
<1>1. e \in Events /\ those \in SUBSET Subscriptions
  BY DEF Shape, InHand, RedeliverWrites
<1>2. /\ InHand' /\ operator' \in [Operators -> OperatorState]
      /\ audit' = audit => AuditStep
  BY HandsEnd DEF RedeliverWrites
<1>3. UNCHANGED <<sub, written, audit, wants, dispatcher, got, operations, crashes>>
  BY DEF RedeliverWrites
<1>4. delivery' = Requeue(delivery, those, e) /\ SentAgain(those, e)
  BY DEF RedeliverWrites
<1> HIDE DEF e, those
<1>5. delivery \in Rows /\ again \in [Subscriptions -> SUBSET Events] /\ written \in Nat
  BY DEF Shape, TypeOK, Rows
<1>6. /\ delivery' \in Rows
      /\ \A t \in Subscriptions, f \in Events : delivery'[t][f] =
            IF t \in those /\ f = e /\ delivery[t][f].state \in Redeliverable
            THEN Requeued(delivery[t][f]) ELSE delivery[t][f]
  BY <1>1, <1>4, <1>5, RequeueRows
<1>7. /\ again' \in [Subscriptions -> SUBSET Events]
      /\ \A t \in Subscriptions : /\ again[t] \subseteq again'[t]
                                  /\ t \in those /\ delivery[t][e].state \in Redeliverable
                                        => e \in again'[t]
  BY <1>1, <1>4, <1>5 DEF SentAgain
<1>8. ASSUME NEW t \in Subscriptions, NEW f \in Events
      PROVE  RowStep(t, f)
  <2>1. CASE t \in those /\ f = e /\ delivery[t][f].state \in Redeliverable
    <3>1. delivery'[t][f] = Requeued(delivery[t][f]) BY <2>1, <1>6
    <3>2. delivery[t][f] \in DeliveryRow BY <1>5 DEF Rows
    <3>3. delivery'[t][f].state = "pending" /\ delivery'[t][f].seq = delivery[t][f].seq
      BY <3>1, <3>2, RowOps
    <3>4. delivery[t][f] # Absent BY <2>1, FreshRows DEF Redeliverable
    <3> QED BY <2>1, <3>3, <3>4, <1>7 DEF RowStep, Repeats
  <2>2. CASE ~(t \in those /\ f = e /\ delivery[t][f].state \in Redeliverable)
    BY <2>2, <1>6 DEF RowStep, Stays
  <2> QED BY <2>1, <2>2
<1>9. RowsStep
  BY <1>3, <1>5, <1>7, <1>8, StillHolds DEF RowsStep, SubStep
<1>10. Shape'
  BY <1>2, <1>3, <1>6, <1>7 DEF Shape, TypeOK, Rows
<1> QED BY <1>2, <1>3, <1>9, <1>10 DEF Good

LEMMA ClaimGood ==
    ASSUME Shape, NEW d \in Dispatchers, Claim(d)
    PROVE  Good
<1>1. PICK s \in Subscriptions, e \in Events :
        /\ Claimable(s, e)
        /\ delivery' \in Rows
        /\ \A t \in Subscriptions, f \in Events :
            delivery'[t][f] = IF t = s /\ f = e THEN Taken(delivery[t][f])
                              ELSE delivery[t][f]
        /\ dispatcher' \in [Dispatchers -> DispatcherState]
        /\ dispatcher'[d].pc = "claimed" /\ dispatcher'[d].sub = s
        /\ dispatcher'[d].event = e
        /\ \A c \in Dispatchers : c # d => dispatcher'[c] = dispatcher[c]
        /\ UNCHANGED <<sub, written, audit, wants, operator, got, again,
                       operations, crashes>>
  BY ClaimEffect
<1>2. /\ delivery[s][e] \in DeliveryRow /\ delivery[s][e] # Absent
      /\ Taken(delivery[s][e]).seq = delivery[s][e].seq
      /\ Taken(delivery[s][e]).state = "delivering" /\ Taken(delivery[s][e]).claim = "held"
  <2>1. delivery[s][e] \in DeliveryRow BY DEF Shape, TypeOK
  <2> QED BY <2>1, <1>1, RowOps, FreshRows DEF Claimable, Due
<1>3. IsTaken(s, e) BY <1>1, <1>2 DEF IsTaken
<1>4. ASSUME NEW t \in Subscriptions, NEW f \in Events PROVE RowStep(t, f)
  <2>1. CASE t = s /\ f = e BY <2>1, <1>1, <1>2, <1>3 DEF RowStep
  <2>2. CASE ~(t = s /\ f = e) BY <2>2, <1>1 DEF RowStep, Stays
  <2> QED BY <2>1, <2>2
<1>5. ASSUME NEW c \in Dispatchers, NEW t \in Subscriptions, NEW f \in Events
      PROVE  HoldStep(c, t, f)
  <2>1. CASE c = d BY <2>1, <1>1, <1>3 DEF HoldStep, Holds
  <2>2. CASE c # d BY <2>2, <1>1 DEF HoldStep, Holds
  <2> QED BY <2>1, <2>2
<1>6. RowsStep
  BY <1>1, <1>4, <1>5, StillSub DEF RowsStep, Shape, TypeOK
<1>7. ASSUME NEW c \in Dispatchers, dispatcher'[c].pc # "idle"
      PROVE  dispatcher'[c].sub \in Subscriptions /\ dispatcher'[c].event \in Events
  BY <1>1, <1>7 DEF Shape, InHand
<1>8. InHand' BY <1>1, <1>7 DEF Shape, InHand
<1>9. Shape' BY <1>1, <1>8 DEF Shape, TypeOK, Rows
<1> QED BY <1>1, <1>6, <1>9, StillAudit DEF Good

LEMMA OutcomeGood ==
    ASSUME Shape, NEW d \in Dispatchers, Delivered(d) \/ RetryLater(d) \/ GiveUp(d)
    PROVE  Good
<1>1. /\ delivery' \in Rows
      /\ dispatcher[d].pc \in Holding /\ dispatcher'[d].pc \notin Holding
      /\ \A t \in Subscriptions, f \in Events :
            \/ delivery'[t][f] = delivery[t][f]
            \/ /\ t = dispatcher[d].sub /\ f = dispatcher[d].event
               /\ delivery[t][f] # Absent
               /\ delivery'[t][f].seq = delivery[t][f].seq
               /\ delivery'[t][f].state \in {"pending", "delivered", "failed"}
      /\ UNCHANGED <<sub, written, audit, wants, operator, got, again,
                     operations, crashes>>
  BY OutcomeEffect
<1>2. GoesOn(d) BY DeliversGoesOn DEF Delivers
<1>3. ASSUME NEW t \in Subscriptions, NEW f \in Events PROVE RowStep(t, f)
  <2>1. CASE delivery'[t][f] = delivery[t][f] BY <2>1 DEF RowStep, Stays
  <2>2. CASE delivery'[t][f] # delivery[t][f]
    BY <2>2, <1>1 DEF RowStep, Settles, Holds
  <2> QED BY <2>1, <2>2
<1>4. RowsStep
  BY <1>1, <1>2, <1>3, GoingOnTakesNothing, StillSub DEF RowsStep, Shape, TypeOK
<1>5. InHand' BY <1>1, <1>2, HandsGoOn
<1>6. Shape' BY <1>1, <1>2, <1>5 DEF Shape, TypeOK, Rows, GoesOn
<1> QED BY <1>1, <1>4, <1>6, StillAudit DEF Good

LEMMA TimeGood ==
    ASSUME Shape, NEW s \in Subscriptions, NEW e \in Events,
           LeaseExpires(s, e) \/ BackoffEnds(s, e)
    PROVE  Good
<1>1. /\ delivery' \in Rows
      /\ \A t \in Subscriptions, f \in Events :
            /\ delivery'[t][f].seq = delivery[t][f].seq
            /\ delivery'[t][f].state = delivery[t][f].state
            /\ delivery[t][f] = Absent => delivery'[t][f] = Absent
            /\ \/ delivery'[t][f].claim = delivery[t][f].claim
               \/ t = s /\ f = e /\ LeaseExpires(s, e)
      /\ UNCHANGED <<sub, written, audit, wants, dispatcher, operator, got,
                     again, operations, crashes>>
  BY TimeEffect
<1>2. \A t \in Subscriptions, f \in Events : RowStep(t, f)
  BY <1>1 DEF RowStep, Stays, LeaseExpires
<1>3. RowsStep
  BY <1>1, <1>2, StillHolds, StillSub DEF RowsStep, Shape, TypeOK
<1>4. Shape' BY <1>1, HandsStill DEF Shape, TypeOK, Rows
<1> QED BY <1>1, <1>3, <1>4, StillAudit DEF Good

LEMMA ParkGood ==
    ASSUME Shape, NEW d \in Dispatchers, SubscriptionFailed(d)
    PROVE  Good
<1>1. /\ sub' \in [Subscriptions -> SubscriptionRow]
      /\ delivery' \in Rows
      /\ \A t \in Subscriptions : /\ sub'[t].is = sub[t].is
                                  /\ sub[t].parked => sub'[t].parked
      /\ \A t \in Subscriptions, f \in Events :
            \/ delivery'[t][f] = delivery[t][f]
            \/ /\ delivery[t][f].state = "pending"
               /\ delivery'[t][f].state = "parked" /\ sub'[t].parked
               /\ delivery'[t][f].seq = delivery[t][f].seq
               /\ delivery[t][f] # Absent
  BY ParkEffect
<1>u. UNCHANGED <<written, audit, wants, operator, got, again, operations, crashes>>
  BY DEF SubscriptionFailed
<1>2. GoesOn(d) BY DeliversGoesOn DEF Delivers
<1>3. ASSUME NEW t \in Subscriptions, NEW f \in Events PROVE RowStep(t, f)
  BY <1>1 DEF RowStep, Stays, Sets
<1>4. \A t \in Subscriptions : SubStep(t) BY <1>1, <1>u DEF SubStep
<1>5. RowsStep
  BY <1>u, <1>2, <1>3, <1>4, GoingOnTakesNothing DEF RowsStep, Shape, TypeOK
<1>6. InHand' BY <1>u, <1>2, HandsGoOn
<1>7. Shape' BY <1>1, <1>u, <1>2, <1>6 DEF Shape, TypeOK, Rows, GoesOn
<1> QED BY <1>u, <1>5, <1>7, StillAudit DEF Good

LEMMA ResumeGood ==
    ASSUME Shape, NEW s \in Subscriptions, Resume(s)
    PROVE  Good
<1>1. /\ sub' \in [Subscriptions -> SubscriptionRow]
      /\ delivery' \in Rows
      /\ \A t \in Subscriptions : /\ sub'[t].is = sub[t].is
                                  /\ t # s => sub'[t] = sub[t]
      /\ \A t \in Subscriptions, f \in Events :
            IF t = s /\ delivery[t][f].state = "parked"
            THEN /\ delivery'[t][f].state = "pending"
                 /\ delivery'[t][f].seq = delivery[t][f].seq
                 /\ delivery[t][f] # Absent
            ELSE delivery'[t][f] = delivery[t][f]
      /\ UNCHANGED <<written, again, dispatcher, operator, got>>
  BY ResumeEffect
<1>u. UNCHANGED <<audit, wants, crashes>> /\ operations' = operations + 1
  BY DEF Resume, Operates
<1>2. \A t \in Subscriptions, f \in Events : RowStep(t, f)
  BY <1>1 DEF RowStep, Stays, Returns
<1>3. ASSUME NEW t \in Subscriptions PROVE SubStep(t)
  BY <1>1 DEF SubStep
<1>4. RowsStep
  BY <1>1, <1>2, <1>3, StillHolds DEF RowsStep, Shape, TypeOK
<1>5. Shape' BY <1>1, <1>u, HandsStill DEF Shape, TypeOK, Rows
<1> QED BY <1>1, <1>u, <1>4, <1>5, StillAudit DEF Good

LEMMA DeleteGood ==
    ASSUME Shape, NEW s \in Subscriptions, Delete(s)
    PROVE  Good
<1>1. /\ sub' \in [Subscriptions -> SubscriptionRow]
      /\ delivery' \in Rows
      /\ sub'[s].is = "gone"
      /\ \A t \in Subscriptions : t # s => sub'[t] = sub[t]
      /\ \A t \in Subscriptions, f \in Events :
            delivery'[t][f] = IF t = s THEN Absent ELSE delivery[t][f]
      /\ UNCHANGED <<written, again, dispatcher, operator, got>>
  BY DeleteEffect
<1>u. UNCHANGED <<audit, wants, crashes>> /\ operations' = operations + 1
  BY DEF Delete, Operates
<1>2. \A t \in Subscriptions, f \in Events : RowStep(t, f)
  BY <1>1 DEF RowStep, Stays
<1>3. ASSUME NEW t \in Subscriptions PROVE SubStep(t)
  BY <1>1, FreshRows DEF SubStep
<1>4. RowsStep
  BY <1>1, <1>2, <1>3, StillHolds DEF RowsStep, Shape, TypeOK
<1>5. Shape' BY <1>1, <1>u, HandsStill DEF Shape, TypeOK, Rows
<1> QED BY <1>1, <1>u, <1>4, <1>5, StillAudit DEF Good

\* The other steps of a dispatcher leave the table alone.
LEMMA QuietGood ==
    ASSUME Shape, NEW d \in Dispatchers,
           Sign(d) \/ Post(d) \/ SubscriptionSucceeded(d) \/ DispatcherLost(d)
    PROVE  Good
<1>1. UNCHANGED <<delivery, written, audit, wants, operator, again, operations>>
  BY DEF Sign, Post, SubscriptionSucceeded, DispatcherLost, rows
<1>2. GoesOn(d) BY DeliversGoesOn DEF Delivers
<1>3. /\ crashes' \in Nat
      /\ got' \in [Subscriptions -> SUBSET Events]
      /\ sub' \in [Subscriptions -> SubscriptionRow]
      /\ \A t \in Subscriptions : sub'[t].is = sub[t].is /\ sub'[t].parked = sub[t].parked
  <2> DEFINE s == dispatcher[d].sub
             e == dispatcher[d].event
             has == [got EXCEPT ![s] = got[s] \cup {e}]
             cleared == [sub[s] EXCEPT !.failures = 0]
  <2>1. /\ sub \in [Subscriptions -> SubscriptionRow] /\ crashes \in Nat
        /\ got \in [Subscriptions -> SUBSET Events]
    BY DEF Shape, TypeOK
  <2>2. s \in Subscriptions /\ e \in Events
    BY DEF Shape, InHand, Sign, Post, SubscriptionSucceeded, DispatcherLost
  <2>3. CASE Sign(d) BY <2>1, <2>3 DEF Sign, rows
  <2>4. CASE Post(d)
    <3>1. has \in [Subscriptions -> SUBSET Events] BY <2>1, <2>2
    <3>2. got' \in {got, has} /\ UNCHANGED <<sub, crashes>> BY <2>4, <2>1, <2>2 DEF Post, rows
    <3> HIDE DEF has
    <3> QED BY <2>1, <3>1, <3>2
  <2>5. CASE SubscriptionSucceeded(d)
    <3>1. cleared \in SubscriptionRow /\ cleared.is = sub[s].is /\ cleared.parked = sub[s].parked
      BY <2>1, <2>2 DEF SubscriptionRow
    <3>2. /\ sub' = [sub EXCEPT ![s] = cleared] \/ sub' = sub
          /\ UNCHANGED <<got, crashes>>
      BY <2>5, <2>1, <2>2 DEF SubscriptionSucceeded
    <3> HIDE DEF cleared, s
    <3> QED BY <2>1, <2>2, <3>1, <3>2
  <2>6. CASE DispatcherLost(d) BY <2>1, <2>6 DEF DispatcherLost, rows
  <2> QED BY <2>3, <2>4, <2>5, <2>6
<1>4. RowsStep
  BY <1>1, <1>2, <1>3, StillRows, GoingOnTakesNothing, StillSub
     DEF RowsStep, Shape, TypeOK
<1>5. InHand' BY <1>1, <1>2, HandsGoOn
<1>6. Shape' BY <1>1, <1>2, <1>3, <1>5 DEF Shape, TypeOK, GoesOn
<1> QED BY <1>1, <1>4, <1>6, StillAudit DEF Good

LEMMA SubscriptionGood ==
    ASSUME Shape, NEW s \in Subscriptions, NEW enabled \in BOOLEAN,
           Register(s) \/ SetEnabled(s, enabled)
    PROVE  Good
<1>1. UNCHANGED <<delivery, written, audit, wants, dispatcher, operator, got,
                  again, crashes>>
  BY DEF Register, SetEnabled
<1>2. operations' \in Nat BY DEF Register, SetEnabled, Operates, Shape, TypeOK
<1>t. sub \in [Subscriptions -> SubscriptionRow] /\ sub[s] \in SubscriptionRow
  BY DEF Shape, TypeOK
<1>3. /\ sub' \in [Subscriptions -> SubscriptionRow]
      /\ \A t \in Subscriptions :
            /\ sub'[t].parked = sub[t].parked
            /\ sub'[t].is = "gone" <=> sub[t].is = "gone"
  <2>1. CASE Register(s)
    <3> DEFINE row == [sub[s] EXCEPT !.is = "live", !.enabled = TRUE]
    <3>1. /\ row \in SubscriptionRow /\ row.parked = sub[s].parked
          /\ row.is = "live" /\ sub[s].is = "new"
      BY <2>1, <1>t DEF SubscriptionRow, Register
    <3>2. sub' = [sub EXCEPT ![s] = row] BY <2>1, <1>t DEF Register
    <3> HIDE DEF row
    <3> QED BY <1>t, <3>1, <3>2
  <2>2. CASE SetEnabled(s, enabled)
    <3> DEFINE row == [sub[s] EXCEPT !.enabled = enabled]
    <3>1. row \in SubscriptionRow /\ row.parked = sub[s].parked /\ row.is = sub[s].is
      BY <1>t DEF SubscriptionRow
    <3>2. sub' = [sub EXCEPT ![s] = row] BY <2>2, <1>t DEF SetEnabled
    <3> HIDE DEF row
    <3> QED BY <1>t, <3>1, <3>2
  <2> QED BY <2>1, <2>2
<1>4. \A t \in Subscriptions : SubStep(t) BY <1>1, <1>3 DEF SubStep
<1>5. RowsStep
  BY <1>1, <1>4, StillRows, StillHolds DEF RowsStep, Shape, TypeOK
<1>6. Shape' BY <1>1, <1>2, <1>3, HandsStill DEF Shape, TypeOK
<1> QED BY <1>1, <1>5, <1>6, StillAudit DEF Good

LEMMA AskingGood ==
    ASSUME Shape, NEW p \in Operators,
           \/ \E s \in Subscriptions, e \in Events : Redeliver(p, s, e)
           \/ \E s \in Subscriptions : Ping(p, s)
           \/ ResendOrder(p)
    PROVE  Good
<1>1. ASSUME NEW s \in Subscriptions, NEW e \in Events, Redeliver(p, s, e) PROVE Good
  <2> DEFINE what == [AtRest EXCEPT !.pc = "redelivering", !.sub = s, !.event = e]
  <2>1. /\ what \in OperatorState /\ what.pc = "redelivering"
        /\ what.sub = s /\ what.event = e
    BY DEF AtRest, OperatorState
  <2>2. Begins(p, what) BY <1>1 DEF Redeliver
  <2> HIDE DEF what
  <2> QED BY <2>1, <2>2, BeginsGood
<1>2. ASSUME NEW s \in Subscriptions, Ping(p, s) PROVE Good
  <2> DEFINE what == [AtRest EXCEPT !.pc = "pinging", !.sub = s]
  <2>1. what \in OperatorState /\ what.pc = "pinging" /\ what.sub = s
    BY DEF AtRest, OperatorState
  <2>2. Begins(p, what) BY <1>2 DEF Ping
  <2> HIDE DEF what
  <2> QED BY <2>1, <2>2, BeginsGood
<1>3. ASSUME NEW e \in Events, Newest(e),
             NEW missing \in SUBSET Subscriptions, NEW over \in SUBSET Subscriptions,
             Begins(p, [AtRest EXCEPT !.pc = "resending", !.event = e,
                                      !.missing = missing, !.over = over])
      PROVE  Good
  <2> DEFINE what == [AtRest EXCEPT !.pc = "resending", !.event = e,
                                    !.missing = missing, !.over = over]
  <2>1. what \in OperatorState /\ what.pc = "resending" /\ what.event = e
    BY DEF AtRest, OperatorState
  <2>2. Begins(p, what) BY <1>3
  <2>3. audit[e] = "recorded" BY <1>3 DEF Newest
  <2> HIDE DEF what
  <2> QED BY <2>1, <2>2, <2>3, BeginsGood
<1>4. ASSUME ResendOrder(p) PROVE Good
  <2>1. PICK e \in Events :
        /\ Newest(e)
        /\ Begins(p, [AtRest EXCEPT !.pc = "resending", !.event = e,
            !.missing = {s \in Live : delivery[s][e] = Absent},
            !.over = {s \in Live : delivery[s][e].state \in Redeliverable}])
    BY <1>4 DEF ResendOrder
  <2>2. /\ {s \in Live : delivery[s][e] = Absent} \in SUBSET Subscriptions
        /\ {s \in Live : delivery[s][e].state \in Redeliverable} \in SUBSET Subscriptions
    BY DEF Live
  <2> QED BY <2>1, <2>2, <1>3
<1> QED BY <1>1, <1>2, <1>4

LEMMA StutterGood ==
    ASSUME Shape, UNCHANGED vars
    PROVE  Good
<1>1. /\ UNCHANGED <<sub, delivery, written, audit, wants, dispatcher, operator, got>>
      /\ UNCHANGED <<again, operations, crashes>>
  BY DEF vars
<1>2. RowsStep
  BY <1>1, StillRows, StillHolds, StillSub DEF RowsStep, Shape, TypeOK
<1>3. Shape' BY <1>1, HandsStill DEF Shape, TypeOK
<1> QED BY <1>1, <1>2, <1>3, StillAudit DEF Good

LEMMA NextGood ==
    ASSUME Shape, Unwritten, [Next]_vars
    PROVE  Good
<1>1. ASSUME NEW e \in Events, RecordBegins(e) \/ RecordCommits(e) \/ RecordFails(e)
      PROVE  Good
  BY <1>1, RecordBeginsGood, RecordCommitsGood
<1>2. ASSUME NEW d \in Dispatchers, Claim(d) \/ Delivers(d) \/ DispatcherLost(d)
      PROVE  Good
  BY <1>2, ClaimGood, OutcomeGood, ParkGood, QuietGood DEF Delivers
<1>3. ASSUME NEW s \in Subscriptions, NEW e \in Events, LeaseExpires(s, e) \/ BackoffEnds(s, e)
      PROVE  Good
  BY <1>3, TimeGood
<1>4. ASSUME NEW s \in Subscriptions,
             \/ Register(s) \/ Resume(s) \/ Delete(s)
             \/ \E enabled \in BOOLEAN : SetEnabled(s, enabled)
      PROVE  Good
  BY <1>4, SubscriptionGood, ResumeGood, DeleteGood
<1>5. ASSUME NEW p \in Operators,
             \/ \E s \in Subscriptions, e \in Events : Redeliver(p, s, e)
             \/ \E s \in Subscriptions : Ping(p, s)
             \/ ResendOrder(p) \/ Finishes(p)
      PROVE  Good
  BY <1>5, AskingGood, RedeliverWritesGood, ResendWritesGood, PingWritesGood DEF Finishes
<1>6. CASE UNCHANGED vars BY <1>6, StutterGood
<1> QED BY <1>1, <1>2, <1>3, <1>4, <1>5, <1>6 DEF Next

-----------------------------------------------------------------------------
(* The theorems. *)

LEMMA InitRows ==
    ASSUME Init
    PROVE  SeqsGrow /\ Unwritten /\ ClaimStands /\ ParkedTogether /\ Ordered
<1>1. \A s \in Subscriptions, e \in Events :
        delivery[s][e] = Absent /\ delivery[s][e].state = "absent"
  BY FreshRows DEF Init
<1>2. \A d \in Dispatchers : dispatcher[d].pc \notin Holding
  BY DEF Init, Idle, Holding
<1>3. SeqsGrow BY <1>1, FreshRows DEF Init, SeqsGrow
<1>4. Unwritten BY <1>1, AtRestType DEF Init, Unwritten
<1>5. ClaimStands BY <1>2 DEF ClaimStands, Holds
<1>6. ParkedTogether /\ Ordered BY <1>1 DEF ParkedTogether, Ordered
<1> QED BY <1>3, <1>4, <1>5, <1>6

\* What needs nothing of the clock: the shape of the rows, that an event has
\* none before it is recorded, their places in the queue and what is parked.
Unclocked == Shape /\ Unwritten /\ SeqsGrow /\ ParkedTogether

LEMMA UnclockedHolds == Spec => []Unclocked
<1>1. Init => Unclocked BY TypeInit, InitRows DEF Unclocked
<1>2. Unclocked /\ [Next]_vars => Unclocked'
  <2> SUFFICES ASSUME Unclocked, [Next]_vars PROVE Unclocked' OBVIOUS
  <2>1. Good BY NextGood DEF Unclocked
  <2>2. Unwritten' BY <2>1, UnwrittenStep DEF Unclocked
  <2>3. SeqsGrow' BY <2>1, SeqsGrowStep DEF Unclocked, Good, Shape
  <2>4. ParkedTogether' BY <2>1, ParkedTogetherStep DEF Unclocked, Good, Shape
  <2> QED BY <2>1, <2>2, <2>3, <2>4 DEF Unclocked, Good
<1> QED BY <1>1, <1>2, PTL DEF Spec

\* The rows, the dispatchers and the operators stay within their types, and
\* whatever is under way is about a subscription and an event there are.
THEOREM ShapeHolds == Spec => []Shape
<1>1. Unclocked => Shape BY DEF Unclocked
<1> QED BY <1>1, UnclockedHolds, PTL

\* Parked rows belong to a parked subscription, however many subscriptions,
\* dispatchers and operators there are, and with leases of any length.
THEOREM ParkedTogetherHolds == Spec => []ParkedTogether
<1>1. Unclocked => ParkedTogether BY DEF Unclocked
<1> QED BY <1>1, UnclockedHolds, PTL

\* While no exchange outlives its lease, a claimed row has one owner and nothing
\* that is owed is ahead of an event in flight.
THEOREM DeliveryInvHolds ==
    ASSUME LeaseOutlivesPost
    PROVE  Spec => []DeliveryInv
<1> DEFINE Clocked == ClaimStands /\ Ordered
<1>1. Init => Clocked BY InitRows
<1>2. Unclocked /\ Clocked /\ [Next]_vars => Clocked'
  <2> SUFFICES ASSUME Unclocked, Clocked, [Next]_vars PROVE Clocked' OBVIOUS
  <2>1. Good BY NextGood DEF Unclocked
  <2>2. ClaimStands' BY <2>1, ClaimStandsStep DEF Unclocked, Good, Shape
  <2>3. Ordered' BY <2>1, OrderedStep DEF Unclocked, Good, Shape
  <2> QED BY <2>2, <2>3
<1>3. Unclocked /\ Clocked => DeliveryInv BY DEF Unclocked, Shape, DeliveryInv
<1> HIDE DEF Clocked
<1> QED BY <1>1, <1>2, <1>3, UnclockedHolds, PTL DEF Spec

\* One subscription is served in order, save what was sent again, however many
\* events, subscriptions, dispatchers and operators there are.
THEOREM InOrderHolds ==
    ASSUME LeaseOutlivesPost
    PROVE  Spec => []InOrder
<1>1. DeliveryInv => InOrder BY DEF DeliveryInv, Ordered, InOrder
<1> QED BY <1>1, DeliveryInvHolds, PTL

-----------------------------------------------------------------------------
(* The refinement.  DeliveryInv says when a dispatcher may send; what more   *)
(* the promise needs is that a row that was written has a place in the       *)
(* queue, that nothing is sent again that was never sent, and that an        *)
(* endpoint which has accepted an event has received it.                     *)

Present == \A s \in Subscriptions, e \in Events :
    delivery[s][e] # Absent =>
        delivery[s][e].state # "absent" /\ delivery[s][e].seq > 0

AgainWritten == \A s \in Subscriptions : sub[s].is # "gone" =>
    \A e \in again[s] : delivery[s][e] # Absent

AcceptedHas == \A d \in Dispatchers : dispatcher[d].pc = "accepted" =>
    dispatcher[d].event \in got[dispatcher[d].sub]

PromiseInv == DeliveryInv /\ Present /\ AgainWritten /\ AcceptedHas

LEMMA PresentStep ==
    ASSUME TypeOK, TypeOK', Present, RowsStep
    PROVE  Present'
<1> SUFFICES ASSUME NEW s \in Subscriptions, NEW e \in Events, delivery'[s][e] # Absent
             PROVE  delivery'[s][e].state # "absent" /\ delivery'[s][e].seq > 0
  BY DEF Present
<1>1. RowStep(s, e) /\ written \in Nat
  BY DEF RowsStep, TypeOK
<1>2. delivery[s][e] # Absent =>
        delivery[s][e].state # "absent" /\ delivery[s][e].seq > 0
  BY DEF Present
<1>3. CASE Stays(s, e) BY <1>2, <1>3 DEF Stays
<1>4. CASE Appears(s, e)
  <2>1. delivery'[s][e].seq \in Nat BY DEF TypeOK, DeliveryRow
  <2> QED BY <1>1, <1>4, <2>1 DEF Appears
<1>5. CASE /\ delivery[s][e] # Absent
           /\ delivery'[s][e].seq = delivery[s][e].seq
           /\ \/ Settles(s, e) \/ IsTaken(s, e) \/ Sets(s, e)
              \/ Returns(s, e) \/ Repeats(s, e)
  BY <1>2, <1>5 DEF Settles, IsTaken, Sets, Returns, Repeats
<1> QED BY <1>1, <1>3, <1>4, <1>5 DEF RowStep

\* Only an event that was delivered or given up is sent again.
AgainStep == \A t \in Subscriptions, f \in Events :
    f \in again'[t] => f \in again[t] \/ delivery[t][f].state \in Redeliverable

LEMMA AgainWrittenStep ==
    ASSUME TypeOK, TypeOK', Present, AgainWritten, RowsStep, AgainStep
    PROVE  AgainWritten'
<1> SUFFICES ASSUME NEW s \in Subscriptions, sub'[s].is # "gone",
                    NEW e \in again'[s], delivery'[s][e] = Absent
             PROVE  FALSE
  BY DEF AgainWritten
<1>1. e \in Events BY DEF TypeOK
<1>2. RowStep(s, e) /\ SubStep(s) BY <1>1 DEF RowsStep
<1>3. sub[s].is # "gone" BY <1>2 DEF SubStep
<1>4. delivery[s][e] # Absent
  <2>1. CASE e \in again[s] BY <2>1, <1>3 DEF AgainWritten
  <2>2. CASE delivery[s][e].state \in Redeliverable
    BY <2>2, FreshRows DEF Redeliverable
  <2> QED BY <1>1, <2>1, <2>2 DEF AgainStep
<1>5. delivery[s][e].state # "absent" BY <1>1, <1>4 DEF Present
<1>6. delivery'[s][e].state = "absent" BY FreshRows
<1> QED
  BY <1>2, <1>4, <1>5, <1>6
     DEF RowStep, Stays, Appears, Settles, IsTaken, Sets, Returns, Repeats

LEMMA NextAgain ==
    ASSUME Shape, [Next]_vars
    PROVE  AgainStep
<1>1. CASE again' = again BY <1>1 DEF AgainStep
<1>2. ASSUME NEW e \in Events, NEW those \in SUBSET Subscriptions, SentAgain(those, e)
      PROVE  AgainStep
  BY <1>2 DEF AgainStep, SentAgain, Shape, TypeOK
<1>3. ASSUME NEW p \in Operators, RedeliverWrites(p) PROVE AgainStep
  BY <1>2, <1>3 DEF RedeliverWrites, Shape, InHand
<1>4. ASSUME NEW p \in Operators, ResendWrites(p) PROVE AgainStep
  <2>1. operator[p].event \in Events /\ operator[p].over \in SUBSET Subscriptions
    BY <1>4 DEF ResendWrites, Shape, InHand, TypeOK, OperatorState
  <2>2. again' = again \/ SentAgain(operator[p].over, operator[p].event)
    BY <1>4 DEF ResendWrites
  <2> QED BY <1>1, <1>2, <2>1, <2>2
<1>5. CASE Next
  <2>1. ASSUME NEW e \in Events, RecordBegins(e) \/ RecordCommits(e) \/ RecordFails(e)
        PROVE  again' = again
    BY <2>1 DEF RecordBegins, RecordCommits, RecordFails
  <2>2. ASSUME NEW d \in Dispatchers, Claim(d) \/ Delivers(d) \/ DispatcherLost(d)
        PROVE  again' = again
    BY <2>2 DEF Claim, Delivers, DispatcherLost, Sign, Post, Delivered, RetryLater,
                GiveUp, Settled, SubscriptionSucceeded, SubscriptionFailed, rows
  <2>3. ASSUME NEW s \in Subscriptions,
               \/ \E e \in Events : LeaseExpires(s, e) \/ BackoffEnds(s, e)
               \/ Register(s) \/ Resume(s) \/ Delete(s)
               \/ \E enabled \in BOOLEAN : SetEnabled(s, enabled)
               \/ \E p \in Operators : \/ \E e \in Events : Redeliver(p, s, e)
                                       \/ Ping(p, s)
        PROVE  again' = again
    BY <2>3 DEF LeaseExpires, BackoffEnds, Register, Resume, Delete, SetEnabled,
                Redeliver, Ping, Begins, rows
  <2>4. ASSUME NEW p \in Operators, ResendOrder(p) \/ PingWrites(p)
        PROVE  again' = again
    BY <2>4 DEF ResendOrder, PingWrites, Begins, rows
  <2> QED BY <1>1, <1>3, <1>4, <1>5, <2>1, <2>2, <2>3, <2>4 DEF Next, Finishes
<1>6. CASE UNCHANGED vars BY <1>1, <1>6 DEF vars
<1> QED BY <1>5, <1>6

\* An endpoint keeps what it received, and a dispatcher hears that an event was
\* accepted from the endpoint that received it.
AcceptedStep ==
    /\ \A t \in Subscriptions : got[t] \subseteq got'[t]
    /\ \A d \in Dispatchers : dispatcher'[d].pc = "accepted" =>
        \/ dispatcher'[d] = dispatcher[d]
        \/ dispatcher'[d].event \in got'[dispatcher'[d].sub]

LEMMA AcceptedHasStep ==
    ASSUME Shape, AcceptedHas, AcceptedStep
    PROVE  AcceptedHas'
<1> SUFFICES ASSUME NEW d \in Dispatchers, dispatcher'[d].pc = "accepted"
             PROVE  dispatcher'[d].event \in got'[dispatcher'[d].sub]
  BY DEF AcceptedHas
<1>1. CASE dispatcher'[d] = dispatcher[d]
  <2>1. dispatcher[d].event \in got[dispatcher[d].sub]
    BY <1>1 DEF AcceptedHas
  <2>2. dispatcher[d].sub \in Subscriptions
    BY <1>1 DEF Shape, InHand
  <2> QED BY <1>1, <2>1, <2>2 DEF AcceptedStep
<1>2. CASE dispatcher'[d] # dispatcher[d]
  BY <1>2 DEF AcceptedStep
<1> QED BY <1>1, <1>2

LEMMA PostAccepted ==
    ASSUME Shape, NEW d \in Dispatchers, Post(d)
    PROVE  AcceptedStep
<1> DEFINE s == dispatcher[d].sub
           e == dispatcher[d].event
           has == [got EXCEPT ![s] = got[s] \cup {e}]
<1>1. /\ s \in Subscriptions /\ e \in Events
      /\ got \in [Subscriptions -> SUBSET Events]
      /\ dispatcher \in [Dispatchers -> DispatcherState]
  BY DEF Post, Shape, InHand, TypeOK
<1>2. \/ got' = has /\ Step(d, "accepted")
      \/ got' \in {got, has} /\ Step(d, "refused")
  BY DEF Post
<1>3. /\ \A t \in Subscriptions : got[t] \subseteq has[t]
      /\ e \in has[s]
  BY <1>1
<1> HIDE DEF has
<1>4. CASE got' = has /\ Step(d, "accepted")
  <2>1. /\ dispatcher'[d].sub = s /\ dispatcher'[d].event = e
        /\ \A c \in Dispatchers : c # d => dispatcher'[c] = dispatcher[c]
    BY <1>1, <1>4, StepAt DEF Holding
  <2> QED BY <1>3, <1>4, <2>1 DEF AcceptedStep
<1>5. CASE got' \in {got, has} /\ Step(d, "refused")
  <2>1. /\ dispatcher'[d].pc = "refused"
        /\ \A c \in Dispatchers : c # d => dispatcher'[c] = dispatcher[c]
    BY <1>1, <1>5, StepAt DEF Holding
  <2> QED BY <1>3, <1>5, <2>1 DEF AcceptedStep
<1> QED BY <1>2, <1>4, <1>5

LEMMA NextAccepted ==
    ASSUME Shape, [Next]_vars
    PROVE  AcceptedStep
<1>t. dispatcher \in [Dispatchers -> DispatcherState] BY DEF Shape, TypeOK
<1>1. CASE UNCHANGED <<dispatcher, got>> BY <1>1 DEF AcceptedStep
<1>2. ASSUME NEW d \in Dispatchers, got' = got, Rests(d) PROVE AcceptedStep
  BY <1>2, <1>t, RestsAt DEF AcceptedStep
<1>3. ASSUME NEW d \in Dispatchers, NEW pc \in {"signed", "succeeded", "exhausted"},
             got' = got, Step(d, pc)
      PROVE  AcceptedStep
  <2>1. pc \in {"idle"} \cup Holding \cup Telling BY DEF Holding, Telling
  <2> QED BY <1>3, <1>t, <2>1, StepAt DEF AcceptedStep
<1>4. ASSUME NEW d \in Dispatchers, Claim(d) \/ Delivers(d) \/ DispatcherLost(d)
      PROVE  AcceptedStep
  <2>1. CASE Claim(d)
    <3>1. /\ dispatcher'[d].pc = "claimed" /\ got' = got
          /\ \A c \in Dispatchers : c # d => dispatcher'[c] = dispatcher[c]
      BY <2>1, ClaimEffect
    <3> QED BY <3>1 DEF AcceptedStep
  <2>2. CASE Post(d) BY <2>2, PostAccepted
  <2>3. CASE Sign(d) BY <2>3, <1>2, <1>3 DEF Sign
  <2>4. CASE Delivered(d) \/ RetryLater(d) \/ GiveUp(d)
    BY <2>4, <1>2, <1>3 DEF Delivered, RetryLater, GiveUp, Settled
  <2>5. CASE SubscriptionSucceeded(d) \/ SubscriptionFailed(d) \/ DispatcherLost(d)
    BY <2>5, <1>2 DEF SubscriptionSucceeded, SubscriptionFailed, DispatcherLost
  <2> QED BY <1>4, <2>1, <2>2, <2>3, <2>4, <2>5 DEF Delivers
<1>5. CASE Next
  <2>1. ASSUME NEW e \in Events, RecordBegins(e) \/ RecordCommits(e) \/ RecordFails(e)
        PROVE  UNCHANGED <<dispatcher, got>>
    BY <2>1 DEF RecordBegins, RecordCommits, RecordFails
  <2>2. ASSUME NEW s \in Subscriptions,
               \/ \E e \in Events : LeaseExpires(s, e) \/ BackoffEnds(s, e)
               \/ Register(s) \/ Resume(s) \/ Delete(s)
               \/ \E enabled \in BOOLEAN : SetEnabled(s, enabled)
               \/ \E p \in Operators : \/ \E e \in Events : Redeliver(p, s, e)
                                       \/ Ping(p, s)
        PROVE  UNCHANGED <<dispatcher, got>>
    BY <2>2 DEF LeaseExpires, BackoffEnds, Register, Resume, Delete, SetEnabled,
                Redeliver, Ping, Begins
  <2>3. ASSUME NEW p \in Operators, ResendOrder(p) \/ Finishes(p)
        PROVE  UNCHANGED <<dispatcher, got>>
    BY <2>3 DEF ResendOrder, Finishes, RedeliverWrites, ResendWrites, PingWrites, Begins
  <2> QED BY <1>1, <1>4, <1>5, <2>1, <2>2, <2>3 DEF Next
<1>6. CASE UNCHANGED vars BY <1>1, <1>6 DEF vars
<1> QED BY <1>5, <1>6

LEMMA PromiseInvHolds ==
    ASSUME LeaseOutlivesPost
    PROVE  Spec => []PromiseInv
<1> DEFINE More == Present /\ AgainWritten /\ AcceptedHas
<1>1. Init => More
  BY FreshRows DEF Init, Idle, Present, AgainWritten, AcceptedHas
<1>2. DeliveryInv /\ More /\ [Next]_vars => More'
  <2> SUFFICES ASSUME DeliveryInv, More, [Next]_vars PROVE More' OBVIOUS
  <2>1. Good BY NextGood DEF DeliveryInv, Shape
  <2>2. Present' BY <2>1, PresentStep DEF DeliveryInv, Good, Shape
  <2>3. AgainWritten'
    BY <2>1, NextAgain, AgainWrittenStep DEF DeliveryInv, Good, Shape
  <2>4. AcceptedHas' BY NextAccepted, AcceptedHasStep DEF DeliveryInv, Shape
  <2> QED BY <2>2, <2>3, <2>4
<1>3. DeliveryInv /\ More => PromiseInv BY DEF PromiseInv
<1> HIDE DEF More
<1> QED BY <1>1, <1>2, <1>3, DeliveryInvHolds, PTL DEF Spec

-----------------------------------------------------------------------------
(* Each step is a step of the promise, or none.                              *)

Statuses == [s \in Subscriptions |-> [e \in Events |-> StatusOf(s, e)]]
Places == [s \in Subscriptions |-> [e \in Events |-> Before(s, e)]]

StillOwed == {"pending", "delivering", "parked"}

\* What an endpoint can tell is as it was.
Kept ==
    /\ got' = got /\ again' = again
    /\ \A t \in Subscriptions : sub'[t].is = "gone" <=> sub[t].is = "gone"
    /\ \A t \in Subscriptions, f \in Events :
        /\ delivery'[t][f].seq = delivery[t][f].seq
        /\ \/ delivery'[t][f].state = delivery[t][f].state
           \/ {delivery'[t][f].state, delivery[t][f].state} \subseteq StillOwed

LEMMA KeptMaps ==
    ASSUME Kept
    PROVE  UNCHANGED Promise!vars
<1>1. ASSUME NEW t \in Subscriptions, NEW f \in Events
      PROVE  StatusOf(t, f)' = StatusOf(t, f) /\ Before(t, f)' = Before(t, f)
  <2>1. /\ sub'[t].is = "gone" <=> sub[t].is = "gone"
        /\ again'[t] = again[t]
        /\ \/ delivery'[t][f].state = delivery[t][f].state
           \/ {delivery'[t][f].state, delivery[t][f].state} \subseteq StillOwed
    BY DEF Kept
  <2>2. StatusOf(t, f)' = StatusOf(t, f)
    BY <2>1 DEF StatusOf, StillOwed, Redeliverable
  <2>3. Before(t, f)' = Before(t, f)
    BY DEF Kept, Before
  <2> QED BY <2>2, <2>3
<1>2. Statuses' = Statuses /\ Places' = Places
  BY <1>1 DEF Statuses, Places
<1> QED BY <1>2 DEF Kept, Promise!vars, Statuses, Places

\* What the promise says of an event that is owed.
LEMMA OwedStatus ==
    ASSUME SeqsGrow, NEW s \in Subscriptions, NEW e \in Events,
           delivery[s][e].state \in StillOwed
    PROVE  /\ sub[s].is # "gone"
           /\ StatusOf(s, e) = IF e \in again[s] THEN "again" ELSE "owed"
<1>1. sub[s].is # "gone"
  BY FreshRows DEF SeqsGrow, StillOwed
<1> QED BY <1>1 DEF StatusOf, StillOwed, Redeliverable

\* The row of a dispatcher that believes it owns one.
LEMMA Owned ==
    ASSUME DeliveryInv, NEW d \in Dispatchers, dispatcher[d].pc \in Holding
    PROVE  LET s == dispatcher[d].sub
               e == dispatcher[d].event
           IN  /\ s \in Subscriptions /\ e \in Events
               /\ \/ sub[s].is = "gone" /\ delivery[s][e] = Absent
                  \/ delivery[s][e].state = "delivering" /\ sub[s].is # "gone"
<1> DEFINE s == dispatcher[d].sub
           e == dispatcher[d].event
<1>1. s \in Subscriptions /\ e \in Events
  BY DEF DeliveryInv, InHand, Holding
<1>2. Holds(d, s, e) BY DEF Holds
<1>3. \/ sub[s].is = "gone"
      \/ delivery[s][e].state = "delivering"
  BY <1>1, <1>2 DEF DeliveryInv, ClaimStands
<1>4. sub[s].is = "gone" => delivery[s][e] = Absent
  BY <1>1 DEF DeliveryInv, SeqsGrow
<1> QED BY <1>1, <1>3, <1>4

LEMMA PostMaps ==
    ASSUME DeliveryInv, NEW d \in Dispatchers, Post(d)
    PROVE  [Promise!Next]_(Promise!vars)
<1> DEFINE s == dispatcher[d].sub
           e == dispatcher[d].event
           has == [got EXCEPT ![s] = got[s] \cup {e}]
<1>1. /\ s \in Subscriptions /\ e \in Events
      /\ \/ sub[s].is = "gone" /\ delivery[s][e] = Absent
         \/ delivery[s][e].state = "delivering" /\ sub[s].is # "gone"
  BY Owned DEF Post, Holding
<1>2. /\ got' \in {got, has}
      /\ UNCHANGED <<sub, delivery, again>>
  BY DEF Post, rows
<1>3. CASE got' = got
  <2>1. Kept BY <1>2, <1>3 DEF Kept
  <2> QED BY <2>1, KeptMaps
<1>4. CASE got' = has
  <2>1. Statuses' = Statuses /\ Places' = Places
    BY <1>2 DEF Statuses, Places, StatusOf, Before
  <2>2. \/ /\ StatusOf(s, e) \in {"owed", "again"}
           /\ \A f \in Before(s, e) : StatusOf(s, f) # "owed"
        \/ StatusOf(s, e) = "gone"
    <3>1. CASE sub[s].is = "gone" BY <3>1 DEF StatusOf
    <3>2. CASE delivery[s][e].state = "delivering" /\ sub[s].is # "gone"
      <4>1. StatusOf(s, e) \in {"owed", "again"}
        BY <1>1, <3>2, OwedStatus DEF DeliveryInv, StillOwed
      <4>2. ASSUME NEW f \in Before(s, e), StatusOf(s, f) = "owed" PROVE FALSE
        <5>1. f \in Events /\ delivery[s][f].seq < delivery[s][e].seq
          BY DEF Before
        <5>2. delivery[s][f].state \in RowStates
          BY <1>1, <5>1 DEF DeliveryInv, TypeOK, DeliveryRow
        <5>3. delivery[s][f].state \in Owing \cup {"parked"} /\ f \notin again[s]
          BY <3>2, <4>2, <5>2 DEF StatusOf, RowStates, Redeliverable, Owing
        <5> QED BY <1>1, <3>2, <5>1, <5>3 DEF DeliveryInv, Ordered
      <4> QED BY <4>1, <4>2
    <3> QED BY <1>1, <3>1, <3>2
  <2>3. /\ Statuses[s][e] = StatusOf(s, e) /\ Places[s][e] = Before(s, e)
        /\ \A f \in Before(s, e) : Statuses[s][f] = StatusOf(s, f)
    BY <1>1 DEF Statuses, Places, Before
  <2> HIDE DEF s, e
  <2>4. Promise!Receive(s, e)
    BY <1>4, <2>1, <2>2, <2>3 DEF Promise!Receive, Promise!Owed, Statuses, Places, has
  <2> QED BY <1>1, <2>4 DEF Promise!Next
<1> QED BY <1>2, <1>3, <1>4

\* One event is settled, and nothing else.
LEMMA StatusWritten ==
    ASSUME NEW s \in Subscriptions, NEW e \in Events, NEW how,
           \A t \in Subscriptions, f \in Events :
               StatusOf(t, f)' = IF t = s /\ f = e THEN how ELSE StatusOf(t, f)
    PROVE  Statuses' = [Statuses EXCEPT ![s][e] = how]
<1>1. Statuses' = [t \in Subscriptions |-> [f \in Events |->
            IF t = s /\ f = e THEN how ELSE StatusOf(t, f)]]
  BY DEF Statuses
<1> QED BY <1>1 DEF Statuses

LEMMA SettleMaps ==
    ASSUME DeliveryInv, AcceptedHas, NEW d \in Dispatchers, Delivered(d) \/ GiveUp(d)
    PROVE  [Promise!Next]_(Promise!vars)
<1> DEFINE s == dispatcher[d].sub
           e == dispatcher[d].event
<1>p. dispatcher[d].pc \in Holding /\ dispatcher[d].pc # "idle"
  BY DEF Delivered, GiveUp, Holding
<1>1. /\ s \in Subscriptions /\ e \in Events
      /\ \/ sub[s].is = "gone" /\ delivery[s][e] = Absent
         \/ delivery[s][e].state = "delivering" /\ sub[s].is # "gone"
  BY <1>p, Owned
<1>2. PICK how \in {"delivered", "failed"} :
        /\ Settled(d, Over(Its(d), how))
        /\ how = "delivered" => e \in got[s]
  BY DEF Delivered, GiveUp, AcceptedHas
<1>3. Shape BY DEF DeliveryInv, Shape
<1>4. /\ Over(Its(d), how) \in DeliveryRow
      /\ Over(Its(d), how).seq = delivery[s][e].seq
      /\ Over(Its(d), how).state = how
  <2>1. delivery[s][e] \in DeliveryRow BY <1>1 DEF DeliveryInv, TypeOK
  <2>2. how \in RowStates BY DEF RowStates
  <2> QED BY <2>1, <2>2, RowOps DEF Its
<1>5. \A t \in Subscriptions, f \in Events :
        delivery'[t][f] = IF t = s /\ f = e /\ delivery[t][f] # Absent
                          THEN Over(Its(d), how) ELSE delivery[t][f]
  BY <1>p, <1>2, <1>3, <1>4, SettledEffect
<1>6. UNCHANGED <<sub, again, got>> BY <1>2 DEF Settled
<1> HIDE DEF s, e
<1>7. CASE delivery[s][e] = Absent
  <2>1. Kept BY <1>5, <1>6, <1>7 DEF Kept
  <2> QED BY <2>1, KeptMaps
<1>8. CASE delivery[s][e].state = "delivering" /\ sub[s].is # "gone"
  <2>1. delivery[s][e] # Absent BY <1>8, FreshRows
  <2>2. ASSUME NEW t \in Subscriptions, NEW f \in Events
        PROVE  /\ delivery'[t][f].seq = delivery[t][f].seq
               /\ StatusOf(t, f)' = IF t = s /\ f = e THEN how ELSE StatusOf(t, f)
    <3>1. CASE t = s /\ f = e
      <4>1. delivery'[t][f].seq = delivery[t][f].seq /\ delivery'[t][f].state = how
        BY <3>1, <1>4, <1>5, <2>1
      <4> QED BY <3>1, <4>1, <1>6, <1>8 DEF StatusOf, Redeliverable
    <3>2. CASE ~(t = s /\ f = e)
      <4>1. delivery'[t][f] = delivery[t][f] BY <3>2, <1>5
      <4> QED BY <3>2, <4>1, <1>6 DEF StatusOf
    <3> QED BY <3>1, <3>2
  <2>3. Statuses' = [Statuses EXCEPT ![s][e] = how]
    BY <1>1, <2>2, StatusWritten
  <2>4. Places' = Places
    BY <2>2 DEF Places, Before
  <2>5. Statuses[s][e] \in {"owed", "again"}
    BY <1>1, <1>8, OwedStatus DEF DeliveryInv, StillOwed, Statuses
  <2>6. Promise!Settle(s, e, how)
    BY <1>2, <1>6, <2>3, <2>4, <2>5 DEF Promise!Settle, Promise!Owed, Statuses, Places, s, e
  <2> QED BY <1>1, <2>6 DEF Promise!Next
<1> QED BY <1>1, <1>7, <1>8 DEF s, e

LEMMA DeleteMaps ==
    ASSUME Shape, NEW s \in Subscriptions, Delete(s)
    PROVE  Promise!Next
<1>1. /\ sub'[s].is = "gone"
      /\ \A t \in Subscriptions : t # s => sub'[t] = sub[t]
      /\ \A t \in Subscriptions, f \in Events :
            delivery'[t][f] = IF t = s THEN Absent ELSE delivery[t][f]
      /\ UNCHANGED <<again, got>>
  BY DeleteEffect
<1>2. \A t \in Subscriptions, f \in Events :
        /\ StatusOf(t, f)' = IF t = s THEN "gone" ELSE StatusOf(t, f)
        /\ Before(t, f)' = IF t = s THEN {} ELSE Before(t, f)
  BY <1>1, FreshRows DEF StatusOf, Before
<1>3. /\ Statuses' = [Statuses EXCEPT ![s] = [e \in Events |-> "gone"]]
      /\ Places' = [Places EXCEPT ![s] = [e \in Events |-> {}]]
  BY <1>2 DEF Statuses, Places
<1>4. Promise!Drop(s)
  BY <1>1, <1>3 DEF Promise!Drop, Statuses, Places
<1> QED BY <1>4 DEF Promise!Next

\* An insert, row by row.
LEMMA InsertedAt ==
    ASSUME NEW table \in Rows, written \in Nat, NEW missing \in SUBSET Subscriptions,
           NEW e \in Events
    PROVE  /\ \A t \in missing :
                /\ Inserted(table, missing, e)[t][e] \in DeliveryRow
                /\ Inserted(table, missing, e)[t][e].state = "pending"
                /\ Inserted(table, missing, e)[t][e].seq > written
           /\ \A t \in Subscriptions, f \in Events : ~(t \in missing /\ f = e) =>
                Inserted(table, missing, e)[t][f] = table[t][f]
<1> DEFINE result == Inserted(table, missing, e)
<1>1. \A t \in Subscriptions, f \in Events :
            IF t \in missing /\ f = e
            THEN /\ result[t][f] \in DeliveryRow
                 /\ result[t][f].state = "pending"
                 /\ result[t][f].seq > written
                 /\ result[t][f].seq <= written + Cardinality(missing)
            ELSE result[t][f] = table[t][f]
  BY InsertedRows
<1> HIDE DEF result
<1>2. \A t \in missing : /\ result[t][e] \in DeliveryRow
                        /\ result[t][e].state = "pending"
                        /\ result[t][e].seq > written
  BY <1>1
<1>3. \A t \in Subscriptions, f \in Events :
        ~(t \in missing /\ f = e) => result[t][f] = table[t][f]
  BY <1>1
<1> QED BY <1>2, <1>3 DEF result

\* Rows appear behind every row there is, and rows that were over come back.
LEMMA OwesMaps ==
    ASSUME Shape, SeqsGrow, Present, AgainWritten, NEW e \in Events,
           NEW missing \in SUBSET Subscriptions, NEW those \in SUBSET Subscriptions,
           \A s \in missing : sub[s].is = "live" /\ delivery[s][e] = Absent,
           delivery' = Inserted(Requeue(delivery, those, e), missing, e),
           SentAgain(those, e), UNCHANGED <<sub, got>>
    PROVE  Promise!Next
<1> DEFINE middle == Requeue(delivery, those, e)
           stale == {t \in those : delivery[t][e].state \in Redeliverable}
<1>1. /\ delivery \in Rows /\ written \in Nat /\ again \in [Subscriptions -> SUBSET Events]
  BY DEF Shape, TypeOK, Rows
<1>2. /\ middle \in Rows
      /\ \A t \in Subscriptions, f \in Events : middle[t][f] =
            IF t \in those /\ f = e /\ delivery[t][f].state \in Redeliverable
            THEN Requeued(delivery[t][f]) ELSE delivery[t][f]
  BY <1>1, RequeueRows
<1>d. delivery' = Inserted(middle, missing, e) OBVIOUS
<1> HIDE DEF middle
<1>3. /\ \A t \in missing : /\ delivery'[t][e] \in DeliveryRow
                           /\ delivery'[t][e].state = "pending"
                           /\ delivery'[t][e].seq > written
      /\ \A t \in Subscriptions, f \in Events :
            ~(t \in missing /\ f = e) => delivery'[t][f] = middle[t][f]
  <2>1. middle \in Rows /\ written \in Nat BY <1>1, <1>2
  <2>2. /\ \A t \in missing :
                /\ Inserted(middle, missing, e)[t][e] \in DeliveryRow
                /\ Inserted(middle, missing, e)[t][e].state = "pending"
                /\ Inserted(middle, missing, e)[t][e].seq > written
        /\ \A t \in Subscriptions, f \in Events : ~(t \in missing /\ f = e) =>
                Inserted(middle, missing, e)[t][f] = middle[t][f]
    BY <2>1, InsertedAt, Zenon
  <2> QED BY <1>d, <2>2, Zenon
<1>n. \A t \in missing : delivery'[t][e].seq \in Nat
  BY <1>3 DEF DeliveryRow
<1>4. \A t \in Subscriptions :
        again'[t] = IF t \in stale THEN again[t] \cup {e} ELSE again[t]
  BY <1>1 DEF SentAgain
<1>5. missing \cap stale = {} /\ stale \in SUBSET Subscriptions
  BY FreshRows DEF Redeliverable
<1>6. \A t \in stale : /\ sub[t].is # "gone" /\ t \in those
                       /\ delivery[t][e].state \in Redeliverable
  BY FreshRows DEF SeqsGrow, Redeliverable
<1>7. \A t \in Subscriptions, f \in Events :
        /\ delivery[t][f] \in DeliveryRow /\ delivery[t][f].seq \in Nat
        /\ delivery[t][f].seq <= written
        /\ Requeued(delivery[t][f]).seq = delivery[t][f].seq
        /\ Requeued(delivery[t][f]).state = "pending"
  BY <1>1, RowOps DEF Rows, SeqsGrow, DeliveryRow
<1>8. \A t \in Subscriptions, f \in Events :
        /\ t \in those /\ f = e /\ delivery[t][f].state \in Redeliverable
               <=> f = e /\ t \in stale
  OBVIOUS
<1>9. \A t \in Subscriptions, f \in Events : ~(t \in missing /\ f = e) =>
        /\ delivery'[t][f].seq = delivery[t][f].seq
        /\ delivery'[t][f].state =
            IF f = e /\ t \in stale THEN "pending" ELSE delivery[t][f].state
  BY <1>2, <1>3, <1>7, <1>8
<1> HIDE DEF stale
<1>10. ASSUME NEW t \in Subscriptions, NEW f \in Events
       PROVE  StatusOf(t, f)' = IF f # e THEN StatusOf(t, f)
                                ELSE IF t \in missing THEN "owed"
                                ELSE IF t \in stale THEN "again" ELSE StatusOf(t, f)
  <2>1. CASE t \in missing /\ f = e
    <3>1. sub'[t].is = "live" /\ delivery'[t][f].state = "pending"
      BY <1>3, <2>1
    <3>2. e \notin again'[t]
      BY <1>4, <1>5, <2>1 DEF AgainWritten
    <3> QED BY <2>1, <3>1, <3>2 DEF StatusOf, Redeliverable
  <2>2. CASE f = e /\ t \in stale
    <3>1. sub'[t].is # "gone" /\ delivery'[t][f].state = "pending" /\ e \in again'[t]
      BY <1>4, <1>5, <1>6, <1>9, <2>2
    <3> QED BY <1>5, <2>2, <3>1 DEF StatusOf, Redeliverable
  <2>3. CASE ~(t \in missing /\ f = e) /\ ~(f = e /\ t \in stale)
    <3>1. /\ sub'[t] = sub[t] /\ delivery'[t][f].state = delivery[t][f].state
          /\ f \in again'[t] <=> f \in again[t]
      BY <1>4, <1>9, <2>3
    <3> QED BY <2>3, <3>1 DEF StatusOf
  <2> QED BY <2>1, <2>2, <2>3
<1>11. ASSUME NEW t \in missing, NEW g \in Events
       PROVE  StatusOf(t, g) # "none" <=> delivery[t][g].seq > 0
  <2>1. sub[t].is = "live" OBVIOUS
  <2>2. CASE delivery[t][g] = Absent
    BY <2>1, <2>2, FreshRows DEF StatusOf, Redeliverable
  <2>3. CASE delivery[t][g] # Absent
    <3>1. delivery[t][g].state # "absent" /\ delivery[t][g].seq > 0
      BY <2>3 DEF Present
    <3> QED BY <2>1, <3>1 DEF StatusOf, Redeliverable
  <2> QED BY <2>2, <2>3
<1>12. ASSUME NEW t \in Subscriptions, NEW f \in Events
       PROVE  Before(t, f)' = IF t \in missing /\ f = e
                              THEN {g \in Events : StatusOf(t, g) # "none"}
                              ELSE Before(t, f)
  <2>1. Before(t, f)' = {g \in Events : 0 < delivery'[t][g].seq
                                        /\ delivery'[t][g].seq < delivery'[t][f].seq}
    BY DEF Before
  <2>2. CASE t \notin missing
    BY <1>9, <2>2 DEF Before
  <2>3. CASE t \in missing
    <3>1. delivery[t][e].seq = 0 BY <2>3, FreshRows
    <3>2. delivery'[t][e].seq > written /\ delivery'[t][e].seq \in Nat
      BY <1>3, <1>n, <2>3
    <3>3. \A g \in Events : g # e => delivery'[t][g].seq = delivery[t][g].seq
      BY <1>9
    <3>4. CASE f = e
      <4>1. \A g \in Events : 0 < delivery'[t][g].seq
                              /\ delivery'[t][g].seq < delivery'[t][f].seq
                                  <=> StatusOf(t, g) # "none"
        BY <1>1, <1>7, <1>11, <2>3, <3>1, <3>2, <3>3, <3>4
      <4> QED BY <2>1, <2>3, <3>4, <4>1
    <3>5. CASE f # e
      <4>1. \A g \in Events : 0 < delivery'[t][g].seq
                              /\ delivery'[t][g].seq < delivery'[t][f].seq
                <=> 0 < delivery[t][g].seq /\ delivery[t][g].seq < delivery[t][f].seq
        BY <1>1, <1>7, <3>1, <3>2, <3>3, <3>5
      <4> QED BY <2>1, <3>5, <4>1 DEF Before
    <3> QED BY <3>4, <3>5
  <2> QED BY <2>2, <2>3
<1>13. Statuses' = [t \in Subscriptions |->
            [Statuses[t] EXCEPT ![e] = IF t \in missing THEN "owed"
                                       ELSE IF t \in stale THEN "again" ELSE @]]
  BY <1>10 DEF Statuses
<1>14. Places' = [t \in Subscriptions |->
            IF t \in missing
            THEN [Places[t] EXCEPT ![e] = {f \in Events : Statuses[t][f] # "none"}]
            ELSE Places[t]]
  BY <1>12 DEF Places, Statuses
<1>15. /\ \A t \in missing : Statuses[t][e] = "none"
       /\ \A t \in stale : Statuses[t][e] \in {"delivered", "failed"}
  <2>1. \A t \in missing : StatusOf(t, e) = "none"
    BY FreshRows DEF StatusOf, Redeliverable
  <2>2. \A t \in stale : StatusOf(t, e) \in {"delivered", "failed"}
    BY <1>6 DEF StatusOf, Redeliverable
  <2> QED BY <1>5, <2>1, <2>2 DEF Statuses
<1>16. Promise!Owe(missing, stale, e)
  BY <1>5, <1>13, <1>14, <1>15 DEF Promise!Owe, Statuses, Places
<1> QED BY <1>5, <1>16 DEF Promise!Next

LEMMA RecordMaps ==
    ASSUME PromiseInv, NEW e \in Events, RecordCommits(e)
    PROVE  Promise!Next
<1>1. Shape /\ SeqsGrow /\ Unwritten /\ Present /\ AgainWritten
  BY DEF PromiseInv, DeliveryInv, Shape
<1>2. wants[e] \in SUBSET Subscriptions BY <1>1 DEF Shape, TypeOK
<1>3. \A s \in wants[e] : sub[s].is = "live" /\ delivery[s][e] = Absent
  BY <1>1, <1>2 DEF RecordCommits, Unwritten
<1>4. Requeue(delivery, {}, e) = delivery /\ SentAgain({}, e)
  BY <1>1, RequeueNone DEF RecordCommits
<1>5. /\ delivery' = Inserted(Requeue(delivery, {}, e), wants[e], e)
      /\ UNCHANGED <<sub, got>>
  BY <1>4 DEF RecordCommits
<1> QED BY <1>1, <1>2, <1>3, <1>4, <1>5, OwesMaps

LEMMA FinishesMaps ==
    ASSUME PromiseInv, NEW p \in Operators, Finishes(p)
    PROVE  [Promise!Next]_(Promise!vars)
<1>1. Shape /\ SeqsGrow /\ Unwritten /\ Present /\ AgainWritten
  BY DEF PromiseInv, DeliveryInv, Shape
<1>s. UNCHANGED <<sub, got>>
  BY DEF Finishes, RedeliverWrites, ResendWrites, PingWrites
<1>k. ASSUME UNCHANGED <<delivery, again>> PROVE UNCHANGED Promise!vars
  BY <1>s, <1>k, KeptMaps DEF Kept
<1>2. CASE RedeliverWrites(p)
  <2> DEFINE e == operator[p].event
             those == {operator[p].sub}
  <2>1. e \in Events /\ those \in SUBSET Subscriptions
    BY <1>1, <1>2 DEF Shape, InHand, RedeliverWrites
  <2>2. delivery' = Requeue(delivery, those, e) /\ SentAgain(those, e)
    BY <1>2 DEF RedeliverWrites
  <2> HIDE DEF e, those
  <2>3. delivery' = Inserted(Requeue(delivery, those, e), {}, e)
    <3>1. Requeue(delivery, those, e) \in Rows
      BY <1>1, <2>1, RequeueRows DEF Shape, TypeOK, Rows
    <3>2. Inserted(Requeue(delivery, those, e), {}, e) =
            [s \in Subscriptions |-> Requeue(delivery, those, e)[s]]
      BY DEF Inserted
    <3> QED BY <2>2, <3>1, <3>2 DEF Rows
  <2> QED BY <1>1, <1>s, <2>1, <2>2, <2>3, OwesMaps
<1>3. CASE ResendWrites(p)
  <2> DEFINE e == operator[p].event
             missing == operator[p].missing
             over == operator[p].over
             commits == \A s \in missing : sub[s].is = "live" /\ delivery[s][e] = Absent
  <2>1. e \in Events /\ missing \in SUBSET Subscriptions /\ over \in SUBSET Subscriptions
    BY <1>1, <1>3 DEF Shape, TypeOK, InHand, ResendWrites, OperatorState
  <2>2. CASE commits
    <3>1. /\ delivery' = Inserted(Requeue(delivery, over, e), missing, e)
          /\ SentAgain(over, e)
      BY <1>3, <2>2 DEF ResendWrites
    <3> HIDE DEF e, missing, over
    <3> QED BY <1>1, <1>s, <2>1, <2>2, <3>1, OwesMaps
  <2>3. CASE ~commits
    <3>1. UNCHANGED <<delivery, again>> BY <1>3, <2>3 DEF ResendWrites
    <3> QED BY <3>1, <1>k
  <2> QED BY <2>2, <2>3
<1>4. CASE PingWrites(p)
  <2> DEFINE s == operator[p].sub
  <2>1. s \in Subscriptions /\ again' = again
    BY <1>1, <1>4 DEF Shape, InHand, PingWrites
  <2>2. CASE sub[s].is = "live"
    <3>1. PICK e \in Events : IsNext(e) /\ delivery' = Inserted(delivery, {s}, e)
      BY <1>4, <2>2 DEF PingWrites
    <3> HIDE DEF s
    <3>2. \A t \in {s} : sub[t].is = "live" /\ delivery[t][e] = Absent
      BY <1>1, <2>1, <2>2, <3>1 DEF Unwritten, IsNext
    <3>3. Requeue(delivery, {}, e) = delivery /\ SentAgain({}, e)
      BY <1>1, <2>1, RequeueNone
    <3>4. delivery' = Inserted(Requeue(delivery, {}, e), {s}, e)
      BY <3>1, <3>3
    <3> QED BY <1>1, <1>s, <2>1, <3>2, <3>3, <3>4, OwesMaps
  <2>3. CASE sub[s].is # "live"
    <3>1. UNCHANGED <<delivery, again>> BY <1>4, <2>1, <2>3 DEF PingWrites
    <3> QED BY <3>1, <1>k
  <2> QED BY <2>2, <2>3
<1> QED BY <1>2, <1>3, <1>4 DEF Finishes

\* Everything else the endpoints cannot tell.
LEMMA RetryKept ==
    ASSUME DeliveryInv, NEW d \in Dispatchers, RetryLater(d)
    PROVE  Kept
<1> DEFINE s == dispatcher[d].sub
           e == dispatcher[d].event
<1>p. dispatcher[d].pc \in Holding /\ dispatcher[d].pc # "idle"
  BY DEF RetryLater, Holding
<1>1. /\ s \in Subscriptions /\ e \in Events
      /\ \/ sub[s].is = "gone" /\ delivery[s][e] = Absent
         \/ delivery[s][e].state = "delivering" /\ sub[s].is # "gone"
  BY <1>p, Owned
<1>2. Settled(d, Backed(Its(d))) BY DEF RetryLater
<1>3. Shape BY DEF DeliveryInv, Shape
<1>4. /\ Backed(Its(d)) \in DeliveryRow
      /\ Backed(Its(d)).seq = delivery[s][e].seq
      /\ Backed(Its(d)).state = "pending"
  <2>1. delivery[s][e] \in DeliveryRow BY <1>1 DEF DeliveryInv, TypeOK
  <2> QED BY <2>1, RowOps DEF Its
<1>5. \A t \in Subscriptions, f \in Events :
        delivery'[t][f] = IF t = s /\ f = e /\ delivery[t][f] # Absent
                          THEN Backed(Its(d)) ELSE delivery[t][f]
  BY <1>p, <1>2, <1>3, <1>4, SettledEffect
<1>6. UNCHANGED <<sub, again, got>> BY <1>2 DEF Settled
<1> HIDE DEF s, e
<1> QED BY <1>1, <1>4, <1>5, <1>6 DEF Kept, StillOwed

LEMMA QuietKept ==
    ASSUME Shape,
           \/ \E d \in Dispatchers : \/ Claim(d) \/ Sign(d) \/ SubscriptionSucceeded(d)
                                     \/ SubscriptionFailed(d) \/ DispatcherLost(d)
           \/ \E s \in Subscriptions, e \in Events :
                  LeaseExpires(s, e) \/ BackoffEnds(s, e)
           \/ \E s \in Subscriptions : Resume(s)
    PROVE  Kept
<1>1. ASSUME NEW d \in Dispatchers, Claim(d) PROVE Kept
  <2>1. PICK s \in Subscriptions, e \in Events :
            /\ Claimable(s, e)
            /\ \A t \in Subscriptions, f \in Events :
                delivery'[t][f] = IF t = s /\ f = e THEN Taken(delivery[t][f])
                                  ELSE delivery[t][f]
            /\ UNCHANGED <<sub, again, got>>
    BY <1>1, ClaimEffect
  <2>2. /\ Taken(delivery[s][e]).seq = delivery[s][e].seq
        /\ Taken(delivery[s][e]).state = "delivering"
    BY RowOps DEF Shape, TypeOK
  <2>3. delivery[s][e].state \in StillOwed
    BY <2>1 DEF Claimable, Due, StillOwed
  <2> QED BY <2>1, <2>2, <2>3 DEF Kept, StillOwed
<1>2. ASSUME NEW d \in Dispatchers, Sign(d) \/ DispatcherLost(d) PROVE Kept
  BY <1>2 DEF Sign, DispatcherLost, rows, Kept
<1>3. ASSUME NEW d \in Dispatchers, SubscriptionSucceeded(d) PROVE Kept
  <2> DEFINE s == dispatcher[d].sub
             cleared == [sub[s] EXCEPT !.failures = 0]
  <2>1. sub \in [Subscriptions -> SubscriptionRow] /\ s \in Subscriptions
    BY <1>3 DEF Shape, InHand, TypeOK, SubscriptionSucceeded
  <2>2. cleared.is = sub[s].is
    BY <2>1 DEF SubscriptionRow
  <2>3. /\ sub' = sub \/ sub' = [sub EXCEPT ![s] = cleared]
        /\ UNCHANGED <<delivery, again, got>>
    BY <1>3, <2>1 DEF SubscriptionSucceeded
  <2> HIDE DEF s, cleared
  <2> QED BY <2>1, <2>2, <2>3 DEF Kept
<1>4. ASSUME NEW d \in Dispatchers, SubscriptionFailed(d) PROVE Kept
  <2>1. /\ \A t \in Subscriptions : sub'[t].is = sub[t].is
        /\ \A t \in Subscriptions, f \in Events :
            \/ delivery'[t][f] = delivery[t][f]
            \/ /\ delivery[t][f].state = "pending"
               /\ delivery'[t][f].state = "parked"
               /\ delivery'[t][f].seq = delivery[t][f].seq
        /\ UNCHANGED <<again, got>>
    BY <1>4, ParkEffect
  <2> QED BY <2>1 DEF Kept, StillOwed
<1>5. ASSUME NEW s \in Subscriptions, NEW e \in Events,
             LeaseExpires(s, e) \/ BackoffEnds(s, e)
      PROVE  Kept
  BY <1>5, TimeEffect DEF Kept
<1>6. ASSUME NEW s \in Subscriptions, Resume(s) PROVE Kept
  <2>1. /\ \A t \in Subscriptions : sub'[t].is = sub[t].is
        /\ \A t \in Subscriptions, f \in Events :
            IF t = s /\ delivery[t][f].state = "parked"
            THEN /\ delivery'[t][f].state = "pending"
                 /\ delivery'[t][f].seq = delivery[t][f].seq
            ELSE delivery'[t][f] = delivery[t][f]
        /\ UNCHANGED <<again, got>>
    BY <1>6, ResumeEffect
  <2> QED BY <2>1 DEF Kept, StillOwed
<1> QED BY <1>1, <1>2, <1>3, <1>4, <1>5, <1>6

LEMMA AsideKept ==
    ASSUME Shape,
           \/ \E e \in Events : RecordBegins(e) \/ RecordFails(e)
           \/ \E s \in Subscriptions :
                  Register(s) \/ \E enabled \in BOOLEAN : SetEnabled(s, enabled)
           \/ \E p \in Operators :
                  \/ \E s \in Subscriptions, e \in Events : Redeliver(p, s, e)
                  \/ \E s \in Subscriptions : Ping(p, s)
                  \/ ResendOrder(p)
           \/ UNCHANGED vars
    PROVE  Kept
<1>1. UNCHANGED <<delivery, again, got>>
  BY DEF RecordBegins, RecordFails, Register, SetEnabled, Redeliver, Ping, ResendOrder,
         Begins, rows, vars
<1>2. ASSUME NEW s \in Subscriptions,
             Register(s) \/ \E enabled \in BOOLEAN : SetEnabled(s, enabled)
      PROVE  \A t \in Subscriptions : sub'[t].is = "gone" <=> sub[t].is = "gone"
  <2>1. sub \in [Subscriptions -> SubscriptionRow] /\ sub[s] \in SubscriptionRow
    BY DEF Shape, TypeOK
  <2>2. PICK row : /\ sub' = [sub EXCEPT ![s] = row]
                   /\ row.is = "live" /\ sub[s].is # "gone"
    <3>1. CASE Register(s)
      <4>1. [sub[s] EXCEPT !.is = "live", !.enabled = TRUE].is = "live"
        BY <2>1 DEF SubscriptionRow
      <4> QED BY <2>1, <3>1, <4>1 DEF Register
    <3>2. ASSUME NEW enabled \in BOOLEAN, SetEnabled(s, enabled)
          PROVE  \E row : /\ sub' = [sub EXCEPT ![s] = row]
                          /\ row.is = "live" /\ sub[s].is # "gone"
      <4>1. /\ [sub[s] EXCEPT !.enabled = enabled].is = sub[s].is
            /\ sub[s].is = "live"
        BY <2>1, <3>2 DEF SubscriptionRow, SetEnabled
      <4> QED BY <2>1, <3>2, <4>1 DEF SetEnabled
    <3> QED BY <1>2, <3>1, <3>2
  <2> QED BY <2>1, <2>2
<1>3. CASE sub' = sub BY <1>1, <1>3 DEF Kept
<1>4. CASE \E s \in Subscriptions :
               Register(s) \/ \E enabled \in BOOLEAN : SetEnabled(s, enabled)
  BY <1>1, <1>2, <1>4 DEF Kept
<1> QED
  BY <1>3, <1>4 DEF RecordBegins, RecordFails, Redeliver, Ping, ResendOrder,
     Begins, rows, vars

LEMMA InitPromise == Init => Promise!Init
<1> SUFFICES ASSUME Init PROVE Promise!Init OBVIOUS
<1>1. \A s \in Subscriptions, e \in Events :
        StatusOf(s, e) = "none" /\ Before(s, e) = {}
  BY FreshRows DEF Init, Unregistered, StatusOf, Before, Redeliverable
<1>2. /\ Statuses = [s \in Subscriptions |-> [e \in Events |-> "none"]]
      /\ Places = [s \in Subscriptions |-> [e \in Events |-> {}]]
  BY <1>1 DEF Statuses, Places
<1> QED BY <1>2 DEF Init, Promise!Init, Statuses, Places

LEMMA StepMaps ==
    ASSUME PromiseInv, [Next]_vars
    PROVE  [Promise!Next]_(Promise!vars)
<1>s. Shape /\ DeliveryInv /\ AcceptedHas
  BY DEF PromiseInv, DeliveryInv, Shape
<1>1. ASSUME NEW e \in Events, RecordBegins(e) \/ RecordCommits(e) \/ RecordFails(e)
      PROVE  [Promise!Next]_(Promise!vars)
  BY <1>1, <1>s, RecordMaps, AsideKept, KeptMaps
<1>2. ASSUME NEW d \in Dispatchers, Claim(d) \/ Delivers(d) \/ DispatcherLost(d)
      PROVE  [Promise!Next]_(Promise!vars)
  <2>1. CASE Post(d) BY <2>1, <1>s, PostMaps
  <2>2. CASE Delivered(d) \/ GiveUp(d) BY <2>2, <1>s, SettleMaps
  <2>3. CASE RetryLater(d) BY <2>3, <1>s, RetryKept, KeptMaps
  <2>4. CASE \/ Claim(d) \/ Sign(d) \/ SubscriptionSucceeded(d)
             \/ SubscriptionFailed(d) \/ DispatcherLost(d)
    BY <2>4, <1>s, QuietKept, KeptMaps
  <2> QED BY <1>2, <2>1, <2>2, <2>3, <2>4 DEF Delivers
<1>3. ASSUME NEW s \in Subscriptions, NEW e \in Events, LeaseExpires(s, e) \/ BackoffEnds(s, e)
      PROVE  [Promise!Next]_(Promise!vars)
  BY <1>3, <1>s, QuietKept, KeptMaps
<1>4. ASSUME NEW s \in Subscriptions,
             \/ Register(s) \/ Resume(s) \/ Delete(s)
             \/ \E enabled \in BOOLEAN : SetEnabled(s, enabled)
      PROVE  [Promise!Next]_(Promise!vars)
  BY <1>4, <1>s, QuietKept, AsideKept, DeleteMaps, KeptMaps
<1>5. ASSUME NEW p \in Operators,
             \/ \E s \in Subscriptions, e \in Events : Redeliver(p, s, e)
             \/ \E s \in Subscriptions : Ping(p, s)
             \/ ResendOrder(p) \/ Finishes(p)
      PROVE  [Promise!Next]_(Promise!vars)
  BY <1>5, <1>s, AsideKept, FinishesMaps, KeptMaps
<1>6. CASE UNCHANGED vars BY <1>6, <1>s, AsideKept, KeptMaps
<1> QED BY <1>1, <1>2, <1>3, <1>4, <1>5, <1>6 DEF Next

\* While no exchange outlives its lease, the rows, claims, parkings and repeats
\* amount to what an endpoint is promised: an event is received before it counts
\* as delivered, and is not sent while one that was owed before it still is.
THEOREM ImplementsPromiseHolds ==
    ASSUME LeaseOutlivesPost
    PROVE  Spec => ImplementsPromise
<1>1. PromiseInv /\ [Next]_vars => [Promise!Next]_(Promise!vars)
  BY StepMaps
<1> QED BY <1>1, InitPromise, PromiseInvHolds, PTL DEF Spec, ImplementsPromise, Promise!Spec

-----------------------------------------------------------------------------
(* The count.  A dispatcher gives a row up in one transaction and counts it  *)
(* in another, so what the counter holds is the rows that were given up save *)
(* those that a dispatcher is about to count; that this is a difference of   *)
(* sets needs that no two dispatchers are about to count the same row.       *)

Calm == crashes = 0 /\ operations = 0

CountingRows(s) == {dispatcher[d].event : d \in Counting(s)}

Counted(s) == RowsIn(s, "failed") \ CountingRows(s)

\* Nobody managed a subscription, sent an event again, or is about to.
Unmanaged ==
    /\ \A s \in Subscriptions : sub[s].is # "gone" /\ again[s] = {}
    /\ \A p \in Operators : operator[p].pc = "idle"

InService == \A d \in Dispatchers :
    dispatcher[d].pc # "idle" => sub[dispatcher[d].sub].is = "live"

Told == \A d \in Dispatchers :
    /\ dispatcher[d].pc = "succeeded" =>
        delivery[dispatcher[d].sub][dispatcher[d].event].state = "delivered"
    /\ dispatcher[d].pc = "exhausted" =>
        delivery[dispatcher[d].sub][dispatcher[d].event].state = "failed"

OneTells == \A c, d \in Dispatchers :
    /\ dispatcher[c].pc = "exhausted" /\ dispatcher[d].pc = "exhausted"
    /\ dispatcher[c].sub = dispatcher[d].sub
    /\ dispatcher[c].event = dispatcher[d].event
    => c = d

NewIsEmpty == \A s \in Subscriptions : sub[s].is = "new" =>
    /\ sub[s] = Unregistered
    /\ \A e \in Events : delivery[s][e] = Absent

CountStands(s) == RowsIn(s, "delivered") = {} =>
    /\ sub[s].failures = Cardinality(Counted(s))
    /\ sub[s].parked <=> sub[s].failures >= ParkAfter

CountInv == Calm =>
    /\ Unmanaged /\ InService /\ Told /\ OneTells /\ NewIsEmpty
    /\ \A s \in Subscriptions : CountStands(s)

\* What happens while nobody manages a subscription and no dispatcher is lost.
CalmStep ==
    \/ \E e \in Events : RecordBegins(e) \/ RecordCommits(e) \/ RecordFails(e)
    \/ \E d \in Dispatchers : Claim(d) \/ Delivers(d)
    \/ \E s \in Subscriptions, e \in Events : LeaseExpires(s, e) \/ BackoffEnds(s, e)
    \/ \E s \in Subscriptions : Register(s)
    \/ UNCHANGED vars

LEMMA CalmBefore ==
    ASSUME Shape, CountInv, [Next]_vars, Calm'
    PROVE  Calm /\ CalmStep
<1>t. operations \in Nat /\ crashes \in Nat BY DEF Shape, TypeOK
<1>o. ~Operates BY <1>t DEF Operates, Calm
<1>1. \A d \in Dispatchers : ~DispatcherLost(d)
  BY <1>t DEF DispatcherLost, Calm
<1>2. \A s \in Subscriptions :
        ~Resume(s) /\ ~Delete(s) /\ \A enabled \in BOOLEAN : ~SetEnabled(s, enabled)
  BY <1>o DEF Resume, Delete, SetEnabled
<1>3. \A p \in Operators, s \in Subscriptions :
        ~Ping(p, s) /\ ~ResendOrder(p) /\ \A e \in Events : ~Redeliver(p, s, e)
  BY <1>o DEF Ping, ResendOrder, Redeliver, Begins
<1>r. \A p \in Operators : ~ResendOrder(p)
  BY <1>o DEF ResendOrder, Begins
<1>4. CASE \E p \in Operators : Finishes(p)
  <2>1. Calm
    BY <1>4 DEF Finishes, RedeliverWrites, ResendWrites, PingWrites, Calm
  <2> QED
    BY <1>4, <2>1 DEF Finishes, RedeliverWrites, ResendWrites, PingWrites,
       CountInv, Unmanaged
<1>5. CASE CalmStep
  <2>1. UNCHANGED <<operations, crashes>>
    BY <1>5 DEF CalmStep, RecordBegins, RecordCommits, RecordFails, Claim, Delivers,
       Sign, Post, Delivered, RetryLater, GiveUp, Settled, SubscriptionSucceeded,
       SubscriptionFailed, LeaseExpires, BackoffEnds, Register, vars
  <2> QED BY <1>5, <2>1 DEF Calm
<1> QED BY <1>1, <1>2, <1>3, <1>r, <1>4, <1>5 DEF Next, CalmStep

\* The ledger of every endpoint is as it was, or no longer starts at its failures.
SameLedger ==
    /\ again' = again /\ operator' = operator
    /\ \A s \in Subscriptions :
        /\ sub[s].is # "gone" => sub'[s].is # "gone"
        /\ sub[s].is = "live" => sub'[s].is = "live"
        /\ \/ sub'[s].failures = sub[s].failures /\ sub'[s].parked = sub[s].parked
           \/ RowsIn(s, "delivered") # {}
        /\ sub'[s].is = "new" =>
            /\ sub'[s] = sub[s]
            /\ \A e \in Events : delivery[s][e] = Absent => delivery'[s][e] = Absent
    /\ \A s \in Subscriptions, e \in Events :
        /\ delivery'[s][e].state = "failed" <=> delivery[s][e].state = "failed"
        /\ delivery[s][e].state = "delivered" => delivery'[s][e].state = "delivered"
    /\ \A d \in Dispatchers :
        /\ dispatcher[d].pc = "exhausted" \/ dispatcher'[d].pc = "exhausted" =>
            dispatcher'[d] = dispatcher[d]
        /\ dispatcher'[d].pc = "succeeded" =>
            \/ dispatcher'[d] = dispatcher[d]
            \/ delivery'[dispatcher'[d].sub][dispatcher'[d].event].state = "delivered"
        /\ dispatcher'[d].pc # "idle" => sub'[dispatcher'[d].sub].is = "live"

LEMMA SameLedgerCounts ==
    ASSUME Shape, Shape', Calm, CountInv, SameLedger
    PROVE  CountInv'
<1>i. /\ Unmanaged /\ InService /\ Told /\ OneTells /\ NewIsEmpty
      /\ \A s \in Subscriptions : CountStands(s)
  BY DEF CountInv
<1>1. Unmanaged' BY <1>i DEF SameLedger, Unmanaged
<1>2. InService' BY DEF SameLedger, InService
<1>3. Told'
  <2> SUFFICES ASSUME NEW d \in Dispatchers
               PROVE  /\ dispatcher'[d].pc = "succeeded" =>
                          delivery'[dispatcher'[d].sub][dispatcher'[d].event].state = "delivered"
                      /\ dispatcher'[d].pc = "exhausted" =>
                          delivery'[dispatcher'[d].sub][dispatcher'[d].event].state = "failed"
    BY DEF Told
  <2>1. CASE dispatcher'[d] = dispatcher[d] /\ dispatcher[d].pc # "idle"
    <3>1. dispatcher[d].sub \in Subscriptions /\ dispatcher[d].event \in Events
      BY <2>1 DEF Shape, InHand
    <3> QED BY <1>i, <2>1, <3>1 DEF SameLedger, Told
  <2>2. CASE dispatcher'[d] # dispatcher[d]
    BY <2>2 DEF SameLedger
  <2> QED BY <2>1, <2>2
<1>4. OneTells' BY <1>i DEF SameLedger, OneTells
<1>5. NewIsEmpty'
  BY <1>i DEF SameLedger, NewIsEmpty
<1>6. ASSUME NEW s \in Subscriptions PROVE CountStands(s)'
  <2>1. /\ RowsIn(s, "failed")' = RowsIn(s, "failed")
        /\ RowsIn(s, "delivered") \subseteq RowsIn(s, "delivered")'
    BY DEF SameLedger, RowsIn
  <2>2. CountingRows(s)' = CountingRows(s)
    <3>1. Counting(s)' = Counting(s) BY DEF SameLedger, Counting
    <3>2. \A d \in Counting(s) : dispatcher'[d].event = dispatcher[d].event
      BY DEF SameLedger, Counting
    <3> QED BY <3>1, <3>2 DEF CountingRows
  <2>3. Counted(s)' = Counted(s) BY <2>1, <2>2 DEF Counted
  <2>4. CASE RowsIn(s, "delivered") # {}
    BY <2>1, <2>4 DEF CountStands
  <2>5. CASE RowsIn(s, "delivered") = {}
    <3>1. sub'[s].failures = sub[s].failures /\ sub'[s].parked = sub[s].parked
      BY <2>5 DEF SameLedger
    <3> QED BY <1>i, <2>3, <2>5, <3>1 DEF CountStands
  <2> QED BY <2>4, <2>5
<1> QED BY <1>1, <1>2, <1>3, <1>4, <1>5, <1>6 DEF CountInv

\* Steps that leave the dispatchers alone.
LEMMA AsideLedger ==
    ASSUME Shape, Unwritten, Calm, CountInv,
           \/ \E e \in Events : RecordBegins(e) \/ RecordCommits(e) \/ RecordFails(e)
           \/ \E s \in Subscriptions, e \in Events :
                  LeaseExpires(s, e) \/ BackoffEnds(s, e)
           \/ \E s \in Subscriptions : Register(s)
           \/ UNCHANGED vars
    PROVE  SameLedger
<1>i. Unmanaged /\ InService /\ NewIsEmpty BY DEF CountInv
<1>t. sub \in [Subscriptions -> SubscriptionRow] /\ delivery \in Rows
  BY DEF Shape, TypeOK, Rows
<1>a. UNCHANGED <<dispatcher, operator, again>>
  BY DEF RecordBegins, RecordCommits, RecordFails, LeaseExpires, BackoffEnds, Register, vars
<1>l. \A d \in Dispatchers : dispatcher[d].pc # "idle" =>
        dispatcher[d].sub \in Subscriptions /\ sub[dispatcher[d].sub].is = "live"
  BY <1>i DEF InService, Shape, InHand
<1>1. CASE UNCHANGED <<sub, delivery>>
  BY <1>1, <1>a, <1>l DEF SameLedger
<1>2. ASSUME NEW e \in Events, RecordCommits(e) PROVE SameLedger
  <2>1. wants[e] \in SUBSET Subscriptions BY DEF Shape, TypeOK
  <2>2. \A s \in wants[e] : sub[s].is = "live" /\ delivery[s][e] = Absent
    BY <1>2, <2>1 DEF RecordCommits, Unwritten
  <2>3. written \in Nat BY DEF Shape, TypeOK
  <2>4. delivery' = Inserted(delivery, wants[e], e) /\ sub' = sub
    BY <1>2 DEF RecordCommits
  <2>5. /\ \A t \in wants[e] :
                Inserted(delivery, wants[e], e)[t][e].state = "pending"
        /\ \A t \in Subscriptions, f \in Events : ~(t \in wants[e] /\ f = e) =>
                Inserted(delivery, wants[e], e)[t][f] = delivery[t][f]
    BY <1>t, <2>1, <2>3, InsertedAt, Zenon
  <2>6. /\ \A t \in wants[e] : delivery'[t][e].state = "pending"
        /\ \A t \in Subscriptions, f \in Events : ~(t \in wants[e] /\ f = e) =>
                delivery'[t][f] = delivery[t][f]
    BY <2>4, <2>5
  <2>7. \A s \in Subscriptions, f \in Events :
        /\ delivery'[s][f].state = "failed" <=> delivery[s][f].state = "failed"
        /\ delivery[s][f].state = "delivered" => delivery'[s][f].state = "delivered"
        /\ sub[s].is = "new" => delivery'[s][f] = delivery[s][f]
    BY <2>2, <2>6, FreshRows
  <2> QED BY <1>a, <1>l, <2>4, <2>7 DEF SameLedger
<1>3. ASSUME NEW s \in Subscriptions, NEW e \in Events,
             LeaseExpires(s, e) \/ BackoffEnds(s, e)
      PROVE  SameLedger
  <2>1. /\ \A t \in Subscriptions, f \in Events :
            /\ delivery'[t][f].state = delivery[t][f].state
            /\ delivery[t][f] = Absent => delivery'[t][f] = Absent
        /\ sub' = sub
    BY <1>3, TimeEffect
  <2> QED BY <1>a, <1>l, <2>1 DEF SameLedger
<1>4. ASSUME NEW s \in Subscriptions, Register(s) PROVE SameLedger
  <2> DEFINE row == [sub[s] EXCEPT !.is = "live", !.enabled = TRUE]
  <2>1. /\ row.parked = sub[s].parked /\ row.failures = sub[s].failures
        /\ row.is = "live"
    BY <1>t DEF SubscriptionRow
  <2>2. sub' = [sub EXCEPT ![s] = row] /\ delivery' = delivery
    BY <1>4, <1>t DEF Register
  <2> HIDE DEF row
  <2>3. \A t \in Subscriptions : sub'[t] = IF t = s THEN row ELSE sub[t]
    BY <1>t, <2>2
  <2>4. \A t \in Subscriptions :
        /\ sub[t].is # "gone" => sub'[t].is # "gone"
        /\ sub[t].is = "live" => sub'[t].is = "live"
        /\ sub'[t].failures = sub[t].failures /\ sub'[t].parked = sub[t].parked
        /\ sub'[t].is = "new" => sub'[t] = sub[t]
    BY <2>1, <2>3
  <2> QED BY <1>a, <1>l, <2>2, <2>4 DEF SameLedger
<1> QED
  BY <1>1, <1>2, <1>3, <1>4 DEF RecordBegins, RecordFails, vars

\* What a dispatcher does, but for giving up and for counting.
LEMMA DispatcherLedger ==
    ASSUME DeliveryInv, Calm, CountInv, NEW d \in Dispatchers,
           \/ Claim(d) \/ Sign(d) \/ Post(d) \/ Delivered(d) \/ RetryLater(d)
           \/ SubscriptionSucceeded(d)
    PROVE  SameLedger
<1>s. Shape BY DEF DeliveryInv, Shape
<1>i. Unmanaged /\ InService /\ Told /\ NewIsEmpty BY DEF CountInv
<1>t. /\ sub \in [Subscriptions -> SubscriptionRow] /\ delivery \in Rows
      /\ dispatcher \in [Dispatchers -> DispatcherState]
  BY <1>s DEF Shape, TypeOK, Rows
<1>a. UNCHANGED <<operator, again>>
  BY DEF Claim, Sign, Post, Delivered, RetryLater, Settled, SubscriptionSucceeded, rows
<1>l. \A c \in Dispatchers : dispatcher[c].pc # "idle" =>
        /\ dispatcher[c].sub \in Subscriptions /\ dispatcher[c].event \in Events
        /\ sub[dispatcher[c].sub].is = "live"
  BY <1>i, <1>s DEF InService, Shape, InHand
<1>1. CASE Claim(d)
  <2>1. PICK s \in Subscriptions, e \in Events :
            /\ Claimable(s, e)
            /\ \A t \in Subscriptions, f \in Events :
                delivery'[t][f] = IF t = s /\ f = e THEN Taken(delivery[t][f])
                                  ELSE delivery[t][f]
            /\ dispatcher'[d].pc = "claimed" /\ dispatcher'[d].sub = s
            /\ \A c \in Dispatchers : c # d => dispatcher'[c] = dispatcher[c]
            /\ sub' = sub
    BY <1>1, <1>s, ClaimEffect
  <2>2. Taken(delivery[s][e]).state = "delivering"
    BY <1>t, RowOps DEF Rows
  <2>3. delivery[s][e].state \in {"pending", "delivering"} /\ sub[s].is = "live"
    BY <2>1 DEF Claimable, Due, Served
  <2>4. dispatcher[d].pc = "idle" BY <1>1 DEF Claim, Idle
  <2> QED BY <1>a, <1>l, <2>1, <2>2, <2>3, <2>4 DEF SameLedger
<1>2. CASE Sign(d) \/ Post(d)
  <2>1. /\ UNCHANGED <<sub, delivery>> /\ dispatcher[d].pc \in {"claimed", "signed"}
        /\ \/ Rests(d) \/ Step(d, "signed") \/ Step(d, "accepted") \/ Step(d, "refused")
    BY <1>2 DEF Sign, Post, rows
  <2>2. /\ dispatcher'[d].pc \in {"idle", "signed", "accepted", "refused"}
        /\ dispatcher'[d].pc # "idle" => dispatcher'[d].sub = dispatcher[d].sub
        /\ \A c \in Dispatchers : c # d => dispatcher'[c] = dispatcher[c]
    BY <1>t, <2>1, StepAt, RestsAt DEF Holding
  <2> QED BY <1>a, <1>l, <2>1, <2>2 DEF SameLedger
<1>3. CASE Delivered(d)
  <2> DEFINE s == dispatcher[d].sub
             e == dispatcher[d].event
  <2>p. dispatcher[d].pc \in Holding /\ dispatcher[d].pc = "accepted"
    BY <1>3 DEF Delivered, Holding
  <2>1. /\ s \in Subscriptions /\ e \in Events /\ sub[s].is = "live"
        /\ delivery[s][e].state = "delivering"
    BY <1>i, <1>l, <2>p, Owned DEF Unmanaged
  <2>2. /\ Over(Its(d), "delivered") \in DeliveryRow
        /\ Over(Its(d), "delivered").state = "delivered"
    BY <1>t, <2>1, RowOps DEF Its, Rows, RowStates
  <2>3. Settled(d, Over(Its(d), "delivered")) /\ Step(d, "succeeded")
    BY <1>3 DEF Delivered
  <2>4. \A t \in Subscriptions, f \in Events :
            delivery'[t][f] = IF t = s /\ f = e /\ delivery[t][f] # Absent
                              THEN Over(Its(d), "delivered") ELSE delivery[t][f]
    BY <1>s, <2>p, <2>2, <2>3, SettledEffect
  <2>5. /\ dispatcher'[d].pc = "succeeded" /\ dispatcher'[d].sub = s
        /\ dispatcher'[d].event = e
        /\ \A c \in Dispatchers : c # d => dispatcher'[c] = dispatcher[c]
    BY <1>t, <2>3, StepAt DEF Telling
  <2>6. sub' = sub BY <2>3 DEF Settled
  <2>7. delivery[s][e] # Absent BY <2>1, FreshRows
  <2> HIDE DEF s, e
  <2>8. delivery'[s][e].state = "delivered" BY <2>1, <2>2, <2>4, <2>7
  <2>9. \A t \in Subscriptions, f \in Events :
        /\ delivery'[t][f].state = "failed" <=> delivery[t][f].state = "failed"
        /\ delivery[t][f].state = "delivered" => delivery'[t][f].state = "delivered"
        /\ delivery[t][f] = Absent => delivery'[t][f] = Absent
    BY <2>1, <2>2, <2>4
  <2> QED BY <1>a, <1>l, <2>p, <2>1, <2>5, <2>6, <2>8, <2>9 DEF SameLedger
<1>4. CASE RetryLater(d)
  <2> DEFINE s == dispatcher[d].sub
             e == dispatcher[d].event
  <2>p. dispatcher[d].pc \in Holding /\ dispatcher[d].pc = "refused"
    BY <1>4 DEF RetryLater, Holding
  <2>1. /\ s \in Subscriptions /\ e \in Events
        /\ delivery[s][e].state = "delivering"
    BY <1>i, <1>l, <2>p, Owned DEF Unmanaged
  <2>2. /\ Backed(Its(d)) \in DeliveryRow /\ Backed(Its(d)).state = "pending"
    BY <1>t, <2>1, RowOps DEF Its, Rows
  <2>3. Settled(d, Backed(Its(d))) /\ Rests(d)
    BY <1>4 DEF RetryLater
  <2>4. \A t \in Subscriptions, f \in Events :
            delivery'[t][f] = IF t = s /\ f = e /\ delivery[t][f] # Absent
                              THEN Backed(Its(d)) ELSE delivery[t][f]
    BY <1>s, <2>p, <2>2, <2>3, SettledEffect
  <2>5. /\ dispatcher'[d].pc = "idle"
        /\ \A c \in Dispatchers : c # d => dispatcher'[c] = dispatcher[c]
    BY <1>t, <2>3, RestsAt
  <2>6. sub' = sub BY <2>3 DEF Settled
  <2> HIDE DEF s, e
  <2>7. \A t \in Subscriptions, f \in Events :
        /\ delivery'[t][f].state = "failed" <=> delivery[t][f].state = "failed"
        /\ delivery[t][f].state = "delivered" => delivery'[t][f].state = "delivered"
        /\ delivery[t][f] = Absent => delivery'[t][f] = Absent
    BY <2>1, <2>2, <2>4
  <2> QED BY <1>a, <1>l, <2>p, <2>5, <2>6, <2>7 DEF SameLedger
<1>5. CASE SubscriptionSucceeded(d)
  <2> DEFINE s == dispatcher[d].sub
             e == dispatcher[d].event
             row == [sub[s] EXCEPT !.failures = 0]
  <2>p. dispatcher[d].pc = "succeeded" BY <1>5 DEF SubscriptionSucceeded
  <2>1. /\ s \in Subscriptions /\ e \in Events
        /\ sub[s].is = "live" /\ delivery[s][e].state = "delivered"
    BY <1>i, <1>l, <2>p DEF Told
  <2>2. e \in RowsIn(s, "delivered") BY <2>1 DEF RowsIn
  <2>3. row.is = "live"
    BY <1>t, <2>1 DEF SubscriptionRow
  <2>4. sub' = [sub EXCEPT ![s] = row] /\ delivery' = delivery /\ Rests(d)
    BY <1>5, <1>t, <2>1 DEF SubscriptionSucceeded
  <2> HIDE DEF s, e, row
  <2>5. \A t \in Subscriptions : sub'[t] = IF t = s THEN row ELSE sub[t]
    BY <1>t, <2>1, <2>4
  <2>6. /\ dispatcher'[d].pc = "idle"
        /\ \A c \in Dispatchers : c # d => dispatcher'[c] = dispatcher[c]
    BY <1>t, <2>4, RestsAt
  <2> QED BY <1>a, <1>l, <2>p, <2>1, <2>2, <2>3, <2>4, <2>5, <2>6 DEF SameLedger
<1> QED BY <1>1, <1>2, <1>3, <1>4, <1>5

\* A row is given up, and its dispatcher is about to count it.
LEMMA GiveUpCounts ==
    ASSUME DeliveryInv, Calm, CountInv, NEW d \in Dispatchers, GiveUp(d)
    PROVE  CountInv'
<1>s. Shape BY DEF DeliveryInv, Shape
<1>i. /\ Unmanaged /\ InService /\ Told /\ OneTells /\ NewIsEmpty
      /\ \A t \in Subscriptions : CountStands(t)
  BY DEF CountInv
<1>t. delivery \in Rows /\ dispatcher \in [Dispatchers -> DispatcherState]
  BY <1>s DEF Shape, TypeOK, Rows
<1>p. dispatcher[d].pc \in Holding /\ dispatcher[d].pc = "refused"
  BY DEF GiveUp, Holding
<1>0. PICK s \in Subscriptions, e \in Events :
        s = dispatcher[d].sub /\ e = dispatcher[d].event
  BY <1>p, <1>s DEF Shape, InHand
<1>1. /\ s \in Subscriptions /\ e \in Events
      /\ delivery[s][e].state = "delivering" /\ sub[s].is = "live"
  BY <1>i, <1>p, <1>0, Owned DEF Unmanaged, InService
<1>2. /\ Over(Its(d), "failed") \in DeliveryRow
      /\ Over(Its(d), "failed").state = "failed"
  BY <1>t, <1>0, <1>1, RowOps DEF Its, Rows, RowStates
<1>3. Settled(d, Over(Its(d), "failed")) /\ Step(d, "exhausted")
  BY DEF GiveUp
<1>4. \A t \in Subscriptions, f \in Events :
        delivery'[t][f] = IF t = s /\ f = e /\ delivery[t][f] # Absent
                          THEN Over(Its(d), "failed") ELSE delivery[t][f]
  BY <1>s, <1>p, <1>0, <1>2, <1>3, SettledEffect
<1>5. /\ dispatcher'[d].pc = "exhausted" /\ dispatcher'[d].sub = s
      /\ dispatcher'[d].event = e
      /\ \A c \in Dispatchers : c # d => dispatcher'[c] = dispatcher[c]
  BY <1>t, <1>0, <1>3, StepAt DEF Telling
<1>6. UNCHANGED <<sub, operator, again>> BY <1>3 DEF Settled
<1>7. delivery[s][e] # Absent BY <1>1, FreshRows
<1>8. \A c \in Dispatchers :
        /\ dispatcher[c].pc # "idle" =>
            dispatcher[c].sub \in Subscriptions /\ dispatcher[c].event \in Events
        /\ dispatcher[c].pc \in {"succeeded", "exhausted"} =>
            ~(dispatcher[c].sub = s /\ dispatcher[c].event = e)
  BY <1>i, <1>1, <1>s DEF Told, Shape, InHand
<1>9. /\ delivery'[s][e].state = "failed"
      /\ \A t \in Subscriptions, f \in Events :
            ~(t = s /\ f = e) => delivery'[t][f] = delivery[t][f]
  BY <1>1, <1>2, <1>4, <1>7
<1>10. Unmanaged' BY <1>i, <1>6 DEF Unmanaged
<1>11. InService' BY <1>i, <1>1, <1>5, <1>6 DEF InService
<1>12. Told'
  <2> SUFFICES ASSUME NEW c \in Dispatchers
               PROVE  /\ dispatcher'[c].pc = "succeeded" =>
                          delivery'[dispatcher'[c].sub][dispatcher'[c].event].state = "delivered"
                      /\ dispatcher'[c].pc = "exhausted" =>
                          delivery'[dispatcher'[c].sub][dispatcher'[c].event].state = "failed"
    BY DEF Told
  <2>1. CASE c = d BY <1>5, <1>9, <2>1
  <2>2. CASE c # d
    <3>1. dispatcher'[c] = dispatcher[c] BY <1>5, <2>2
    <3> QED BY <1>i, <1>8, <1>9, <3>1 DEF Told
  <2> QED BY <2>1, <2>2
<1>13. OneTells' BY <1>i, <1>5, <1>8 DEF OneTells
<1>14. NewIsEmpty' BY <1>i, <1>1, <1>6, <1>9 DEF NewIsEmpty
<1>15. ASSUME NEW t \in Subscriptions PROVE CountStands(t)'
  <2>1. RowsIn(t, "delivered")' = RowsIn(t, "delivered")
    BY <1>1, <1>9 DEF RowsIn
  <2>2. CASE t # s
    <3>1. RowsIn(t, "failed")' = RowsIn(t, "failed")
      BY <1>9, <2>2 DEF RowsIn
    <3>2. Counting(t)' = Counting(t) /\ \A c \in Counting(t) : dispatcher'[c] = dispatcher[c]
      BY <1>5, <1>p, <2>2 DEF Counting
    <3>3. CountingRows(t)' = CountingRows(t) BY <3>2 DEF CountingRows
    <3>4. Counted(t)' = Counted(t) BY <3>1, <3>3 DEF Counted
    <3> QED BY <1>i, <1>6, <2>1, <3>4 DEF CountStands
  <2>3. CASE t = s
    <3>1. RowsIn(s, "failed")' = RowsIn(s, "failed") \cup {e} /\ e \notin RowsIn(s, "failed")
      BY <1>1, <1>9 DEF RowsIn
    <3>2. Counting(s)' = Counting(s) \cup {d}
      BY <1>5 DEF Counting
    <3>3. \A c \in Counting(s) : dispatcher'[c] = dispatcher[c]
      BY <1>5, <1>p DEF Counting
    <3>4. CountingRows(s)' = CountingRows(s) \cup {e}
      BY <1>5, <3>2, <3>3 DEF CountingRows
    <3>5. Counted(s)' = Counted(s) BY <3>1, <3>4 DEF Counted
    <3> QED BY <1>i, <1>6, <2>1, <2>3, <3>5 DEF CountStands
  <2> QED BY <2>2, <2>3
<1> QED BY <1>10, <1>11, <1>12, <1>13, <1>14, <1>15 DEF CountInv

LEMMA FiniteRows ==
    ASSUME NEW s \in Subscriptions
    PROVE  /\ IsFiniteSet(RowsIn(s, "failed")) /\ IsFiniteSet(Counted(s))
           /\ Cardinality(Counted(s)) \in Nat
<1>1. IsFiniteSet(Events) BY BoundsAssumption, FS_Interval DEF Events
<1>2. RowsIn(s, "failed") \subseteq Events /\ Counted(s) \subseteq Events
  BY DEF RowsIn, Counted
<1> QED BY <1>1, <1>2, FS_Subset, FS_CardinalityType

\* A row that was given up is counted, and the endpoint is parked at the count.
LEMMA FailedCounts ==
    ASSUME DeliveryInv, Calm, CountInv, NEW d \in Dispatchers, SubscriptionFailed(d)
    PROVE  CountInv'
<1>s. Shape BY DEF DeliveryInv, Shape
<1>i. /\ Unmanaged /\ InService /\ Told /\ OneTells /\ NewIsEmpty
      /\ \A t \in Subscriptions : CountStands(t)
  BY DEF CountInv
<1>t. /\ delivery \in Rows /\ dispatcher \in [Dispatchers -> DispatcherState]
      /\ sub \in [Subscriptions -> SubscriptionRow]
  BY <1>s DEF Shape, TypeOK, Rows
<1>p. dispatcher[d].pc = "exhausted" /\ Rests(d) /\ UNCHANGED <<operator, again>>
  BY DEF SubscriptionFailed
<1>0. PICK s \in Subscriptions, e \in Events :
        s = dispatcher[d].sub /\ e = dispatcher[d].event
  BY <1>p, <1>s DEF Shape, InHand
<1> DEFINE row == [sub[s] EXCEPT !.failures = sub[s].failures + 1,
                                 !.parked = sub[s].parked \/ Parks(s)]
<1>1. /\ s \in Subscriptions /\ e \in Events
      /\ delivery[s][e].state = "failed" /\ sub[s].is = "live"
  BY <1>i, <1>p, <1>0 DEF Told, InService
<1>2. sub' = [sub EXCEPT ![s] = row]
  BY <1>0, <1>1, <1>t DEF SubscriptionFailed
<1>3. /\ row.is = "live" /\ row.failures = sub[s].failures + 1
      /\ row.parked = (sub[s].parked \/ Parks(s))
  BY <1>1, <1>t DEF SubscriptionRow
<1>4. \A t \in Subscriptions, f \in Events :
        \/ delivery'[t][f] = delivery[t][f]
        \/ /\ delivery[t][f].state = "pending" /\ delivery'[t][f].state = "parked"
           /\ delivery[t][f] # Absent
  BY <1>s, ParkEffect
<1>5. /\ dispatcher'[d].pc = "idle"
      /\ \A c \in Dispatchers : c # d => dispatcher'[c] = dispatcher[c]
  BY <1>t, <1>p, RestsAt
<1>6. \A c \in Dispatchers : dispatcher[c].pc # "idle" =>
        dispatcher[c].sub \in Subscriptions /\ dispatcher[c].event \in Events
  BY <1>s DEF Shape, InHand
<1>7. \A c \in Counting(s) : dispatcher[c].event = e => c = d
  BY <1>0, <1>i, <1>p DEF Counting, OneTells
<1>8. d \in Counting(s) BY <1>0, <1>p DEF Counting
<1>9. \A f : f = sub[s].failures => f \in Nat
  BY <1>1, <1>t DEF SubscriptionRow
<1> HIDE DEF row
<1>10. \A t \in Subscriptions : sub'[t] = IF t = s THEN row ELSE sub[t]
  BY <1>1, <1>2, <1>t
<1>11. Unmanaged' BY <1>i, <1>p, <1>3, <1>10 DEF Unmanaged
<1>12. InService' BY <1>i, <1>3, <1>5, <1>6, <1>10 DEF InService
<1>13. Told' BY <1>i, <1>4, <1>5, <1>6 DEF Told
<1>14. OneTells' BY <1>i, <1>5 DEF OneTells
<1>15. NewIsEmpty'
  <2>1. \A t \in Subscriptions, f \in Events :
            delivery[t][f] = Absent => delivery'[t][f] = Absent
    BY <1>4
  <2> QED BY <1>i, <1>3, <1>10, <2>1 DEF NewIsEmpty
<1>16. ASSUME NEW t \in Subscriptions PROVE CountStands(t)'
  <2>1. /\ RowsIn(t, "delivered")' = RowsIn(t, "delivered")
        /\ RowsIn(t, "failed")' = RowsIn(t, "failed")
    BY <1>4 DEF RowsIn
  <2>2. CASE t # s
    <3>1. Counting(t)' = Counting(t) /\ \A c \in Counting(t) : dispatcher'[c] = dispatcher[c]
      BY <1>5, <1>0, <2>2 DEF Counting
    <3>2. CountingRows(t)' = CountingRows(t) BY <3>1 DEF CountingRows
    <3>3. Counted(t)' = Counted(t) BY <2>1, <3>2 DEF Counted
    <3>4. sub'[t] = sub[t] BY <1>10, <2>2
    <3> QED BY <1>i, <2>1, <3>3, <3>4 DEF CountStands
  <2>3. CASE t = s /\ RowsIn(s, "delivered") # {}
    BY <2>1, <2>3 DEF CountStands
  <2>4. CASE t = s /\ RowsIn(s, "delivered") = {}
    <3>1. Counting(s)' = Counting(s) \ {d}
      BY <1>5 DEF Counting
    <3>2. \A c \in Counting(s) \ {d} : dispatcher'[c] = dispatcher[c]
      BY <1>5 DEF Counting
    <3>3. CountingRows(s)' = CountingRows(s) \ {e}
      BY <1>7, <1>0, <3>1, <3>2 DEF CountingRows
    <3>4. e \in CountingRows(s) BY <1>8, <1>0 DEF CountingRows
    <3>5. e \in RowsIn(s, "failed") BY <1>1 DEF RowsIn
    <3>6. Counted(s)' = Counted(s) \cup {e} /\ e \notin Counted(s)
      BY <2>1, <2>4, <3>3, <3>4, <3>5 DEF Counted
    <3>7. Cardinality(Counted(s)') = Cardinality(Counted(s)) + 1
      BY <1>1, <3>6, FiniteRows, FS_AddElement
    <3>8. /\ sub[s].failures = Cardinality(Counted(s))
          /\ sub[s].parked <=> sub[s].failures >= ParkAfter
      BY <1>i, <1>1, <2>4 DEF CountStands
    <3>9. /\ sub'[s].failures = sub[s].failures + 1
          /\ sub'[s].parked = (sub[s].parked \/ Parks(s))
      BY <1>1, <1>3, <1>10
    <3>10. sub'[s].failures = Cardinality(Counted(s)')
      BY <3>7, <3>8, <3>9
    <3>11. sub'[s].parked <=> sub'[s].failures >= ParkAfter
      <4>1. sub[s].failures \in Nat /\ ParkAfter \in Nat
        BY <1>9, LimitsAssumption
      <4>2. sub[s].failures >= ParkAfter => sub[s].failures + 1 >= ParkAfter
        BY <4>1
      <4>3. Parks(s) <=> sub'[s].failures >= ParkAfter
        BY <3>9 DEF Parks
      <4> QED BY <3>8, <3>9, <4>2, <4>3 DEF Parks
    <3> QED BY <2>4, <3>10, <3>11 DEF CountStands
  <2> QED BY <2>2, <2>3, <2>4
<1> QED BY <1>11, <1>12, <1>13, <1>14, <1>15, <1>16 DEF CountInv

LEMMA CountInvInit == Init => CountInv
<1> SUFFICES ASSUME Init PROVE CountInv OBVIOUS
<1>1. /\ \A s \in Subscriptions : /\ sub[s] = Unregistered /\ again[s] = {}
                                  /\ sub[s].is = "new" /\ sub[s].failures = 0
                                  /\ sub[s].parked = FALSE
      /\ \A s \in Subscriptions, e \in Events :
            delivery[s][e] = Absent /\ delivery[s][e].state = "absent"
      /\ \A d \in Dispatchers : dispatcher[d].pc = "idle"
      /\ \A p \in Operators : operator[p].pc = "idle"
  BY FreshRows, AtRestType DEF Init, Unregistered, Idle
<1>2. Unmanaged /\ InService /\ Told /\ OneTells /\ NewIsEmpty
  BY <1>1 DEF Unmanaged, InService, Told, OneTells, NewIsEmpty
<1>3. ASSUME NEW s \in Subscriptions PROVE CountStands(s)
  <2>1. Counted(s) = {} BY <1>1 DEF Counted, RowsIn
  <2>2. Cardinality(Counted(s)) = 0 BY <2>1, FS_EmptySet
  <2>3. ~(sub[s].failures >= ParkAfter) BY <1>1, LimitsAssumption
  <2> QED BY <1>1, <2>2, <2>3 DEF CountStands
<1> QED BY <1>2, <1>3 DEF CountInv

LEMMA CountInvStep ==
    ASSUME DeliveryInv, CountInv, [Next]_vars
    PROVE  CountInv'
<1>s. Shape BY DEF DeliveryInv, Shape
<1>1. CASE ~Calm' BY <1>1 DEF CountInv
<1>2. CASE Calm'
  <2>1. Calm /\ CalmStep BY <1>s, <1>2, CalmBefore
  <2>2. Shape' BY <1>s, NextGood DEF DeliveryInv, Good
  <2>3. Unwritten BY DEF DeliveryInv
  <2>4. CASE \E d \in Dispatchers : GiveUp(d)
    BY <2>1, <2>4, GiveUpCounts
  <2>5. CASE \E d \in Dispatchers : SubscriptionFailed(d)
    BY <2>1, <2>5, FailedCounts
  <2>6. CASE \E d \in Dispatchers :
                \/ Claim(d) \/ Sign(d) \/ Post(d) \/ Delivered(d) \/ RetryLater(d)
                \/ SubscriptionSucceeded(d)
    BY <1>s, <2>1, <2>2, <2>6, DispatcherLedger, SameLedgerCounts
  <2>7. CASE \/ \E e \in Events : RecordBegins(e) \/ RecordCommits(e) \/ RecordFails(e)
             \/ \E s \in Subscriptions, e \in Events :
                    LeaseExpires(s, e) \/ BackoffEnds(s, e)
             \/ \E s \in Subscriptions : Register(s)
             \/ UNCHANGED vars
    BY <1>s, <2>1, <2>2, <2>3, <2>7, AsideLedger, SameLedgerCounts
  <2> QED BY <2>1, <2>4, <2>5, <2>6, <2>7 DEF CalmStep, Delivers
<1> QED BY <1>1, <1>2

\* The dispatchers about to count are as many as the rows they are about.
LEMMA CountingAsMany ==
    ASSUME NEW s \in Subscriptions, OneTells, Told, Shape
    PROVE  /\ CountingRows(s) \subseteq RowsIn(s, "failed")
           /\ Cardinality(Counting(s)) = Cardinality(CountingRows(s))
<1>1. CountingRows(s) \subseteq RowsIn(s, "failed")
  BY DEF CountingRows, Counting, RowsIn, Told, Shape, InHand
<1>2. IsFiniteSet(CountingRows(s))
  BY <1>1, FiniteRows, FS_Subset
<1> DEFINE its == [d \in Counting(s) |-> dispatcher[d].event]
<1>3. its \in Injection(Counting(s), CountingRows(s))
  BY DEF Injection, IsInjective, CountingRows, Counting, OneTells
<1>4. its \in Surjection(Counting(s), CountingRows(s))
  BY DEF Surjection, CountingRows
<1> HIDE DEF its
<1>5. Cardinality(Counting(s)) = Cardinality(CountingRows(s))
  BY <1>2, <1>3, <1>4, FS_Injection
<1> QED BY <1>1, <1>5

LEMMA CountedIs ==
    ASSUME Shape, CountInv
    PROVE  CountedOnce
<1> SUFFICES ASSUME Calm, NEW s \in Subscriptions, RowsIn(s, "delivered") = {}
             PROVE  /\ sub[s].failures = Cardinality(RowsIn(s, "failed"))
                                            - Cardinality(Counting(s))
                    /\ sub[s].parked <=> sub[s].failures >= ParkAfter
  BY DEF CountedOnce, Calm
<1>1. /\ Told /\ OneTells
      /\ sub[s].failures = Cardinality(Counted(s))
      /\ sub[s].parked <=> sub[s].failures >= ParkAfter
  BY DEF CountInv, CountStands
<1>2. /\ CountingRows(s) \subseteq RowsIn(s, "failed")
      /\ Cardinality(Counting(s)) = Cardinality(CountingRows(s))
  BY <1>1, CountingAsMany
<1>3. Cardinality(Counted(s)) = Cardinality(RowsIn(s, "failed"))
                                    - Cardinality(RowsIn(s, "failed") \cap CountingRows(s))
  BY FiniteRows, FS_Difference DEF Counted
<1>4. RowsIn(s, "failed") \cap CountingRows(s) = CountingRows(s) BY <1>2
<1> QED BY <1>1, <1>2, <1>3, <1>4

\* Every delivery that was given up counts once, however many dispatchers serve
\* the endpoint between giving up and counting, and the endpoint is parked at
\* the count and not before.
THEOREM CountedOnceHolds ==
    ASSUME LeaseOutlivesPost
    PROVE  Spec => []CountedOnce
<1>1. DeliveryInv /\ CountInv /\ [Next]_vars => CountInv' BY CountInvStep
<1>2. DeliveryInv => Shape BY DEF DeliveryInv, Shape
<1>3. Shape /\ CountInv => CountedOnce BY CountedIs
<1> QED BY <1>1, <1>2, <1>3, CountInvInit, DeliveryInvHolds, PTL DEF Spec

=============================================================================
