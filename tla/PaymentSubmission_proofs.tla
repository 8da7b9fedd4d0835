---------------------- MODULE PaymentSubmission_proofs ----------------------
(***************************************************************************)
(* That a key stands for one payment, that an order is sent as it was      *)
(* asked for and can be paid as it is written, and that the page an        *)
(* operator confirmed is what goes, for any payments, configurations and   *)
(* number of requests.                                                     *)
(*                                                                         *)
(* One invariant carries all of it.  An order is what its request asked    *)
(* for under the configuration that request read (Ordered); a request that *)
(* names an order names one under its own key (Requested); a page shows    *)
(* what its configuration sends (Shown); and no two orders share a key.    *)
(* What a payment that breaks no rule then comes to is pure: sums and      *)
(* check digits are folds, read here as the values they run through.       *)
(***************************************************************************)
EXTENDS PaymentSubmission, FiniteSetTheorems, SequenceTheorems,
        WellFoundedInduction, TLAPS

-----------------------------------------------------------------------------
(* The invariant.                                                          *)

Keys == {"client", "console", "press"} \X (0..MaxRequests)

Steps == {"find", "reject", "insert", "announce", "again", "replay",
          "refused", "conflict", "accepted", "lost"}

Request == [connection : Connections, key : Keys,
            instruction : DOMAIN Instruction, screen : Nat,
            schemes : DOMAIN Profiles, order : Nat, step : Steps]

IsSeq(s) == s \in Seq(ToSet(s))

Typed ==
    /\ setting \in Settings
    /\ connections \in [Connections -> [initialised : BOOLEAN,
                                        schemes : DOMAIN Profiles]]
    /\ requests \in Seq(Request) /\ Len(requests) <= MaxRequests
    /\ IsSeq(orders)
    /\ IsSeq(screens) /\ Len(screens) <= MaxRequests

(* What a request builds: a function of what it asks and what it read.     *)
Decision(q) == resolve(Profiles[q.schemes], Instruction[q.instruction])

Broken(q) == Failures(Profiles[q.schemes], Instruction[q.instruction])

Attempts(r, q) ==
    _build(Instruction[q.instruction], Decision(q), Profiles[q.schemes], r)

SameSlot(x, y) == x.connection = y.connection /\ x.key = y.key

(* An order against the request that entered it.                           *)
Entered(order, o, q) ==
    /\ SameSlot(order, q)
    /\ order.instruction = q.instruction
    /\ q.order = o
    /\ q.step \in {"announce", "accepted", "lost"}
    /\ Broken(q) = {}
    /\ order.requested_scheme = Decision(q).requested
    /\ order.scheme = Decision(q).effective
    /\ order.attempts = Attempts(order.request, q)

Ordered ==
    \A o \in DOMAIN orders :
        /\ orders[o].request \in DOMAIN requests
        /\ Entered(orders[o], o, requests[orders[o].request])

(* A request against the table, the trail and the page it came from.       *)
Names(q) ==
    /\ q.order \in DOMAIN orders \cup {NoOrder}
    /\ q.step \in {"announce", "replay", "accepted", "conflict"} =>
           q.order \in DOMAIN orders /\ SameSlot(orders[q.order], q)
    /\ q.step = "again" => Under(q.connection, q.key) # {}
    /\ q.step = "conflict" => orders[q.order].instruction # q.instruction

Judged(q) ==
    /\ q.step = "reject" => Broken(q) # {}
    /\ q.step = "insert" => Broken(q) = {}

FromPage(q) ==
    IF q.screen = NotFromScreen THEN q.key[1] = "client"
    ELSE /\ q.screen \in DOMAIN screens
         /\ q.key = <<"console", q.screen>>
         /\ q.connection = screens[q.screen].connection
         /\ q.instruction = screens[q.screen].instruction

Recounted(r, q) ==
    /\ q.step = "announce" => orders[q.order].request = r
    /\ q.step = "accepted" => OnRecord(r, q.order)

Requested ==
    \A r \in DOMAIN requests :
        /\ Names(requests[r])
        /\ Judged(requests[r])
        /\ FromPage(requests[r])
        /\ Recounted(r, requests[r])

Shows(page) ==
    /\ page.connection \in Connections
    /\ page.instruction \in DOMAIN Instruction
    /\ page.schemes \in DOMAIN Profiles
    /\ LET i == Instruction[page.instruction]
           profiles == Profiles[page.schemes]
       IN  /\ Failures(profiles, i) = {}
           /\ page.document = build(i, ProfileOf(profiles, resolve(profiles, i).effective),
                                    per_transaction(i))

Shown == \A s \in DOMAIN screens : Shows(screens[s])

OneForAKey ==
    \A o, p \in DOMAIN orders : SameSlot(orders[o], orders[p]) => o = p

SubmissionInv == Typed /\ Ordered /\ Requested /\ Shown /\ OneForAKey

-----------------------------------------------------------------------------
(* Sequences that grow by one.                                             *)

(* What Append does to a sequence whose elements have no type of their own.*)
LEMMA Appending ==
    ASSUME NEW s, IsSeq(s), NEW e
    PROVE  /\ IsSeq(Append(s, e))
           /\ Len(s) \in Nat /\ DOMAIN s = 1..Len(s)
           /\ Len(Append(s, e)) = Len(s) + 1
           /\ DOMAIN Append(s, e) = 1..(Len(s) + 1)
           /\ Append(s, e)[Len(s) + 1] = e
           /\ \A n \in DOMAIN s : Append(s, e)[n] = s[n]
<1> DEFINE T == ToSet(s) \cup {e}
           t == Append(s, e)
<1>1. s \in Seq(T)
  BY DEF IsSeq
<1>2. /\ t \in Seq(T) /\ Len(t) = Len(s) + 1 /\ Len(s) \in Nat
      /\ DOMAIN s = 1..Len(s)
      /\ t[Len(s) + 1] = e /\ \A n \in 1..Len(s) : t[n] = s[n]
  BY <1>1
<1>3. DOMAIN t = 1..(Len(s) + 1)
  BY <1>2
<1>4. t \in Seq(ToSet(t))
  <2>1. t = [n \in 1..Len(t) |-> t[n]]
    BY <1>2, LenProperties, Zenon
  <2>2. \A n \in 1..Len(t) : t[n] \in ToSet(t)
    BY <1>2, <1>3 DEF ToSet
  <2> QED
    BY <1>2, <2>1, <2>2
<1> QED
  BY <1>2, <1>3, <1>4 DEF IsSeq

(* The length and domain of a table.                                       *)
LEMMA Sized ==
    ASSUME NEW s, IsSeq(s)
    PROVE  Len(s) \in Nat /\ DOMAIN s = 1..Len(s)
BY DEF IsSeq

-----------------------------------------------------------------------------
(* How the tables change.                                                  *)

(* Request r has moved on to q.                                            *)
Became(r, q) == requests' = [requests EXCEPT ![r] = q]

SameQuestion(p, q) ==
    /\ p.connection = q.connection /\ p.key = q.key
    /\ p.instruction = q.instruction
    /\ p.screen = q.screen /\ p.schemes = q.schemes

LEMMA BecameEffect ==
    ASSUME Typed, NEW r \in DOMAIN requests, NEW q \in Request, Became(r, q)
    PROVE  /\ requests' \in Seq(Request) /\ Len(requests') = Len(requests)
           /\ DOMAIN requests' = DOMAIN requests
           /\ requests'[r] = q
           /\ \A p \in DOMAIN requests : p # r => requests'[p] = requests[p]
BY DEF Typed, Became

(* One step of a request is its new row.                                   *)
LEMMA GoesBecame ==
    ASSUME Typed, NEW r \in DOMAIN requests, NEW step \in Steps, Goes(r, step)
    PROVE  \E q \in Request :
               /\ Became(r, q) /\ SameQuestion(requests[r], q)
               /\ q.order = requests[r].order /\ q.step = step
<1>1. requests[r] \in Request
  BY DEF Typed
<1>2. PICK q : q = [requests[r] EXCEPT !.step = step]
  OBVIOUS
<1>3. q \in Request /\ SameQuestion(requests[r], q)
      /\ q.order = requests[r].order /\ q.step = step
  BY <1>1, <1>2 DEF Request, SameQuestion
<1>4. Became(r, q)
  BY <1>2 DEF Goes, Became
<1> QED
  BY <1>3, <1>4

LEMMA OnRecordStays ==
    ASSUME NEW r, NEW o \in DOMAIN orders, OnRecord(r, o), trail \subseteq trail',
           orders'[o] = orders[o]
    PROVE  OnRecord(r, o)'
BY DEF OnRecord

(* A request moves on and the order table stays as it is.                  *)
LEMMA RequestMoves ==
    ASSUME SubmissionInv, NEW r \in DOMAIN requests, NEW q \in Request, Became(r, q),
           SameQuestion(requests[r], q),
           UNCHANGED <<setting, connections, orders, screens>>,
           trail \subseteq trail',
           requests[r].step \in {"announce", "accepted", "lost"} =>
               q.order = requests[r].order /\ q.step \in {"announce", "accepted", "lost"},
           Names(q), Judged(q),
           q.step = "announce" => orders[q.order].request = r,
           q.step = "accepted" => OnRecord(r, q.order)'
    PROVE  SubmissionInv'
<1> USE DEF SubmissionInv
<1>1. /\ requests' \in Seq(Request) /\ Len(requests') = Len(requests)
      /\ DOMAIN requests' = DOMAIN requests
      /\ requests'[r] = q
      /\ \A p \in DOMAIN requests : p # r => requests'[p] = requests[p]
  BY BecameEffect
<1>2. Typed'
  BY <1>1 DEF Typed, IsSeq
<1>3. Ordered'
  <2> SUFFICES ASSUME NEW o \in DOMAIN orders
               PROVE  /\ orders[o].request \in DOMAIN requests
                      /\ Entered(orders[o], o, requests'[orders[o].request])
    BY <1>1 DEF Ordered
  <2>1. /\ orders[o].request \in DOMAIN requests
        /\ Entered(orders[o], o, requests[orders[o].request])
    BY DEF Ordered
  <2>2. CASE orders[o].request # r
    BY <1>1, <2>1, <2>2
  <2>3. CASE orders[o].request = r
    BY <1>1, <2>1, <2>3
       DEF Entered, SameQuestion, SameSlot, Broken, Decision, Attempts
  <2> QED
    BY <2>2, <2>3
<1>4. Requested'
  <2> SUFFICES ASSUME NEW p \in DOMAIN requests
               PROVE  (Names(requests[p]) /\ Judged(requests[p])
                       /\ FromPage(requests[p]) /\ Recounted(p, requests[p]))'
    BY <1>1 DEF Requested
  <2>1. Names(requests[p]) /\ Judged(requests[p])
        /\ FromPage(requests[p]) /\ Recounted(p, requests[p])
    BY DEF Requested
  <2>2. CASE p # r
    <3>1. requests'[p] = requests[p]
      BY <1>1, <2>2
    <3>2. PICK o : o = requests[p].order
      OBVIOUS
    <3>3. requests[p].step = "accepted" => OnRecord(p, o)'
      BY <2>1, <3>2, OnRecordStays DEF Recounted, Names
    <3> QED
      BY <2>1, <3>1, <3>2, <3>3 DEF Names, Judged, FromPage, Recounted, Under, Broken, SameSlot
  <2>3. CASE p = r
    <3>1. requests'[p] = q
      BY <1>1, <2>3
    <3>2. FromPage(q)
      BY <2>1, <2>3 DEF FromPage, SameQuestion
    <3> QED
      BY <2>3, <3>1, <3>2 DEF Names, Judged, FromPage, Recounted, Under, Broken, SameSlot
  <2> QED
    BY <2>2, <2>3
<1>5. Shown' /\ OneForAKey'
  BY DEF Shown, OneForAKey
<1> QED
  BY <1>2, <1>3, <1>4, <1>5

(* A request arrives.                                                      *)
LEMMA RequestArrives ==
    ASSUME SubmissionInv, NEW q \in Request, requests' = Append(requests, q),
           Len(requests) < MaxRequests,
           q.order = NoOrder, q.step \in {"find", "refused"}, FromPage(q),
           UNCHANGED <<setting, connections, orders, trail, screens>>
    PROVE  SubmissionInv'
<1> USE DEF SubmissionInv
<1>1. /\ requests' \in Seq(Request) /\ Len(requests') = Len(requests) + 1
      /\ DOMAIN requests' = DOMAIN requests \cup {Len(requests) + 1}
      /\ Len(requests) + 1 \notin DOMAIN requests
      /\ requests'[Len(requests) + 1] = q
      /\ \A p \in DOMAIN requests : requests'[p] = requests[p]
  BY DEF Typed
<1>2. Typed'
  BY <1>1, SettingsAssumption DEF Typed, IsSeq
<1>3. Ordered'
  BY <1>1 DEF Ordered
<1>4. Requested'
  <2> SUFFICES ASSUME NEW p \in DOMAIN requests'
               PROVE  (Names(requests[p]) /\ Judged(requests[p])
                       /\ FromPage(requests[p]) /\ Recounted(p, requests[p]))'
    BY DEF Requested
  <2>1. CASE p \in DOMAIN requests
    <3>1. /\ requests'[p] = requests[p]
          /\ Names(requests[p]) /\ Judged(requests[p])
          /\ FromPage(requests[p]) /\ Recounted(p, requests[p])
      BY <1>1, <2>1 DEF Requested
    <3> QED
      BY <3>1 DEF Names, Judged, FromPage, Recounted, OnRecord, Under, Broken, SameSlot
  <2>2. CASE p = Len(requests) + 1
    <3>1. requests'[p] = q
      BY <1>1, <2>2
    <3> QED
      BY <3>1 DEF Names, Judged, FromPage, Recounted, NoOrder
  <2> QED
    BY <1>1, <2>1, <2>2
<1>5. Shown' /\ OneForAKey'
  BY DEF Shown, OneForAKey
<1> QED
  BY <1>2, <1>3, <1>4, <1>5

(* A request enters an order under a key that nobody has used.             *)
LEMMA OrderEnters ==
    ASSUME SubmissionInv, NEW r \in DOMAIN requests, NEW q \in Request, Became(r, q),
           SameQuestion(requests[r], q), requests[r].step = "insert",
           NEW order, orders' = Append(orders, order),
           q.order = Len(orders) + 1, q.step = "announce",
           order.request = r, Entered(order, Len(orders) + 1, q),
           Under(q.connection, q.key) = {},
           UNCHANGED <<setting, connections, trail, screens>>
    PROVE  SubmissionInv'
<1> USE DEF SubmissionInv
<1>1. /\ requests' \in Seq(Request) /\ Len(requests') = Len(requests)
      /\ DOMAIN requests' = DOMAIN requests
      /\ requests'[r] = q
      /\ \A p \in DOMAIN requests : p # r => requests'[p] = requests[p]
  BY BecameEffect
<1>2. /\ IsSeq(orders') /\ Len(orders) \in Nat /\ DOMAIN orders = 1..Len(orders)
      /\ DOMAIN orders' = 1..(Len(orders) + 1)
      /\ orders'[Len(orders) + 1] = order
      /\ \A o \in DOMAIN orders : orders'[o] = orders[o]
  <2>1. IsSeq(orders)
    BY DEF Typed
  <2>2. /\ IsSeq(Append(orders, order))
        /\ Len(orders) \in Nat /\ DOMAIN orders = 1..Len(orders)
        /\ DOMAIN Append(orders, order) = 1..(Len(orders) + 1)
        /\ Append(orders, order)[Len(orders) + 1] = order
        /\ \A o \in DOMAIN orders : Append(orders, order)[o] = orders[o]
    BY <2>1, Appending
  <2> QED
    BY <2>2
<1>3. DOMAIN orders' = DOMAIN orders \cup {Len(orders) + 1}
      /\ Len(orders) + 1 \notin DOMAIN orders
  BY <1>2
<1>4. Typed'
  BY <1>1, <1>2 DEF Typed, IsSeq
<1>5. Ordered'
  <2> SUFFICES ASSUME NEW o \in DOMAIN orders'
               PROVE  /\ orders'[o].request \in DOMAIN requests
                      /\ Entered(orders'[o], o, requests'[orders'[o].request])
    BY <1>1 DEF Ordered
  <2>1. CASE o \in DOMAIN orders
    <3>1. /\ orders[o].request \in DOMAIN requests
          /\ Entered(orders[o], o, requests[orders[o].request])
      BY <2>1 DEF Ordered
    <3>2. orders[o].request # r
      BY <3>1 DEF Entered
    <3> QED
      BY <1>1, <1>2, <2>1, <3>1, <3>2
  <2>2. CASE o = Len(orders) + 1
    BY <1>1, <1>2, <2>2
  <2> QED
    BY <1>3, <2>1, <2>2
<1>6. Requested'
  <2> SUFFICES ASSUME NEW p \in DOMAIN requests
               PROVE  (Names(requests[p]) /\ Judged(requests[p])
                       /\ FromPage(requests[p]) /\ Recounted(p, requests[p]))'
    BY <1>1 DEF Requested
  <2>1. Names(requests[p]) /\ Judged(requests[p])
        /\ FromPage(requests[p]) /\ Recounted(p, requests[p])
    BY DEF Requested
  <2>2. CASE p # r
    <3>1. requests'[p] = requests[p]
      BY <1>1, <2>2
    <3>2. PICK o : o = requests[p].order
      OBVIOUS
    <3>3. o \in DOMAIN orders \cup {NoOrder}
      BY <2>1, <3>2 DEF Names
    <3>4. requests[p].step = "accepted" => OnRecord(p, o)'
      BY <1>2, <2>1, <3>2, OnRecordStays DEF Recounted, Names
    <3>5. Names(requests[p])'
      <4>1. (requests[p].step = "again" => Under(requests[p].connection, requests[p].key) # {})'
        BY <1>2, <1>3, <2>1, <3>1 DEF Names, Under
      <4> QED
        BY <1>2, <1>3, <2>1, <3>1, <4>1 DEF Names, SameSlot
    <3>6. (Judged(requests[p]) /\ FromPage(requests[p]) /\ Recounted(p, requests[p]))'
      BY <1>2, <2>1, <3>1, <3>2, <3>4 DEF Names, Judged, FromPage, Recounted, Broken
    <3> QED
      BY <3>5, <3>6
  <2>3. CASE p = r
    <3>1. requests'[p] = q
      BY <1>1, <2>3
    <3>2. FromPage(q)
      BY <2>1, <2>3 DEF FromPage, SameQuestion
    <3>3. Names(q)'
      BY <1>2, <1>3 DEF Names, Entered, SameSlot
    <3> QED
      BY <1>2, <2>3, <3>1, <3>2, <3>3 DEF Judged, FromPage, Recounted
  <2> QED
    BY <2>2, <2>3
<1>7. OneForAKey'
  <2> SUFFICES ASSUME NEW o \in DOMAIN orders', NEW p \in DOMAIN orders',
                      SameSlot(orders'[o], orders'[p])
               PROVE  o = p
    BY DEF OneForAKey
  <2>1. \A n \in DOMAIN orders : ~SameSlot(orders[n], order) /\ ~SameSlot(order, orders[n])
    BY DEF Under, Entered, SameSlot
  <2> QED
    BY <1>2, <1>3, <2>1 DEF OneForAKey
<1>8. Shown'
  BY DEF Shown
<1> QED
  BY <1>4, <1>5, <1>6, <1>7, <1>8

(* A page is shown.                                                        *)
LEMMA PageAppears ==
    ASSUME SubmissionInv, NEW page, screens' = Append(screens, page), Shows(page),
           Len(screens) < MaxRequests,
           UNCHANGED <<setting, connections, orders, trail, requests>>
    PROVE  SubmissionInv'
<1> USE DEF SubmissionInv
<1>1. /\ IsSeq(screens') /\ Len(screens) \in Nat /\ DOMAIN screens = 1..Len(screens)
      /\ Len(screens') = Len(screens) + 1
      /\ DOMAIN screens' = 1..(Len(screens) + 1)
      /\ screens'[Len(screens) + 1] = page
      /\ \A s \in DOMAIN screens : screens'[s] = screens[s]
  <2>1. IsSeq(screens)
    BY DEF Typed
  <2>2. /\ IsSeq(Append(screens, page))
        /\ Len(screens) \in Nat /\ DOMAIN screens = 1..Len(screens)
        /\ Len(Append(screens, page)) = Len(screens) + 1
        /\ DOMAIN Append(screens, page) = 1..(Len(screens) + 1)
        /\ Append(screens, page)[Len(screens) + 1] = page
        /\ \A s \in DOMAIN screens : Append(screens, page)[s] = screens[s]
    BY <2>1, Appending
  <2> QED
    BY <2>2
<1>2. Typed'
  BY <1>1, SettingsAssumption DEF Typed, IsSeq
<1>3. Ordered' /\ OneForAKey'
  BY DEF Ordered, OneForAKey
<1>4. Shown'
  BY <1>1 DEF Shown
<1>5. Requested'
  BY <1>1 DEF Requested, Names, Judged, FromPage, Recounted, OnRecord, Under
<1> QED
  BY <1>2, <1>3, <1>4, <1>5

(* An administrator or the state of the keys changes a connection: what    *)
(* has been asked keeps the configuration it read.                         *)
LEMMA ConnectionChanges ==
    ASSUME SubmissionInv,
           connections' \in [Connections -> [initialised : BOOLEAN,
                                             schemes : DOMAIN Profiles]],
           UNCHANGED <<setting, orders, trail, screens, requests>>
    PROVE  SubmissionInv'
BY DEF SubmissionInv, Typed, IsSeq, Ordered, Requested, Names, Judged, FromPage,
       Recounted, OnRecord, Under, Shown, OneForAKey

-----------------------------------------------------------------------------
(* Every step keeps the invariant.                                         *)

LEMMA InitInv == Init => SubmissionInv
<1> SUFFICES ASSUME Init PROVE SubmissionInv
  OBVIOUS
<1>1. <<>> \in Seq(Request) /\ IsSeq(<<>>) /\ Len(<<>>) = 0 /\ DOMAIN <<>> = {}
  BY DEF IsSeq
<1>2. Typed
  BY <1>1, SettingsAssumption DEF Init, Typed
<1>3. Ordered /\ Requested /\ Shown /\ OneForAKey
  BY <1>1 DEF Init, Ordered, Requested, Shown, OneForAKey
<1> QED
  BY <1>2, <1>3 DEF SubmissionInv

(* What a setting allows.                                                  *)
LEMMA SettingAllows ==
    ASSUME Typed
    PROVE  /\ setting.connections \subseteq Connections
           /\ setting.keys \subseteq 0..MaxRequests
           /\ setting.instructions \subseteq DOMAIN Instruction
           /\ setting.configs \subseteq DOMAIN Profiles
           /\ Spends("requests", Len(requests)) => Len(requests) < MaxRequests
           /\ Spends("previews", Len(screens)) => Len(screens) < MaxRequests
<1>1. /\ Len(requests) \in Nat /\ Len(screens) \in Nat
  BY DEF Typed, IsSeq
<1> QED
  BY <1>1, SettingsAssumption DEF Typed, Spends

LEMMA ArrivesInv ==
    ASSUME SubmissionInv, NEW c \in Connections, NEW key \in Keys,
           NEW i \in DOMAIN Instruction, NEW screen \in Nat,
           Arrives(c, key, i, screen),
           IF screen = NotFromScreen THEN key[1] = "client"
           ELSE /\ screen \in DOMAIN screens
                /\ key = <<"console", screen>>
                /\ c = screens[screen].connection
                /\ i = screens[screen].instruction
    PROVE  SubmissionInv'
<1> DEFINE q == [connection |-> c, key |-> key, instruction |-> i,
                 screen |-> screen, schemes |-> connections[c].schemes,
                 order |-> NoOrder,
                 step |-> IF connections[c].initialised THEN "find" ELSE "refused"]
<1>1. q \in Request
  BY DEF SubmissionInv, Typed, Request, Steps, NoOrder
<1>2. requests' = Append(requests, q) /\ Len(requests) < MaxRequests
      /\ UNCHANGED <<setting, connections, orders, trail, screens>>
  BY SettingAllows DEF Arrives, SubmissionInv
<1>3. q.order = NoOrder /\ q.step \in {"find", "refused"} /\ FromPage(q)
  BY DEF FromPage
<1> HIDE DEF q
<1> QED
  BY <1>1, <1>2, <1>3, RequestArrives

LEMMA SubmitInv ==
    ASSUME SubmissionInv, NEW c, NEW key, NEW i, submit_payment(c, key, i)
    PROVE  SubmissionInv'
<1>1. c \in Connections /\ <<"client", key>> \in Keys /\ i \in DOMAIN Instruction
  BY SettingAllows DEF submit_payment, SubmissionInv, Keys
<1> QED
  BY <1>1, ArrivesInv DEF submit_payment, NotFromScreen

LEMMA SendInv ==
    ASSUME SubmissionInv, NEW s \in DOMAIN screens, send_payment(s)
    PROVE  SubmissionInv'
<1>1. s \in 1..MaxRequests /\ s \in Nat /\ s # NotFromScreen
  BY Sized, SettingsAssumption DEF SubmissionInv, Typed, NotFromScreen
<1>2. /\ screens[s].connection \in Connections
      /\ screens[s].instruction \in DOMAIN Instruction
      /\ <<"console", s>> \in Keys
  BY <1>1, SettingsAssumption DEF SubmissionInv, Shown, Shows, Keys
<1> QED
  BY <1>1, <1>2, ArrivesInv DEF send_payment

LEMMA PreviewInv ==
    ASSUME SubmissionInv, NEW c, NEW i, preview(c, i)
    PROVE  SubmissionInv'
<1> DEFINE p == connections[c].schemes
           page == [connection |-> c, instruction |-> i, schemes |-> p,
                    document |-> build(Instruction[i],
                        ProfileOf(Profiles[p], resolve(Profiles[p], Instruction[i]).effective),
                        per_transaction(Instruction[i]))]
<1>1. /\ c \in Connections /\ i \in DOMAIN Instruction
      /\ Len(screens) < MaxRequests
  BY SettingAllows DEF preview, SubmissionInv
<1>2. /\ screens' = Append(screens, page)
      /\ Failures(Profiles[p], Instruction[i]) = {}
      /\ UNCHANGED <<setting, connections, orders, trail, requests>>
  BY Zenon DEF preview
<1>3. p \in DOMAIN Profiles
  BY <1>1 DEF SubmissionInv, Typed
<1>4. Shows(page)
  BY <1>1, <1>2, <1>3 DEF Shows
<1> HIDE DEF page
<1> QED
  BY <1>1, <1>2, <1>4, PageAppears

LEMMA UpdateInv ==
    ASSUME SubmissionInv, NEW c, NEW p, update(c, p)
    PROVE  SubmissionInv'
<1>1. c \in Connections /\ p \in DOMAIN Profiles
  BY SettingAllows DEF update, SubmissionInv
<1>2. connections' \in [Connections -> [initialised : BOOLEAN, schemes : DOMAIN Profiles]]
  BY <1>1 DEF update, SubmissionInv, Typed
<1> QED
  BY <1>2, ConnectionChanges DEF update

LEMMA KeyStateInv ==
    ASSUME SubmissionInv, NEW c, KeyStateChanges(c)
    PROVE  SubmissionInv'
<1>1. c \in Connections
  BY SettingAllows DEF KeyStateChanges, SubmissionInv
<1>2. connections' \in [Connections -> [initialised : BOOLEAN, schemes : DOMAIN Profiles]]
  BY <1>1 DEF KeyStateChanges, SubmissionInv, Typed
<1> QED
  BY <1>2, ConnectionChanges DEF KeyStateChanges

(* Two fields of the row of a request are written.                         *)
Wrote(r, o, step) == requests' = [requests EXCEPT ![r].order = o, ![r].step = step]

LEMMA Moved ==
    ASSUME Typed, NEW r \in DOMAIN requests, NEW o \in Nat, NEW step \in Steps,
           Wrote(r, o, step)
    PROVE  \E q \in Request :
               /\ Became(r, q) /\ SameQuestion(requests[r], q)
               /\ q.order = o /\ q.step = step
<1>1. requests[r] \in Request
  BY DEF Typed
<1>2. PICK q : q = [requests[r] EXCEPT !.order = o, !.step = step]
  OBVIOUS
<1>3. q \in Request /\ SameQuestion(requests[r], q) /\ q.order = o /\ q.step = step
  BY <1>1, <1>2 DEF Request, SameQuestion
<1>4. Became(r, q)
  BY <1>2 DEF Became, Wrote
<1> QED
  BY <1>3, <1>4

(* What the row of a request says, and what its key leads to.              *)
LEMMA Row ==
    ASSUME SubmissionInv, NEW r \in DOMAIN requests
    PROVE  /\ requests[r] \in Request
           /\ Names(requests[r]) /\ Judged(requests[r])
           /\ FromPage(requests[r]) /\ Recounted(r, requests[r])
           /\ r \in Nat
           /\ <<requests[r].connection, requests[r].key>> \in Slots
<1>1. requests[r] \in Request /\ r \in Nat
  BY DEF SubmissionInv, Typed
<1>2. requests[r].connection \in Connections /\ requests[r].key \in Keys
  BY <1>1 DEF Request
<1>3. <<requests[r].connection, requests[r].key>> \in Slots
  BY <1>2 DEF Slots, Keys
<1> QED
  BY <1>1, <1>3 DEF SubmissionInv, Requested

LEMMA UnderKey ==
    ASSUME SubmissionInv, NEW c, NEW key, NEW o \in Under(c, key)
    PROVE  /\ o \in DOMAIN orders /\ o \in Nat /\ o # NoOrder
           /\ orders[o].connection = c /\ orders[o].key = key
           /\ Under(c, key) = {o}
BY Sized DEF SubmissionInv, Typed, Under, OneForAKey, SameSlot, NoOrder

LEMMA FindsInv ==
    ASSUME SubmissionInv, NEW r \in DOMAIN requests, Finds(r)
    PROVE  SubmissionInv'
<1> DEFINE under == Under(requests[r].connection, requests[r].key)
<1>1. PICK o, step :
        /\ o = IF under = {} THEN NoOrder ELSE CHOOSE n \in under : TRUE
        /\ step = IF under # {} THEN "replay"
                  ELSE IF Broken(requests[r]) # {} THEN "reject" ELSE "insert"
  OBVIOUS
<1>2. o \in Nat /\ step \in Steps
  BY <1>1, UnderKey DEF NoOrder, Steps
<1>3. Wrote(r, o, step)
  BY <1>1 DEF Finds, Broken, Wrote
<1>4. PICK q \in Request :
        /\ Became(r, q) /\ SameQuestion(requests[r], q) /\ q.order = o /\ q.step = step
  BY <1>2, <1>3, Moved DEF SubmissionInv
<1>5. /\ requests[r].step = "find"
      /\ UNCHANGED <<setting, connections, orders, screens>> /\ trail \subseteq trail'
  BY DEF Finds
<1>6. Names(q)
  BY <1>1, <1>4, UnderKey DEF Names, SameSlot, SameQuestion
<1>7. Judged(q)
  BY <1>1, <1>4 DEF Judged, Broken, SameQuestion
<1>8. q.step \notin {"announce", "accepted"}
  BY <1>1, <1>4
<1> QED
  BY <1>4, <1>5, <1>6, <1>7, <1>8, RequestMoves

LEMMA RejectInv ==
    ASSUME SubmissionInv, NEW r \in DOMAIN requests, _reject(r)
    PROVE  SubmissionInv'
<1>1. PICK q \in Request :
        /\ Became(r, q) /\ SameQuestion(requests[r], q)
        /\ q.order = requests[r].order /\ q.step = "refused"
  BY GoesBecame DEF _reject, SubmissionInv, Steps
<1>2. /\ requests[r].step = "reject"
      /\ UNCHANGED <<setting, connections, orders, screens>> /\ trail \subseteq trail'
  BY DEF _reject, Recorded
<1>3. Names(q) /\ Judged(q)
  BY <1>1, Row DEF Names, Judged
<1> QED
  BY <1>1, <1>2, <1>3, RequestMoves

(* What _insert leaves in the table and in the row of its request.         *)
LEMMA InsertEffect ==
    ASSUME SubmissionInv, NEW r \in DOMAIN requests, _insert(r)
    PROVE  /\ requests[r].step = "insert"
           /\ UNCHANGED <<setting, connections, trail, screens>>
           /\ IF Under(requests[r].connection, requests[r].key) = {}
              THEN \E q \in Request, order \in {orders'[Len(orders) + 1]} :
                       /\ Became(r, q) /\ SameQuestion(requests[r], q)
                       /\ q.order = Len(orders) + 1 /\ q.step = "announce"
                       /\ orders' = Append(orders, order)
                       /\ order.request = r
                       /\ Entered(order, Len(orders) + 1, q)
              ELSE Goes(r, "again") /\ UNCHANGED orders
<1>1. /\ requests[r].step = "insert"
      /\ UNCHANGED <<setting, connections, trail, screens>>
  BY DEF _insert
<1>2. CASE Under(requests[r].connection, requests[r].key) # {}
  BY <1>1, <1>2 DEF _insert, InsertSucceeds
<1>3. CASE Under(requests[r].connection, requests[r].key) = {}
  <2>1. PICK order :
          order = [connection |-> requests[r].connection, key |-> requests[r].key,
                   instruction |-> requests[r].instruction, request |-> r,
                   requested_scheme |-> Decision(requests[r]).requested,
                   scheme |-> Decision(requests[r]).effective,
                   scheme_reason |-> Decision(requests[r]).reason,
                   attempts |-> Attempts(r, requests[r])]
    OBVIOUS
  <2>2. /\ orders' = Append(orders, order)
        /\ Wrote(r, Len(orders) + 1, "announce")
    BY <1>3, <2>1 DEF _insert, InsertSucceeds, Decision, Attempts, Wrote
  <2>3. IsSeq(orders)
    BY DEF SubmissionInv, Typed
  <2>4. Len(orders) + 1 \in Nat /\ orders'[Len(orders) + 1] = order
    BY <2>2, <2>3, Appending
  <2>5. PICK q \in Request :
          /\ Became(r, q) /\ SameQuestion(requests[r], q)
          /\ q.order = Len(orders) + 1 /\ q.step = "announce"
    BY <2>2, <2>4, Moved DEF SubmissionInv, Steps
  <2>6. Broken(requests[r]) = {}
    BY <1>1, Row DEF Judged
  <2>7. order.request = r /\ Entered(order, Len(orders) + 1, q)
    BY <2>1, <2>5, <2>6
       DEF Entered, SameSlot, SameQuestion, Broken, Decision, Attempts
  <2> QED
    BY <1>1, <1>3, <2>2, <2>4, <2>5, <2>7
<1> QED
  BY <1>2, <1>3

LEMMA InsertInv ==
    ASSUME SubmissionInv, NEW r \in DOMAIN requests, _insert(r)
    PROVE  SubmissionInv'
<1>1. CASE Under(requests[r].connection, requests[r].key) = {}
  <2>1. PICK q \in Request, order \in {orders'[Len(orders) + 1]} :
          /\ Became(r, q) /\ SameQuestion(requests[r], q)
          /\ q.order = Len(orders) + 1 /\ q.step = "announce"
          /\ orders' = Append(orders, order)
          /\ order.request = r
          /\ Entered(order, Len(orders) + 1, q)
    BY <1>1, InsertEffect
  <2>2. Under(q.connection, q.key) = {} /\ requests[r].step = "insert"
        /\ UNCHANGED <<setting, connections, trail, screens>>
    BY <1>1, <2>1, InsertEffect DEF SameQuestion
  <2> QED
    BY <2>1, <2>2, OrderEnters
<1>2. CASE Under(requests[r].connection, requests[r].key) # {}
  <2>1. /\ Goes(r, "again") /\ requests[r].step = "insert"
        /\ UNCHANGED <<setting, connections, orders, trail, screens>>
    BY <1>2, InsertEffect
  <2>2. PICK q \in Request :
          /\ Became(r, q) /\ SameQuestion(requests[r], q)
          /\ q.order = requests[r].order /\ q.step = "again"
    BY <2>1, GoesBecame DEF SubmissionInv, Steps
  <2>3. Names(q) /\ Judged(q)
    BY <1>2, <2>2, Row DEF Names, Judged, SameQuestion
  <2> QED
    BY <2>1, <2>2, <2>3, RequestMoves
<1> QED
  BY <1>1, <1>2

LEMMA FindsWinnerInv ==
    ASSUME SubmissionInv, NEW r \in DOMAIN requests, FindsWinner(r)
    PROVE  SubmissionInv'
<1>1. PICK o : o = CHOOSE n \in Under(requests[r].connection, requests[r].key) : TRUE
  OBVIOUS
<1>2. requests[r].step = "again"
  BY DEF FindsWinner
<1>3. o \in Under(requests[r].connection, requests[r].key)
  BY <1>1, <1>2, Row DEF Names
<1>4. o \in Nat /\ o \in DOMAIN orders /\ SameSlot(orders[o], requests[r])
  BY <1>3, UnderKey DEF SameSlot
<1>5. Wrote(r, o, "replay")
  BY <1>1 DEF FindsWinner, Wrote
<1>6. PICK q \in Request :
        /\ Became(r, q) /\ SameQuestion(requests[r], q) /\ q.order = o /\ q.step = "replay"
  BY <1>4, <1>5, Moved DEF SubmissionInv, Steps
<1>7. UNCHANGED <<setting, connections, orders, screens>> /\ trail \subseteq trail'
  BY DEF FindsWinner
<1>8. Names(q) /\ Judged(q)
  BY <1>4, <1>6 DEF Names, Judged, SameSlot, SameQuestion
<1> QED
  BY <1>2, <1>6, <1>7, <1>8, RequestMoves

LEMMA AnnouncesInv ==
    ASSUME SubmissionInv, NEW r \in DOMAIN requests, Announces(r)
    PROVE  SubmissionInv'
<1>1. PICK q \in Request :
        /\ Became(r, q) /\ SameQuestion(requests[r], q)
        /\ q.order = requests[r].order /\ q.step = "accepted"
  BY GoesBecame DEF Announces, SubmissionInv, Steps
<1>2. /\ requests[r].step = "announce"
      /\ UNCHANGED <<setting, connections, orders, screens>>
      /\ trail' = trail \cup {[action |-> "payment.accepted", request |-> r,
                               order |-> requests[r].order]}
  BY DEF Announces, Recorded
<1>3. Names(q) /\ Judged(q)
  BY <1>1, <1>2, Row DEF Names, Judged, SameSlot, SameQuestion
<1>4. orders[q.order].request = r
  BY <1>1, <1>2, Row DEF Recounted
<1>5. OnRecord(r, q.order)'
  <2>1. orders'[q.order].request = r
    BY <1>2, <1>4
  <2>2. [action |-> "payment.accepted", request |-> r, order |-> q.order] \in trail'
    BY <1>1, <1>2
  <2> QED
    BY <2>1, <2>2 DEF OnRecord
<1> QED
  BY <1>1, <1>2, <1>3, <1>5, RequestMoves

(* A replay is never of the request's own order.                           *)
LEMMA ReplayIsOfAnother ==
    ASSUME SubmissionInv, NEW r \in DOMAIN requests, requests[r].step = "replay"
    PROVE  /\ requests[r].order \in DOMAIN orders
           /\ SameSlot(orders[requests[r].order], requests[r])
           /\ orders[requests[r].order].request # r
<1>1. requests[r].order \in DOMAIN orders /\ SameSlot(orders[requests[r].order], requests[r])
  BY Row DEF Names
<1> QED
  BY <1>1 DEF SubmissionInv, Ordered, Entered

(* A replay is accepted exactly when it asks for the payment of the order. *)
LEMMA ReplayEffect ==
    ASSUME SubmissionInv, NEW r \in DOMAIN requests, _replay(r)
    PROVE  LET o == requests[r].order
               same == orders[o].instruction = requests[r].instruction
           IN  /\ requests[r].step = "replay"
               /\ Goes(r, IF same THEN "accepted" ELSE "conflict")
               /\ trail' = trail \cup
                      {[action |-> IF same THEN "payment.replayed" ELSE "payment.conflict",
                        request |-> r, order |-> o]}
               /\ UNCHANGED <<setting, connections, orders, screens>>
<1>1. requests[r].step = "replay"
  BY DEF _replay
<1>2. StoredPrintMatches(requests[r].order, r)
          <=> orders[requests[r].order].instruction = requests[r].instruction
  BY <1>1, ReplayIsOfAnother DEF StoredPrintMatches, fingerprint, SameSlot
<1> QED
  BY <1>2 DEF _replay, Recorded

LEMMA ReplayInv ==
    ASSUME SubmissionInv, NEW r \in DOMAIN requests, _replay(r)
    PROVE  SubmissionInv'
<1> DEFINE same == orders[requests[r].order].instruction = requests[r].instruction
<1>1. PICK step : step = IF same THEN "accepted" ELSE "conflict"
  OBVIOUS
<1>2. /\ requests[r].step = "replay" /\ Goes(r, step)
      /\ trail' = trail \cup
             {[action |-> IF same THEN "payment.replayed" ELSE "payment.conflict",
               request |-> r, order |-> requests[r].order]}
      /\ UNCHANGED <<setting, connections, orders, screens>>
  BY <1>1, ReplayEffect
<1>3. PICK q \in Request :
        /\ Became(r, q) /\ SameQuestion(requests[r], q)
        /\ q.order = requests[r].order /\ q.step = step
  BY <1>1, <1>2, GoesBecame DEF SubmissionInv, Steps
<1>4. Names(q) /\ Judged(q)
  BY <1>1, <1>2, <1>3, ReplayIsOfAnother DEF Names, Judged, SameSlot, SameQuestion
<1>5. ASSUME q.step = "accepted" PROVE OnRecord(r, q.order)'
  <2>1. orders'[q.order].request # r
    BY <1>2, <1>3, ReplayIsOfAnother
  <2>2. [action |-> "payment.replayed", request |-> r, order |-> q.order] \in trail'
    BY <1>1, <1>2, <1>3, <1>5
  <2> QED
    BY <2>1, <2>2 DEF OnRecord
<1>6. q.step # "announce"
  BY <1>1, <1>3
<1> QED
  BY <1>2, <1>3, <1>4, <1>5, <1>6, RequestMoves

LEMMA LostInv ==
    ASSUME SubmissionInv, NEW r \in DOMAIN requests, Lost(r)
    PROVE  SubmissionInv'
<1>1. PICK q \in Request :
        /\ Became(r, q) /\ SameQuestion(requests[r], q)
        /\ q.order = requests[r].order /\ q.step = "lost"
  BY GoesBecame DEF Lost, SubmissionInv, Steps
<1>2. UNCHANGED <<setting, connections, orders, screens>> /\ trail \subseteq trail'
  BY DEF Lost
<1>3. Names(q) /\ Judged(q)
  BY <1>1, Row DEF Names, Judged
<1> QED
  BY <1>1, <1>2, <1>3, RequestMoves

LEMMA StepInv == SubmissionInv /\ [Next]_vars => SubmissionInv'
<1> SUFFICES ASSUME SubmissionInv, [Next]_vars PROVE SubmissionInv'
  OBVIOUS
<1>1. CASE UNCHANGED vars
  BY <1>1 DEF vars, SubmissionInv, Typed, IsSeq, Ordered, Requested, Names, Judged,
              FromPage, Recounted, OnRecord, Under, Shown, OneForAKey
<1>2. ASSUME NEW c \in setting.connections, NEW key \in setting.keys,
             NEW i \in setting.instructions, submit_payment(c, key, i)
      PROVE  SubmissionInv'
  BY <1>2, SubmitInv
<1>3. ASSUME NEW c \in setting.connections, NEW i \in setting.instructions, preview(c, i)
      PROVE  SubmissionInv'
  BY <1>3, PreviewInv
<1>4. ASSUME NEW c \in setting.connections, NEW p \in setting.configs, update(c, p)
      PROVE  SubmissionInv'
  BY <1>4, UpdateInv
<1>5. ASSUME NEW c \in setting.connections, KeyStateChanges(c)
      PROVE  SubmissionInv'
  BY <1>5, KeyStateInv
<1>6. ASSUME NEW s \in DOMAIN screens, send_payment(s)
      PROVE  SubmissionInv'
  BY <1>6, SendInv
<1>7. ASSUME NEW r \in DOMAIN requests,
             \/ Finds(r) \/ _reject(r) \/ _insert(r) \/ Announces(r)
             \/ FindsWinner(r) \/ _replay(r) \/ Lost(r)
      PROVE  SubmissionInv'
  BY <1>7, FindsInv, RejectInv, InsertInv, AnnouncesInv, FindsWinnerInv, ReplayInv, LostInv
<1> QED
  BY <1>1, <1>2, <1>3, <1>4, <1>5, <1>6, <1>7 DEF Next

LEMMA Invariant == Spec => []SubmissionInv
BY InitInv, StepInv, PTL DEF Spec

-----------------------------------------------------------------------------
(* What the invariant says of the properties.                              *)

(* The attempt that goes first is live, and is the payment under the       *)
(* profile of the scheme that was decided on.                              *)
LEMMA FirstAttempt ==
    ASSUME NEW i, NEW decision, NEW profiles, NEW r
    PROVE  /\ 1 \in DOMAIN _build(i, decision, profiles, r)
           /\ _build(i, decision, profiles, r)[1].state = "live"
           /\ _build(i, decision, profiles, r)[1].document =
                  build(i, ProfileOf(profiles, decision.effective), per_transaction(i))
<1>1. 1 \in DOMAIN Schemes(decision) /\ Schemes(decision)[1] = decision.effective
  BY DEF Schemes
<1> QED
  BY <1>1 DEF _build

LEMMA InvTypeOK == SubmissionInv => TypeOK
<1> SUFFICES ASSUME SubmissionInv PROVE TypeOK
  OBVIOUS
<1>1. setting \in Settings
      /\ connections \in [Connections -> [initialised : BOOLEAN, schemes : DOMAIN Profiles]]
  BY DEF SubmissionInv, Typed
<1>2. ASSUME NEW o \in DOMAIN orders
      PROVE  /\ orders[o].connection \in Connections
             /\ orders[o].instruction \in DOMAIN Instruction
             /\ orders[o].attempts[1].state = "live"
  <2>1. /\ orders[o].request \in DOMAIN requests
        /\ Entered(orders[o], o, requests[orders[o].request])
    BY DEF SubmissionInv, Ordered
  <2>2. requests[orders[o].request] \in Request
    BY <2>1, Row
  <2> QED
    BY <2>1, <2>2, FirstAttempt DEF Entered, SameSlot, Attempts, Request
<1>3. ASSUME NEW r \in DOMAIN requests
      PROVE  /\ requests[r].step \in Steps
             /\ requests[r].order \in {NoOrder} \cup DOMAIN orders
             /\ requests[r].screen \in {NotFromScreen} \cup DOMAIN screens
  BY Row DEF Request, Names, FromPage
<1> QED
  BY <1>1, <1>2, <1>3 DEF TypeOK, Steps

(* A page is confirmed, and what was checked for it is what is checked for *)
(* the request.                                                            *)
LEMMA InvShownIsSent == SubmissionInv => ShownIsSent
<1> SUFFICES ASSUME SubmissionInv PROVE ShownIsSent
  OBVIOUS
<1> DEFINE Unchanged(q) == /\ q.screen # NotFromScreen
                           /\ q.schemes = screens[q.screen].schemes
           PageOf(o) == requests[orders[o].request].screen
<1>1. ASSUME NEW r \in DOMAIN requests, Unchanged(requests[r])
      PROVE  /\ requests[r].screen \in DOMAIN screens
             /\ Broken(requests[r]) = {}
             /\ screens[requests[r].screen].document =
                    build(Instruction[requests[r].instruction],
                          ProfileOf(Profiles[requests[r].schemes],
                                    Decision(requests[r]).effective),
                          per_transaction(Instruction[requests[r].instruction]))
  BY <1>1, Row DEF FromPage, SubmissionInv, Shown, Shows, Broken, Decision
<1>2. ASSUME NEW r \in DOMAIN requests, Unchanged(requests[r])
      PROVE  requests[r].step \notin {"reject", "conflict"}
  <2>1. requests[r].step # "reject"
    BY <1>1, <1>2, Row DEF Judged
  <2>2. ASSUME requests[r].step = "conflict" PROVE FALSE
    <3>1. PICK o \in DOMAIN orders :
            SameSlot(orders[o], requests[r]) /\ orders[o].instruction # requests[r].instruction
      BY <2>2, Row DEF Names
    <3>2. PICK p \in DOMAIN requests : Entered(orders[o], o, requests[p])
      BY DEF SubmissionInv, Ordered
    <3>3. requests[p].key = <<"console", requests[r].screen>>
          /\ requests[r].instruction = screens[requests[r].screen].instruction
      BY <1>2, <3>1, <3>2, Row DEF Entered, SameSlot, FromPage
    <3>4. requests[p].screen = requests[r].screen
      <4>1. <<"console", requests[r].screen>>[1] = "console"
            /\ <<"console", requests[r].screen>>[2] = requests[r].screen
        OBVIOUS
      <4>2. requests[p].key[1] = "console" /\ requests[p].key[2] = requests[r].screen
        BY <3>3, <4>1
      <4>3. requests[p].screen # NotFromScreen
        BY <4>2, Row DEF FromPage
      <4>4. requests[p].key = <<"console", requests[p].screen>>
        BY <4>3, Row DEF FromPage
      <4> QED
        BY <3>3, <4>4
    <3>5. requests[p].instruction = screens[requests[r].screen].instruction
      BY <1>2, <3>4, Row DEF FromPage
    <3> QED
      BY <3>1, <3>2, <3>3, <3>5 DEF Entered
  <2> QED
    BY <2>1, <2>2
<1>3. ASSUME NEW o \in DOMAIN orders, Unchanged(requests[orders[o].request])
      PROVE  orders[o].attempts[1].document
                 = screens[requests[orders[o].request].screen].document
  <2>1. PICK r \in DOMAIN requests : r = orders[o].request /\ Entered(orders[o], o, requests[r])
    BY DEF SubmissionInv, Ordered
  <2> QED
    BY <1>1, <1>3, <2>1, FirstAttempt DEF Entered, Attempts
<1>4. ASSUME NEW o \in DOMAIN orders, NEW p \in DOMAIN orders, o # p,
             PageOf(o) # NotFromScreen
      PROVE  PageOf(o) # PageOf(p)
  <2>1. PICK r \in DOMAIN requests, t \in DOMAIN requests :
          /\ r = orders[o].request /\ Entered(orders[o], o, requests[r])
          /\ t = orders[p].request /\ Entered(orders[p], p, requests[t])
    BY DEF SubmissionInv, Ordered
  <2>2. ~SameSlot(orders[o], orders[p])
    BY <1>4 DEF SubmissionInv, OneForAKey
  <2> QED
    <3>1. PageOf(o) = requests[r].screen /\ PageOf(p) = requests[t].screen BY <2>1
    <3>2. CASE requests[r].screen = requests[t].screen
      <4>1. requests[r].screen # NotFromScreen /\ requests[t].screen # NotFromScreen
        BY <1>4, <3>1, <3>2
      <4>2. /\ requests[r].connection = requests[t].connection
            /\ requests[r].key = requests[t].key
        BY <3>2, <4>1, Row DEF FromPage
      <4> QED BY <2>1, <2>2, <4>2 DEF Entered, SameSlot
    <3> QED BY <3>1, <3>2
<1> QED
  BY <1>2, <1>3, <1>4 DEF ShownIsSent

-----------------------------------------------------------------------------
(* The table as a book, in which a key stands for one payment.             *)

AskedBy == [r \in RequestIds |-> Asked(r)]

Answers == [r \in RequestIds |-> Told(r)]

SlotOf(x) == <<x.connection, x.key>>

(* A slot is free until an order is entered under it, and stands for the   *)
(* payment of that one order from then on.                                 *)
Stands(s) ==
    /\ Under(s[1], s[2]) = {} => Book[s] = Unset
    /\ \A o \in Under(s[1], s[2]) : Book[s] = orders[o].instruction

LEMMA BookStands == SubmissionInv => \A s \in Slots : Stands(s)
<1> SUFFICES ASSUME SubmissionInv, NEW s \in Slots PROVE Stands(s)
  OBVIOUS
<1> DEFINE under == Under(s[1], s[2])
<1>1. Book[s] = CASE under = {} -> Unset
                  [] Cardinality(under) = 1 ->
                         orders[CHOOSE n \in under : TRUE].instruction
                  [] OTHER -> TwoOrders
  BY DEF Book
<1>2. ASSUME NEW o \in under PROVE Book[s] = orders[o].instruction
  <2>1. under = {o}
    BY UnderKey
  <2>2. Cardinality(under) = 1 /\ under # {} /\ (CHOOSE n \in under : TRUE) = o
    BY <2>1, FS_Singleton
  <2> QED
    BY <1>1, <2>2
<1>3. CASE under = {}
  <2>1. Cardinality(under) # 1
    BY <1>3, FS_EmptySet
  <2> QED
    BY <1>1, <1>3, <2>1 DEF Stands
<1> QED
  BY <1>2, <1>3 DEF Stands

(* An answer is on record whenever there is one.                           *)
Tells(r) ==
    Told(r) = IF Open(r) THEN "nothing" ELSE requests[r].step

LEMMA ToldIsStep == SubmissionInv => \A r \in DOMAIN requests : Tells(r)
BY Row DEF Tells, Told, Recounted

LEMMA ToldIsStepNext == (SubmissionInv => \A r \in DOMAIN requests : Tells(r))'
BY ToldIsStep, PTL

LEMMA RequestId ==
    ASSUME SubmissionInv, NEW r \in DOMAIN requests
    PROVE  r \in RequestIds
BY SettingsAssumption DEF SubmissionInv, Typed, RequestIds

(* What was asked, as the book sees it.                                    *)
LEMMA AskedIs ==
    ASSUME SubmissionInv, NEW r \in DOMAIN requests
    PROVE  /\ AskedBy[r] = [slot |-> SlotOf(requests[r]),
                            payment |-> requests[r].instruction]
           /\ AskedBy[r] # Unset
           /\ AskedBy[r].slot = SlotOf(requests[r])
           /\ AskedBy[r].payment = requests[r].instruction
           /\ SlotOf(requests[r]) \in Slots
           /\ requests[r].instruction \in DOMAIN Instruction
<1>1. /\ SlotOf(requests[r]) \in Slots
      /\ requests[r].instruction \in DOMAIN Instruction
  BY Row DEF SlotOf, Request
<1>2. AskedBy[r] = [slot |-> SlotOf(requests[r]), payment |-> requests[r].instruction]
  BY RequestId DEF AskedBy, Asked, SlotOf
<1> QED
  BY <1>1, <1>2, UnsetAssumption

LEMMA Askable ==
    SubmissionInv => \A r \in DOMAIN requests :
        /\ r \in RequestIds /\ SlotOf(requests[r]) \in Slots
        /\ requests[r].instruction \in DOMAIN Instruction
BY AskedIs, RequestId

LEMMA AskableNext ==
    (SubmissionInv => \A r \in DOMAIN requests :
        /\ r \in RequestIds /\ SlotOf(requests[r]) \in Slots
        /\ requests[r].instruction \in DOMAIN Instruction)'
BY Askable, PTL

LEMMA BookOfSlots == Book = [s \in Slots |-> Book[s]]
<1> DEFINE Entry(s) ==
        LET under == Under(s[1], s[2]) IN
            CASE under = {} -> Unset
              [] Cardinality(under) = 1 ->
                     orders[CHOOSE o \in under : TRUE].instruction
              [] OTHER -> TwoOrders
<1>1. Book = [s \in Slots |-> Entry(s)]
  BY DEF Book
<1> HIDE DEF Entry
<1> QED
  BY <1>1

LEMMA BookOfSlotsNext == (Book = [s \in Slots |-> Book[s]])'
BY BookOfSlots, PTL

(* The book is a reading of the order table alone.                         *)
LEMMA BookUnchanged ==
    ASSUME UNCHANGED orders PROVE Book' = Book
BY DEF Book, Under

(* A request that moves on changes its own answer and nothing else.        *)
LEMMA AnswerMoves ==
    ASSUME SubmissionInv, SubmissionInv', NEW r \in DOMAIN requests, NEW q \in Request,
           Became(r, q), SameQuestion(requests[r], q)
    PROVE  /\ AskedBy' = AskedBy
           /\ Answers' = [Answers EXCEPT ![r] = Told(r)']
<1>1. /\ DOMAIN requests' = DOMAIN requests
      /\ requests'[r] = q
      /\ \A p \in DOMAIN requests : p # r => requests'[p] = requests[p]
  BY BecameEffect DEF SubmissionInv
<1>2. ASSUME NEW p \in RequestIds PROVE Asked(p)' = Asked(p)
  BY <1>1 DEF Asked, SameQuestion
<1>3. ASSUME NEW p \in RequestIds, p # r PROVE Told(p)' = Told(p)
  <2>1. CASE p \notin DOMAIN requests
    BY <1>1, <2>1 DEF Told
  <2>2. CASE p \in DOMAIN requests
    <3>1. Tells(p) /\ Tells(p)'
      BY <1>1, <2>2, ToldIsStep, ToldIsStepNext
    <3>2. requests'[p] = requests[p]
      BY <1>1, <1>3, <2>2
    <3> QED
      BY <3>1, <3>2 DEF Tells, Open
  <2> QED
    BY <2>1, <2>2
<1>4. AskedBy' = AskedBy
  BY <1>2 DEF AskedBy
<1>5. Answers' = [Answers EXCEPT ![r] = Told(r)']
  BY <1>3 DEF Answers
<1> QED
  BY <1>4, <1>5

(* ... which was, and becomes, what its step says.                         *)
LEMMA AnswerOf ==
    ASSUME SubmissionInv, SubmissionInv', NEW r \in DOMAIN requests, NEW q \in Request,
           Became(r, q)
    PROVE  /\ Told(r) = IF Open(r) THEN "nothing" ELSE requests[r].step
           /\ Told(r)' = IF q.step \in {"find", "reject", "insert", "announce",
                                        "again", "replay"}
                         THEN "nothing" ELSE q.step
           /\ Answers[r] = Told(r)
<1>1. DOMAIN requests' = DOMAIN requests /\ requests'[r] = q
  BY BecameEffect DEF SubmissionInv
<1>3. Tells(r) /\ Tells(r)'
  BY <1>1, ToldIsStep, ToldIsStepNext
<1>4. Answers[r] = Told(r)
  BY RequestId DEF Answers
<1> QED
  BY <1>1, <1>3, <1>4 DEF Tells, Open

(* A step of a request that is still open, and stays so.                   *)
LEMMA StaysOpen ==
    ASSUME SubmissionInv, SubmissionInv', NEW r \in DOMAIN requests, NEW q \in Request,
           Became(r, q), SameQuestion(requests[r], q), UNCHANGED orders, Open(r),
           q.step \in {"find", "reject", "insert", "announce", "again", "replay"}
    PROVE  UNCHANGED Promise!vars
<1>1. Told(r)' = Answers[r]
  BY AnswerOf
<1>2. r \in DOMAIN Answers
  BY RequestId DEF Answers
<1>3. Answers' = Answers
  BY <1>1, <1>2, AnswerMoves DEF Answers
<1>4. Book' = Book /\ AskedBy' = AskedBy
  BY BookUnchanged, AnswerMoves
<1> QED
  BY <1>3, <1>4 DEF Promise!vars, AskedBy, Answers

(* A request is answered.                                                  *)
LEMMA IsAnswered ==
    ASSUME SubmissionInv, SubmissionInv', NEW r \in DOMAIN requests, NEW q \in Request,
           Became(r, q), SameQuestion(requests[r], q), UNCHANGED orders, Open(r),
           \/ q.step \in {"refused", "lost"}
           \/ /\ q.step = "accepted"
              /\ Book[SlotOf(requests[r])] = requests[r].instruction
           \/ /\ q.step = "conflict"
              /\ Book[SlotOf(requests[r])] \notin {Unset, requests[r].instruction}
    PROVE  Promise!Next
<1>1. r \in RequestIds /\ Answers[r] = "nothing" /\ Told(r)' = q.step
  BY AnswerOf, RequestId
<1>2. Answers' = [Answers EXCEPT ![r] = q.step]
  BY <1>1, AnswerMoves
<1>3. Book' = Book /\ AskedBy' = AskedBy
  BY BookUnchanged, AnswerMoves
<1>4. /\ AskedBy[r] # Unset
      /\ AskedBy[r].slot = SlotOf(requests[r])
      /\ AskedBy[r].payment = requests[r].instruction
  BY AskedIs
<1>5. Promise!Tell(r)
  BY <1>1, <1>2, <1>3, <1>4 DEF Promise!Tell, AskedBy, Answers
<1> QED
  BY <1>1, <1>5 DEF Promise!Next

(* The order a request stands on is under its slot.                        *)
LEMMA SlotStands ==
    ASSUME SubmissionInv, NEW r \in DOMAIN requests, NEW o \in DOMAIN orders,
           SameSlot(orders[o], requests[r])
    PROVE  /\ Book[SlotOf(requests[r])] = orders[o].instruction
           /\ Book[SlotOf(requests[r])] # Unset
<1>1. SlotOf(requests[r]) \in Slots
  BY AskedIs
<1>2. o \in Under(SlotOf(requests[r])[1], SlotOf(requests[r])[2])
  BY DEF Under, SameSlot, SlotOf
<1>3. Book[SlotOf(requests[r])] = orders[o].instruction
  BY <1>1, <1>2, BookStands DEF Stands
<1>4. orders[o].instruction \in DOMAIN Instruction
  BY InvTypeOK DEF TypeOK
<1> QED
  BY <1>3, <1>4, UnsetAssumption

LEMMA FindsMaps ==
    ASSUME SubmissionInv, SubmissionInv', NEW r \in DOMAIN requests, Finds(r)
    PROVE  UNCHANGED Promise!vars
<1> DEFINE under == Under(requests[r].connection, requests[r].key)
<1>1. PICK o, step :
        /\ o = IF under = {} THEN NoOrder ELSE CHOOSE n \in under : TRUE
        /\ step = IF under # {} THEN "replay"
                  ELSE IF Broken(requests[r]) # {} THEN "reject" ELSE "insert"
  OBVIOUS
<1>2. o \in Nat /\ step \in Steps
  BY <1>1, UnderKey DEF NoOrder, Steps
<1>3. Wrote(r, o, step)
  BY <1>1 DEF Finds, Broken, Wrote
<1>4. PICK q \in Request : Became(r, q) /\ SameQuestion(requests[r], q) /\ q.step = step
  BY <1>2, <1>3, Moved DEF SubmissionInv
<1>5. q.step \in {"find", "reject", "insert", "announce", "again", "replay"}
  BY <1>1, <1>4
<1>6. UNCHANGED orders /\ Open(r)
  BY DEF Finds, Open
<1> QED
  BY <1>4, <1>5, <1>6, StaysOpen

LEMMA FindsWinnerMaps ==
    ASSUME SubmissionInv, SubmissionInv', NEW r \in DOMAIN requests, FindsWinner(r)
    PROVE  UNCHANGED Promise!vars
<1>1. PICK o : o = CHOOSE n \in Under(requests[r].connection, requests[r].key) : TRUE
  OBVIOUS
<1>2. UNCHANGED orders /\ Open(r) /\ requests[r].step = "again"
  BY DEF FindsWinner, Open
<1>3. o \in Nat
  <2>1. o \in Under(requests[r].connection, requests[r].key)
    BY <1>1, <1>2, Row DEF Names
  <2> QED
    BY <2>1, UnderKey
<1>4. Wrote(r, o, "replay")
  BY <1>1 DEF FindsWinner, Wrote
<1>5. PICK q \in Request : Became(r, q) /\ SameQuestion(requests[r], q) /\ q.step = "replay"
  BY <1>3, <1>4, Moved DEF SubmissionInv, Steps
<1> QED
  BY <1>2, <1>5, StaysOpen

LEMMA RejectMaps ==
    ASSUME SubmissionInv, SubmissionInv', NEW r \in DOMAIN requests, _reject(r)
    PROVE  Promise!Next
<1>1. PICK q \in Request :
        Became(r, q) /\ SameQuestion(requests[r], q) /\ q.step = "refused"
  BY GoesBecame DEF _reject, SubmissionInv, Steps
<1>2. UNCHANGED orders /\ Open(r)
  BY DEF _reject, Open
<1> QED
  BY <1>1, <1>2, IsAnswered

LEMMA LostMaps ==
    ASSUME SubmissionInv, SubmissionInv', NEW r \in DOMAIN requests, Lost(r)
    PROVE  Promise!Next
<1>1. PICK q \in Request :
        Became(r, q) /\ SameQuestion(requests[r], q) /\ q.step = "lost"
  BY GoesBecame DEF Lost, SubmissionInv, Steps
<1>2. UNCHANGED orders /\ Open(r)
  BY DEF Lost
<1> QED
  BY <1>1, <1>2, IsAnswered

LEMMA AnnouncesMaps ==
    ASSUME SubmissionInv, SubmissionInv', NEW r \in DOMAIN requests, Announces(r)
    PROVE  Promise!Next
<1>1. PICK q \in Request :
        Became(r, q) /\ SameQuestion(requests[r], q) /\ q.step = "accepted"
  BY GoesBecame DEF Announces, SubmissionInv, Steps
<1>2. UNCHANGED orders /\ Open(r) /\ requests[r].step = "announce"
  BY DEF Announces, Open
<1>3. PICK o \in DOMAIN orders :
        o = requests[r].order /\ SameSlot(orders[o], requests[r]) /\ orders[o].request = r
  BY <1>2, Row DEF Names, Recounted
<1>4. orders[o].instruction = requests[r].instruction
  BY <1>3 DEF SubmissionInv, Ordered, Entered
<1>5. Book[SlotOf(requests[r])] = requests[r].instruction
  BY <1>3, <1>4, SlotStands
<1> QED
  BY <1>1, <1>2, <1>5, IsAnswered

LEMMA ReplayMaps ==
    ASSUME SubmissionInv, SubmissionInv', NEW r \in DOMAIN requests, _replay(r)
    PROVE  Promise!Next
<1> DEFINE same == orders[requests[r].order].instruction = requests[r].instruction
<1>1. PICK step : step = IF same THEN "accepted" ELSE "conflict"
  OBVIOUS
<1>2. requests[r].step = "replay" /\ Goes(r, step) /\ UNCHANGED orders /\ Open(r)
  BY <1>1, ReplayEffect DEF Open
<1>3. PICK q \in Request :
        Became(r, q) /\ SameQuestion(requests[r], q) /\ q.step = step
  BY <1>1, <1>2, GoesBecame DEF SubmissionInv, Steps
<1>4. /\ Book[SlotOf(requests[r])] = orders[requests[r].order].instruction
      /\ Book[SlotOf(requests[r])] # Unset
  BY <1>2, ReplayIsOfAnother, SlotStands
<1> QED
  BY <1>1, <1>2, <1>3, <1>4, IsAnswered

LEMMA BookStandsNext == (SubmissionInv => \A s \in Slots : Stands(s))'
BY BookStands, PTL

LEMMA EnterMaps ==
    ASSUME SubmissionInv, SubmissionInv', NEW r \in DOMAIN requests, NEW q \in Request,
           Became(r, q), SameQuestion(requests[r], q), requests[r].step = "insert",
           q.step = "announce",
           NEW order, orders' = Append(orders, order), Entered(order, Len(orders) + 1, q),
           Under(requests[r].connection, requests[r].key) = {}
    PROVE  Promise!Next
<1>1. PICK slot \in Slots : slot = SlotOf(requests[r])
  BY AskedIs
<1>2. /\ Len(orders) \in Nat /\ DOMAIN orders = 1..Len(orders)
      /\ DOMAIN orders' = 1..(Len(orders) + 1)
      /\ orders'[Len(orders) + 1] = order
      /\ \A o \in DOMAIN orders : orders'[o] = orders[o]
  <2>1. IsSeq(orders)
    BY DEF SubmissionInv, Typed
  <2>2. /\ Len(orders) \in Nat /\ DOMAIN orders = 1..Len(orders)
        /\ DOMAIN Append(orders, order) = 1..(Len(orders) + 1)
        /\ Append(orders, order)[Len(orders) + 1] = order
        /\ \A o \in DOMAIN orders : Append(orders, order)[o] = orders[o]
    BY <2>1, Appending
  <2> QED
    BY <2>2
<1>3. /\ SlotOf(order) = slot /\ order.instruction = requests[r].instruction
      /\ order.connection = slot[1] /\ order.key = slot[2]
  BY <1>1 DEF Entered, SameSlot, SameQuestion, SlotOf
<1>4. Book[slot] = Unset
  BY <1>1, BookStands DEF Stands, SlotOf
<1>5. Book'[slot] = requests[r].instruction
  <2>1. Len(orders) + 1 \in Under(slot[1], slot[2])'
    BY <1>2, <1>3 DEF Under
  <2>2. Book'[slot] = orders'[Len(orders) + 1].instruction
    BY <2>1, BookStandsNext DEF Stands
  <2> QED
    BY <1>2, <1>3, <2>2
<1>6. ASSUME NEW s \in Slots, s # slot PROVE Book'[s] = Book[s]
  <2>1. ~(order.connection = s[1] /\ order.key = s[2])
    BY <1>3, <1>6 DEF Slots
  <2>2. Under(s[1], s[2])' = Under(s[1], s[2])
    BY <1>2, <2>1 DEF Under
  <2>3. CASE Under(s[1], s[2]) = {}
    BY <2>2, <2>3, BookStands, BookStandsNext DEF Stands
  <2>4. ASSUME NEW o \in Under(s[1], s[2]) PROVE Book'[s] = Book[s]
    <3>1. Book[s] = orders[o].instruction
      BY BookStands DEF Stands
    <3>2. Book'[s] = orders'[o].instruction
      BY <2>2, BookStandsNext DEF Stands
    <3>3. orders'[o] = orders[o]
      BY <1>2 DEF Under
    <3> QED
      BY <3>1, <3>2, <3>3
  <2> QED
    BY <2>3, <2>4
<1>7. Book' = [Book EXCEPT ![slot] = requests[r].instruction]
  BY <1>5, <1>6, BookOfSlots, BookOfSlotsNext
<1>8. r \in RequestIds /\ Answers[r] = "nothing" /\ Told(r)' = "nothing"
  BY AnswerOf, RequestId DEF Open
<1>9. AskedBy' = AskedBy /\ Answers' = Answers
  BY <1>8, AnswerMoves DEF Answers
<1>10. /\ AskedBy[r] # Unset /\ AskedBy[r].slot = slot
       /\ AskedBy[r].payment = requests[r].instruction
  BY <1>1, AskedIs
<1>11. Promise!Enter(r)
  BY <1>4, <1>7, <1>8, <1>9, <1>10 DEF Promise!Enter, AskedBy, Answers
<1> QED
  BY <1>8, <1>11 DEF Promise!Next

LEMMA InsertMaps ==
    ASSUME SubmissionInv, SubmissionInv', NEW r \in DOMAIN requests, _insert(r)
    PROVE  Promise!Next \/ UNCHANGED Promise!vars
<1>1. CASE Under(requests[r].connection, requests[r].key) = {}
  BY <1>1, InsertEffect, EnterMaps
<1>2. CASE Under(requests[r].connection, requests[r].key) # {}
  <2>1. Goes(r, "again") /\ requests[r].step = "insert" /\ UNCHANGED orders
    BY <1>2, InsertEffect
  <2>2. PICK q \in Request :
          Became(r, q) /\ SameQuestion(requests[r], q) /\ q.step = "again"
    BY <2>1, GoesBecame DEF SubmissionInv, Steps
  <2> QED
    BY <2>1, <2>2, StaysOpen DEF Open
<1> QED
  BY <1>1, <1>2

(* A request arrives: it asks.                                             *)
LEMMA ArrivesMaps ==
    ASSUME SubmissionInv, SubmissionInv', NEW c, NEW key, NEW i, NEW screen,
           Arrives(c, key, i, screen)
    PROVE  Promise!Next
<1>1. PICK q, n :
        /\ q = [connection |-> c, key |-> key, instruction |-> i,
                screen |-> screen, schemes |-> connections[c].schemes,
                order |-> NoOrder,
                step |-> IF connections[c].initialised THEN "find" ELSE "refused"]
        /\ n = Len(requests) + 1
  OBVIOUS
<1>2. requests' = Append(requests, q) /\ UNCHANGED <<orders, trail>>
  BY <1>1 DEF Arrives
<1>3. /\ DOMAIN requests' = DOMAIN requests \cup {n}
      /\ n \notin DOMAIN requests /\ requests'[n] = q
      /\ \A p \in DOMAIN requests : requests'[p] = requests[p]
  <2>1. IsSeq(requests)
    BY DEF SubmissionInv, Typed, IsSeq, ToSet
  <2>2. /\ Len(requests) \in Nat /\ DOMAIN requests = 1..Len(requests)
        /\ DOMAIN Append(requests, q) = 1..(Len(requests) + 1)
        /\ Append(requests, q)[Len(requests) + 1] = q
        /\ \A p \in DOMAIN requests : Append(requests, q)[p] = requests[p]
    BY <2>1, Appending
  <2> QED
    BY <1>1, <1>2, <2>2
<1>4. /\ n \in RequestIds
      /\ SlotOf(q) \in Slots /\ q.instruction \in DOMAIN Instruction
  <2>1. (SubmissionInv => \A p \in DOMAIN requests :
             /\ p \in RequestIds /\ SlotOf(requests[p]) \in Slots
             /\ requests[p].instruction \in DOMAIN Instruction)'
    BY AskableNext
  <2> QED
    BY <1>3, <2>1 DEF SlotOf
<1>5. /\ AskedBy[n] = Unset /\ Answers[n] = "nothing"
      /\ AskedBy'[n] = [slot |-> SlotOf(q), payment |-> q.instruction]
  BY <1>3, <1>4 DEF AskedBy, Answers, Asked, Told, SlotOf
<1>6. ASSUME NEW p \in RequestIds, p # n
      PROVE  Asked(p)' = Asked(p) /\ Told(p)' = Told(p)
  BY <1>2, <1>3, <1>6 DEF Asked, Told, Open, OnRecord
<1>7. AskedBy' = [AskedBy EXCEPT ![n] = AskedBy'[n]]
  BY <1>4, <1>6 DEF AskedBy
<1>8. Told(n)' \in {"nothing", "refused"}
  BY <1>1, <1>3 DEF Told, Open
<1>9. Answers' \in {Answers, [Answers EXCEPT ![n] = "refused"]}
  <2>1. Answers' = [Answers EXCEPT ![n] = Told(n)']
    BY <1>4, <1>6 DEF Answers
  <2>2. CASE Told(n)' = "nothing"
    BY <1>4, <1>5, <2>1, <2>2 DEF Answers
  <2> QED
    BY <1>8, <2>1, <2>2
<1>10. Book' = Book
  BY <1>2, BookUnchanged
<1>11. AskedBy'[n] \in [slot : Slots, payment : DOMAIN Instruction]
  BY <1>4, <1>5
<1>12. Promise!Ask(n)
  BY <1>5, <1>7, <1>9, <1>10, <1>11 DEF Promise!Ask, AskedBy, Answers
<1> QED
  BY <1>4, <1>12 DEF Promise!Next

LEMMA InitMaps == Init => Promise!Init
<1> SUFFICES ASSUME Init PROVE Promise!Init
  OBVIOUS
<1>1. \A c, key : Under(c, key) = {}
  BY DEF Init, Under
<1>2. SubmissionInv
  BY InitInv
<1>3. \A s \in Slots : Book[s] = Unset
  BY <1>1, <1>2, BookStands DEF Stands
<1>4. Book \in [Slots -> {Unset}]
  BY <1>3, BookOfSlots
<1>5. DOMAIN requests = {}
  BY DEF Init
<1>6. AskedBy \in [RequestIds -> {Unset}] /\ Answers \in [RequestIds -> {"nothing"}]
  BY <1>5 DEF AskedBy, Answers, Asked, Told
<1> QED
  BY <1>4, <1>6 DEF Promise!Init, AskedBy, Answers

(* A page, a configuration and the state of the keys are not in the book.  *)
LEMMA BesideTheBook ==
    ASSUME UNCHANGED <<orders, trail, requests>>
    PROVE  UNCHANGED Promise!vars
<1>1. Book' = Book
  BY BookUnchanged
<1>2. AskedBy' = AskedBy
  BY DEF AskedBy, Asked
<1>3. Answers' = Answers
  BY DEF Answers, Told, Open, OnRecord
<1> QED
  BY <1>1, <1>2, <1>3 DEF Promise!vars, AskedBy, Answers

LEMMA StepMaps ==
    SubmissionInv /\ SubmissionInv' /\ [Next]_vars => [Promise!Next]_(Promise!vars)
<1> SUFFICES ASSUME SubmissionInv, SubmissionInv', [Next]_vars
             PROVE  Promise!Next \/ UNCHANGED Promise!vars
  OBVIOUS
<1>1. CASE UNCHANGED vars
  BY <1>1, BesideTheBook DEF vars
<1>2. ASSUME NEW c \in setting.connections, NEW key \in setting.keys,
             NEW i \in setting.instructions, submit_payment(c, key, i)
      PROVE  Promise!Next
  BY <1>2, ArrivesMaps DEF submit_payment
<1>3. ASSUME NEW s \in DOMAIN screens, send_payment(s)
      PROVE  Promise!Next
  BY <1>3, ArrivesMaps DEF send_payment
<1>4. ASSUME NEW c \in setting.connections,
             \/ \E i \in setting.instructions : preview(c, i)
             \/ \E p \in setting.configs : update(c, p)
             \/ KeyStateChanges(c)
      PROVE  UNCHANGED Promise!vars
  BY <1>4, BesideTheBook DEF preview, update, KeyStateChanges
<1>5. ASSUME NEW r \in DOMAIN requests,
             \/ Finds(r) \/ _reject(r) \/ _insert(r) \/ Announces(r)
             \/ FindsWinner(r) \/ _replay(r) \/ Lost(r)
      PROVE  Promise!Next \/ UNCHANGED Promise!vars
  BY <1>5, FindsMaps, RejectMaps, InsertMaps, AnnouncesMaps, FindsWinnerMaps,
     ReplayMaps, LostMaps
<1> QED
  BY <1>1, <1>2, <1>3, <1>4, <1>5 DEF Next

-----------------------------------------------------------------------------
(* The decision and the document: lemmas about PaymentRules.               *)

LEMMA SchemesFinite ==
    ASSUME NEW S, S \subseteq PaymentScheme, S # {}, ~(Cardinality(S) > 1)
    PROVE  \E x \in S : S = {x}
<1>1. IsFiniteSet(PaymentScheme)
  <2>1. PaymentScheme = (({} \cup {"normal"}) \cup {"instant"}) \cup {"instant_or_normal"}
    BY DEF PaymentScheme
  <2> QED
    BY <2>1, FS_EmptySet, FS_AddElement
<1>2. IsFiniteSet(S)
  BY <1>1, FS_Subset
<1>3. Cardinality(S) \in Nat /\ Cardinality(S) # 0
  BY <1>2, FS_CardinalityType, FS_EmptySet
<1>4. Cardinality(S) = 1
  BY <1>3
<1> QED
  BY <1>2, <1>4, FS_Singleton

(* The scheme a transfer names, or the message, or the connection.         *)
SchemeOf(profiles, i, t) ==
    IF t.scheme # Unset THEN t.scheme
    ELSE IF i.scheme # Unset THEN i.scheme ELSE profiles.default

InReach(profiles, i) ==
    /\ profiles.instant # Unset
    /\ \A n \in DOMAIN i.transactions :
           profiles.instant.max_amount # Unset =>
               i.transactions[n].amount.value <= profiles.instant.max_amount

(* resolve, where it does not refuse.                                      *)
LEMMA ResolveDecides ==
    ASSUME NEW i, IsInstruction(i), NEW profiles, IsConfiguration(profiles),
           resolve(profiles, i).refused = Unset
    PROVE  LET d == resolve(profiles, i) IN
           /\ \A n \in DOMAIN i.transactions :
                  d.requested = SchemeOf(profiles, i, i.transactions[n])
           /\ \/ /\ d.requested = "normal"
                 /\ d.effective = "normal" /\ d.fallback = Unset
              \/ /\ d.requested = "instant" /\ InReach(profiles, i)
                 /\ d.effective = "instant" /\ d.fallback = Unset
              \/ /\ d.requested = "instant_or_normal" /\ InReach(profiles, i)
                 /\ d.effective = "instant" /\ d.fallback = "normal"
              \/ /\ d.requested = "instant_or_normal" /\ ~InReach(profiles, i)
                 /\ d.effective = "normal" /\ d.fallback = Unset
<1>1. Wanted(profiles, i) =
          {SchemeOf(profiles, i, i.transactions[n]) : n \in DOMAIN i.transactions}
  BY DEF Wanted, SchemeOf, ToSet
<1>2. /\ Wanted(profiles, i) \subseteq PaymentScheme
      /\ Wanted(profiles, i) # {}
  <2>1. \A n \in DOMAIN i.transactions :
            SchemeOf(profiles, i, i.transactions[n]) \in PaymentScheme
    BY DEF SchemeOf, IsInstruction, IsConfiguration, ToSet
  <2> QED
    BY <1>1, <2>1 DEF IsInstruction
<1> DEFINE wanted == Wanted(profiles, i)
           requested == CHOOSE scheme \in wanted : TRUE
           optional == requested = "instant_or_normal"
           origin == IF i.scheme # Unset \/ per_transaction(i)
                     THEN "requested" ELSE "connection_default"
           d == resolve(profiles, i)
<1>0. d = IF Cardinality(wanted) > 1 THEN Refuses("scheme.mixed")
          ELSE IF wanted = {"normal"} THEN Decides("normal", "normal", Unset, origin)
          ELSE IF profiles.instant = Unset
          THEN IF optional
               THEN Decides(requested, "normal", Unset, "preflight.instant_not_configured")
               ELSE Refuses("scheme.unsupported")
          ELSE IF AboveCeiling(profiles, i)
          THEN IF optional
               THEN Decides(requested, "normal", Unset, "preflight.amount_above_instant_ceiling")
               ELSE Refuses("scheme.amount_above_instant_ceiling")
          ELSE Decides(requested, "instant", IF optional THEN "normal" ELSE Unset, origin)
  BY DEF resolve, _downgraded
<1> HIDE DEF d, origin
<1>a. \A rule \in SchemeRefusals : d # Refuses(rule)
  BY UnsetAssumption DEF Refuses, d
<1>3. ~(Cardinality(wanted) > 1)
  BY <1>0, <1>a DEF SchemeRefusals
<1>4. PICK x \in Wanted(profiles, i) : Wanted(profiles, i) = {x}
  BY <1>2, <1>3, SchemesFinite
<1>5. requested = x /\ x \in PaymentScheme
  BY <1>2, <1>4
<1>6. profiles.instant # Unset => (AboveCeiling(profiles, i) <=> ~InReach(profiles, i))
  <2>1. \A t \in ToSet(i.transactions) : t.amount.value \in Int
    BY DEF IsInstruction
  <2> QED
    BY <2>1 DEF AboveCeiling, InReach, IsConfiguration, ToSet
<1>7. \A n \in DOMAIN i.transactions : SchemeOf(profiles, i, i.transactions[n]) = x
  BY <1>1, <1>4
<1>8. CASE x = "normal"
  <2>1. d = Decides("normal", "normal", Unset, origin)
    BY <1>0, <1>3, <1>4, <1>8
  <2> QED
    BY <1>7, <1>8, <2>1 DEF Decides, d
<1>9. CASE x # "normal" /\ InReach(profiles, i)
  <2>1. d = Decides(x, "instant", IF x = "instant_or_normal" THEN "normal" ELSE Unset, origin)
    BY <1>0, <1>3, <1>4, <1>5, <1>6, <1>9 DEF InReach
  <2> QED
    BY <1>5, <1>7, <1>9, <2>1 DEF Decides, d, PaymentScheme
<1>10. CASE x # "normal" /\ ~InReach(profiles, i)
  <2>1. x = "instant_or_normal"
    BY <1>0, <1>a, <1>3, <1>4, <1>5, <1>6, <1>10 DEF SchemeRefusals
  <2>2. \E why : d = Decides(x, "normal", Unset, why)
    BY <1>0, <1>3, <1>4, <1>5, <1>6, <1>10, <2>1
  <2> QED
    BY <1>5, <1>7, <1>10, <2>1, <2>2 DEF Decides, d
<1> QED
  BY <1>8, <1>9, <1>10

(* What goes, in order: the schemes of the attempts a request builds.      *)
LEMMA SchemesSent ==
    ASSUME NEW i, NEW d, NEW profiles, NEW r
    PROVE  LET sent == _build(i, d, profiles, r) IN
           /\ DOMAIN sent = DOMAIN Schemes(d)
           /\ \A n \in DOMAIN sent : sent[n].scheme = Schemes(d)[n]
           /\ [n \in DOMAIN sent |-> sent[n].scheme] = Schemes(d)
<1>1. /\ DOMAIN _build(i, d, profiles, r) = DOMAIN Schemes(d)
      /\ \A n \in DOMAIN Schemes(d) : _build(i, d, profiles, r)[n].scheme = Schemes(d)[n]
  BY DEF _build
<1>2. [n \in DOMAIN Schemes(d) |-> Schemes(d)[n]] = Schemes(d)
  BY DEF Schemes
<1> QED
  BY <1>1, <1>2

(* The document of an attempt follows the profile it is announced under.   *)
Claims(d) == {d.CdtTrfTxInf[n].PmtTpInf : n \in DOMAIN d.CdtTrfTxInf}

Follows(d, i, profile, each) ==
    LET type == payment_type_summary(profile) IN
    /\ d.PmtTpInf = IF each THEN Unset ELSE type
    /\ Claims(d) = {IF each THEN type ELSE Unset}
    /\ d.DbtrAgt = "NOTPROVIDED" <=>
           i.debtor_bic = Unset /\ profile.service_level = "SEPA"

LEMMA DocumentFollows ==
    ASSUME NEW i, IsInstruction(i), NEW profile, NEW each \in BOOLEAN
    PROVE  Follows(build(i, profile, each), i, profile, each)
<1> DEFINE d == build(i, profile, each)
           type == payment_type_summary(profile)
<1>1. d.PmtTpInf = IF each THEN Unset ELSE type
  BY DEF build, _payment_type
<1>2. d.DbtrAgt = DbtrAgt(i, profile)
  BY DEF build
<1>3. d.DbtrAgt = "NOTPROVIDED" <=> i.debtor_bic = Unset /\ profile.service_level = "SEPA"
  BY <1>2 DEF DbtrAgt, declares_sepa
<1>4. d.CdtTrfTxInf = [n \in DOMAIN i.transactions |->
                           _transaction(i.transactions[n], profile, each)]
  BY DEF build
<1>5. \A t : _transaction(t, profile, each).PmtTpInf = IF each THEN type ELSE Unset
  BY DEF _transaction, _payment_type
<1> HIDE DEF d, type
<1>6. Claims(d) = {IF each THEN type ELSE Unset}
  BY <1>4, <1>5 DEF IsInstruction, Claims
<1> QED
  BY <1>1, <1>3, <1>6 DEF d, type, Follows

(* An order against the payment and the configuration it is of.            *)
LEMMA OrderIsOf ==
    ASSUME SubmissionInv, NEW o \in DOMAIN orders
    PROVE  LET i == Instruction[orders[o].instruction]
               p == Profiles[requests[orders[o].request].schemes]
           IN  /\ IsInstruction(i) /\ IsConfiguration(p)
               /\ resolve(p, i).refused = Unset
               /\ orders[o].requested_scheme = resolve(p, i).requested
               /\ orders[o].scheme = resolve(p, i).effective
               /\ orders[o].attempts = _build(i, resolve(p, i), p, orders[o].request)
<1>1. PICK r \in DOMAIN requests : r = orders[o].request /\ Entered(orders[o], o, requests[r])
  BY DEF SubmissionInv, Ordered
<1>2. /\ requests[r].instruction \in DOMAIN Instruction
      /\ requests[r].schemes \in DOMAIN Profiles
  BY Row DEF Request
<1>3. Decision(requests[r]).refused = Unset
  BY <1>1 DEF Entered, Broken, Decision, Failures
<1> QED
  BY <1>1, <1>2, <1>3, DataAssumption DEF Entered, Decision, Attempts

LEMMA InvDecidedAsAsked == SubmissionInv => DecidedAsAsked
<1> SUFFICES ASSUME SubmissionInv, NEW o \in DOMAIN orders
             PROVE  LET order == orders[o]
                        i == Instruction[order.instruction]
                        p == Profiles[requests[order.request].schemes]
                        schemes == [n \in DOMAIN order.attempts |-> order.attempts[n].scheme]
                    IN  /\ \A n \in DOMAIN i.transactions :
                               order.requested_scheme = SchemeOf(p, i, i.transactions[n])
                        /\ schemes =
                               CASE order.requested_scheme = "normal" -> <<"normal">>
                                 [] order.requested_scheme = "instant" -> <<"instant">>
                                 [] OTHER -> IF InReach(p, i) THEN <<"instant", "normal">>
                                             ELSE <<"normal">>
                        /\ "instant" \in ToSet(schemes) => InReach(p, i)
                        /\ order.scheme = schemes[1]
  BY DEF DecidedAsAsked, SchemeOf, InReach
<1> DEFINE order == orders[o]
           i == Instruction[order.instruction]
           p == Profiles[requests[order.request].schemes]
           schemes == [n \in DOMAIN order.attempts |-> order.attempts[n].scheme]
           d == resolve(p, i)
<1>1. /\ IsInstruction(i) /\ IsConfiguration(p) /\ d.refused = Unset
      /\ order.requested_scheme = d.requested /\ order.scheme = d.effective
      /\ order.attempts = _build(i, d, p, order.request)
  BY OrderIsOf
<1>2. schemes = Schemes(d)
  <2> HIDE DEF i, p, d
  <2>1. PICK sent : sent = _build(i, d, p, order.request) OBVIOUS
  <2>2. [n \in DOMAIN sent |-> sent[n].scheme] = Schemes(d) BY <2>1, SchemesSent
  <2>3. order.attempts = sent BY <1>1, <2>1
  <2> QED BY <2>2, <2>3 DEF d
<1>3. /\ \A n \in DOMAIN i.transactions :
             d.requested = SchemeOf(p, i, i.transactions[n])
      /\ \/ /\ d.requested = "normal"
            /\ d.effective = "normal" /\ d.fallback = Unset
         \/ /\ d.requested = "instant" /\ InReach(p, i)
            /\ d.effective = "instant" /\ d.fallback = Unset
         \/ /\ d.requested = "instant_or_normal" /\ InReach(p, i)
            /\ d.effective = "instant" /\ d.fallback = "normal"
         \/ /\ d.requested = "instant_or_normal" /\ ~InReach(p, i)
            /\ d.effective = "normal" /\ d.fallback = Unset
  BY <1>1, ResolveDecides
<1>4. "normal" # Unset
  BY UnsetAssumption DEF PaymentScheme
<1> HIDE DEF d, schemes, i, p
<1>5. schemes = CASE d.requested = "normal" -> <<"normal">>
                  [] d.requested = "instant" -> <<"instant">>
                  [] OTHER -> IF InReach(p, i) THEN <<"instant", "normal">>
                              ELSE <<"normal">>
  BY <1>2, <1>3, <1>4 DEF Schemes
<1>6. schemes[1] = d.effective
  BY <1>2 DEF Schemes
<1>7. "instant" \in ToSet(schemes) => InReach(p, i)
  BY <1>2, <1>3, <1>4 DEF Schemes, ToSet
<1> QED
  BY <1>1, <1>3, <1>5, <1>6, <1>7 DEF schemes, i, p

LEMMA InvDocumentMatches == SubmissionInv => DocumentMatchesAnnouncement
<1> SUFFICES ASSUME SubmissionInv, NEW o \in DOMAIN orders, NEW a \in ToSet(orders[o].attempts)
             PROVE  LET p == Profiles[requests[orders[o].request].schemes]
                        doc == a.document
                        own == IF a.scheme = "normal" THEN p.normal ELSE p.instant
                        claims == {doc.CdtTrfTxInf[n].PmtTpInf : n \in DOMAIN doc.CdtTrfTxInf}
                    IN  /\ a.btf = own.btf
                        /\ Cardinality(claims) = 1
                        /\ a.payment_type = Unset => claims = {Unset} /\ doc.PmtTpInf = Unset
                        /\ a.payment_type # Unset =>
                               {doc.PmtTpInf} \cup claims = {Unset, a.payment_type}
                        /\ doc.DbtrAgt = "NOTPROVIDED" <=>
                               /\ Instruction[orders[o].instruction].debtor_bic = Unset
                               /\ own.service_level = "SEPA"
  BY DEF DocumentMatchesAnnouncement
<1> DEFINE i == Instruction[orders[o].instruction]
           p == Profiles[requests[orders[o].request].schemes]
           d == resolve(p, i)
           own == IF a.scheme = "normal" THEN p.normal ELSE p.instant
           doc == a.document
           claims == {doc.CdtTrfTxInf[n].PmtTpInf : n \in DOMAIN doc.CdtTrfTxInf}
           each == per_transaction(i)
           type == payment_type_summary(own)
<1>1. IsInstruction(i) /\ orders[o].attempts = _build(i, d, p, orders[o].request)
  BY OrderIsOf
<1>2. PICK n \in DOMAIN Schemes(d) : a = _build(i, d, p, orders[o].request)[n]
  BY <1>1, SchemesSent DEF ToSet
<1>3. /\ ProfileOf(p, a.scheme) = own
      /\ a.btf = own.btf /\ a.payment_type = type
      /\ doc = build(i, own, each)
  BY <1>2 DEF _build, ProfileOf
<1>4. each \in BOOLEAN
  BY DEF per_transaction
<1> HIDE DEF i, p, d, own, each
<1>5. /\ doc.PmtTpInf = IF each THEN Unset ELSE type
      /\ claims = {IF each THEN type ELSE Unset}
      /\ doc.DbtrAgt = "NOTPROVIDED" <=> i.debtor_bic = Unset /\ own.service_level = "SEPA"
  <2>1. Follows(doc, i, own, each)
    BY <1>1, <1>3, <1>4, DocumentFollows
  <2>2. claims = Claims(doc)
    BY DEF Claims
  <2> HIDE DEF claims, doc
  <2> QED
    BY <2>1, <2>2 DEF Follows
<1>6. Cardinality(claims) = 1
  BY <1>5, FS_Singleton
<1> HIDE DEF claims, type, doc
<1>7. /\ a.payment_type = Unset => claims = {Unset} /\ doc.PmtTpInf = Unset
      /\ a.payment_type # Unset => {doc.PmtTpInf} \cup claims = {Unset, a.payment_type}
  BY <1>3, <1>4, <1>5
<1> QED
  BY <1>3, <1>5, <1>6, <1>7 DEF claims, own, doc, p, i

-----------------------------------------------------------------------------
(* Folds.  Induction over a sequence is a set of positions here, which has *)
(* a least member where it is not empty.                                   *)

LEMMA Least ==
    ASSUME NEW T \in SUBSET Nat, T # {}
    PROVE  \E n \in T : \A m \in T : n <= m
<1>1. PICK n \in T : \A m \in T : <<m, n>> \notin OpToRel(<, Nat)
  BY NatLessThanWellFounded, WFMin, Zenon
<1>2. \A m \in T : ~(m < n) BY <1>1 DEF OpToRel
<1> QED BY <1>2

LEMMA Counting ==
    ASSUME NEW k \in Nat, NEW S, 0 \in S, \A n \in 1..k : n - 1 \in S => n \in S
    PROVE  \A n \in 0..k : n \in S
<1> DEFINE T == (0..k) \ S
<1> SUFFICES ASSUME T # {} PROVE FALSE OBVIOUS
<1>1. T \in SUBSET Nat OBVIOUS
<1>2. PICK n \in T : \A m \in T : n <= m BY <1>1, Least
<1>3. n \in 1..k /\ n - 1 \in 0..k /\ n - 1 \notin T BY <1>2
<1> QED BY <1>3

LEMMA Positions ==
    ASSUME NEW k \in Nat, NEW n \in 1..k
    PROVE  /\ n \in Nat \ {0} /\ n \in 0..k /\ n - 1 \in 0..k
           /\ 1..n \in SUBSET (1..k) /\ 1..n # {}
OBVIOUS

LEMMA Greatest ==
    ASSUME NEW k \in Nat, NEW s \in SUBSET (1..k), s # {}
    PROVE  Max(s) \in s /\ \A m \in s : Max(s) >= m
<1> DEFINE T == {n \in Nat : \A m \in s : m <= n}
<1>1. k \in T OBVIOUS
<1>2. PICK n \in T : \A m \in T : n <= m BY <1>1, Least
<1>3. n \in s
  <2> SUFFICES ASSUME n \notin s PROVE FALSE OBVIOUS
  <2>1. \A m \in s : m < n /\ m \in 1..k BY <1>2
  <2>2. n # 0 /\ n - 1 \in Nat
    <3>1. PICK m \in s : TRUE OBVIOUS
    <3> QED BY <2>1, <3>1
  <2>3. n - 1 \in T BY <2>1, <2>2
  <2> QED BY <1>2, <2>2, <2>3
<1>4. \A m \in s : n >= m BY <1>2
<1> QED BY <1>3, <1>4 DEF Max

LEMMA UpTo ==
    ASSUME NEW n \in Nat \ {0}
    PROVE  Max(1..n) = n /\ (1..n) \ {n} = 1..(n - 1)
<1>1. PICK s \in SUBSET (1..n) : s = 1..n OBVIOUS
<1>2. n \in s /\ n \in Nat BY <1>1
<1>3. Max(s) \in s /\ \A m \in s : Max(s) >= m BY <1>2, Greatest
<1>4. PICK m : m = Max(s) OBVIOUS
<1>5. m = n BY <1>1, <1>2, <1>3, <1>4
<1> QED BY <1>1, <1>4, <1>5

(* The function a fold is: over the positions that are left of one.        *)
Unrolls(g, k, base, step) ==
    \A s \in SUBSET (1..k) :
        g[s] = IF s = {} THEN base ELSE step[<<Max(s), g[s \ {Max(s)}]>>]

LEMMA FoldExists ==
    ASSUME NEW k \in Nat, NEW Val, NEW base \in Val, NEW step \in [(1..k) \X Val -> Val]
    PROVE  \E g \in [SUBSET (1..k) -> Val] : Unrolls(g, k, base, step)
<1> DEFINE P(n) == \E g \in [SUBSET (1..n) -> Val] : Unrolls(g, n, base, step)
           S == {n \in 0..k : P(n)}
<1>1. P(0)
  <2> DEFINE g == [s \in SUBSET (1..0) |-> base]
  <2>1. g \in [SUBSET (1..0) -> Val] OBVIOUS
  <2>2. \A s \in SUBSET (1..0) : s = {} OBVIOUS
  <2>3. Unrolls(g, 0, base, step) BY <2>2 DEF Unrolls
  <2> QED BY <2>1, <2>3
<1>2. ASSUME NEW n \in 0..k, n < k, P(n) PROVE P(n + 1)
  <2>1. PICK g \in [SUBSET (1..n) -> Val] : Unrolls(g, n, base, step) BY <1>2
  <2> DEFINE h == [s \in SUBSET (1..(n + 1)) |->
                      IF n + 1 \in s THEN step[<<n + 1, g[s \ {n + 1}]>>] ELSE g[s]]
  <2>2. \A s \in SUBSET (1..(n + 1)) :
           IF n + 1 \in s THEN s \ {n + 1} \in SUBSET (1..n) ELSE s \in SUBSET (1..n)
    OBVIOUS
  <2>3. h \in [SUBSET (1..(n + 1)) -> Val]
    <3>1. n + 1 \in 1..k BY <1>2
    <3>2. \A v \in Val : step[<<n + 1, v>>] \in Val BY <3>1
    <3> QED BY <2>1, <2>2, <3>2
  <2>4. ASSUME NEW s \in SUBSET (1..(n + 1))
        PROVE  h[s] = IF s = {} THEN base ELSE step[<<Max(s), h[s \ {Max(s)}]>>]
    <3>1. CASE n + 1 \in s
      <4>1. Max(s) = n + 1
        <5>0. n + 1 \in Nat /\ s # {} BY <3>1
        <5>1. Max(s) \in s /\ \A m \in s : Max(s) >= m BY <5>0, Greatest
        <5>2. PICK m : m = Max(s) OBVIOUS
        <5>3. m \in s /\ m >= n + 1 BY <3>1, <5>1, <5>2
        <5> QED BY <5>2, <5>3
      <4>2. s \ {n + 1} \in SUBSET (1..(n + 1)) /\ n + 1 \notin s \ {n + 1} OBVIOUS
      <4>3. h[s \ {n + 1}] = g[s \ {n + 1}] BY <4>2
      <4> QED BY <3>1, <4>1, <4>3
    <3>2. CASE n + 1 \notin s
      <4>1. s \in SUBSET (1..n) BY <2>2, <3>2
      <4>2. g[s] = IF s = {} THEN base ELSE step[<<Max(s), g[s \ {Max(s)}]>>]
        BY <2>1, <4>1 DEF Unrolls
      <4>3. s # {} => s \ {Max(s)} \in SUBSET (1..(n + 1)) /\ n + 1 \notin s \ {Max(s)}
        BY <3>2
      <4>4. h[s] = g[s] /\ (s # {} => h[s \ {Max(s)}] = g[s \ {Max(s)}])
        BY <3>2, <4>3
      <4> QED BY <4>2, <4>4
    <3> QED BY <3>1, <3>2
  <2> HIDE DEF h
  <2> QED BY <2>3, <2>4 DEF Unrolls
<1> HIDE DEF P
<1>3. 0 \in S BY <1>1
<1>4. ASSUME NEW n \in 1..k, n - 1 \in S PROVE n \in S
  <2>1. n - 1 \in 0..k /\ n - 1 < k /\ P(n - 1) /\ n - 1 + 1 = n BY <1>4
  <2> QED BY <1>2, <2>1
<1> HIDE DEF S
<1>5. k \in S BY <1>3, <1>4, Counting
<1> QED BY <1>5 DEF P, S

(* A sum, as the running sums it goes through.                             *)
LEMMA SumExists ==
    ASSUME NEW k \in Nat, NEW val \in [1..k -> Int]
    PROVE  \E g : g = [s \in SUBSET (1..k) |->
                          IF s = {} THEN 0 ELSE g[s \ {Max(s)}] + val[Max(s)]]
<1> DEFINE step == [p \in (1..k) \X Int |-> p[2] + val[p[1]]]
<1>1. PICK Val : Val = Int OBVIOUS
<1>2. PICK base \in Val : base = 0 BY <1>1
<1>3. step \in [(1..k) \X Val -> Val] BY <1>1
<1> HIDE DEF step
<1>4. PICK g \in [SUBSET (1..k) -> Val] : Unrolls(g, k, base, step) BY <1>3, FoldExists
<1>5. ASSUME NEW s \in SUBSET (1..k), s # {}
      PROVE  g[s] = g[s \ {Max(s)}] + val[Max(s)]
  <2>1. Max(s) \in s BY <1>5, Greatest
  <2>2. PICK m \in 1..k : m = Max(s) BY <2>1
  <2>3. g[s] = step[<<m, g[s \ {m}]>>] BY <1>4, <1>5, <2>2 DEF Unrolls
  <2>4. PICK v \in Int : v = g[s \ {m}] BY <1>1, <1>4
  <2>5. step[<<m, v>>] = v + val[m] BY DEF step
  <2> QED BY <2>2, <2>3, <2>4, <2>5
<1>6. g[{}] = 0 BY <1>2, <1>4 DEF Unrolls
<1>7. g = [s \in SUBSET (1..k) |-> g[s]] BY <1>4
<1>8. \A s \in SUBSET (1..k) : g[s] = IF s = {} THEN 0 ELSE g[s \ {Max(s)}] + val[Max(s)]
  BY <1>5, <1>6
<1>9. g = [s \in SUBSET (1..k) |-> IF s = {} THEN 0 ELSE g[s \ {Max(s)}] + val[Max(s)]]
  BY <1>7, <1>8
<1> QED BY <1>9

Sums(h, k, val) ==
    \A s \in SUBSET (1..k) : h[s] = IF s = {} THEN 0 ELSE h[s \ {Max(s)}] + val[Max(s)]

RunsTo(acc, k, val, total) ==
    /\ acc \in [0..k -> Int] /\ acc[0] = 0 /\ acc[k] = total
    /\ \A n \in 1..k : acc[n] = acc[n - 1] + val[n]

LEMMA SumRuns ==
    ASSUME NEW k \in Nat, NEW val \in [1..k -> Int], NEW h, Sums(h, k, val)
    PROVE  \E acc : RunsTo(acc, k, val, h[1..k])
<1> DEFINE acc == [n \in 0..k |-> h[1..n]]
           S == {n \in 0..k : acc[n] \in Int}
<1>1. acc[0] = 0
  <2>1. 1..0 = {} /\ {} \in SUBSET (1..k) OBVIOUS
  <2>2. h[{}] = 0 BY <2>1 DEF Sums
  <2> QED BY <2>1, <2>2
<1>2. ASSUME NEW n \in 1..k PROVE acc[n] = acc[n - 1] + val[n]
  <2>1. 1..n \in SUBSET (1..k) /\ 1..n # {} OBVIOUS
  <2>2. h[1..n] = h[(1..n) \ {Max(1..n)}] + val[Max(1..n)] BY <2>1 DEF Sums
  <2>3. n \in Nat \ {0} OBVIOUS
  <2>4. Max(1..n) = n /\ (1..n) \ {n} = 1..(n - 1) BY <2>3, UpTo
  <2>5. h[1..n] = h[1..(n - 1)] + val[n] BY <2>2, <2>4
  <2> QED BY <2>5
<1>3. acc[k] = h[1..k] /\ acc = [n \in 0..k |-> acc[n]] OBVIOUS
<1> HIDE DEF acc
<1>4. 0 \in S BY <1>1
<1>5. ASSUME NEW n \in 1..k, n - 1 \in S PROVE n \in S BY <1>2, <1>5
<1> HIDE DEF S
<1>6. \A n \in 0..k : n \in S BY <1>4, <1>5, Counting
<1>7. acc \in [0..k -> Int] BY <1>3, <1>6 DEF S
<1>8. RunsTo(acc, k, val, h[1..k]) BY <1>1, <1>2, <1>3, <1>7 DEF RunsTo
<1> QED BY <1>8

LEMMA ControlSum ==
    ASSUME NEW i, NEW k \in Nat, DOMAIN i.transactions = 1..k,
           \A n \in 1..k : i.transactions[n].amount.value \in Int
    PROVE  \E acc : RunsTo(acc, k, [n \in 1..k |-> i.transactions[n].amount.value],
                          control_sum(i))
<1> DEFINE val == [n \in 1..k |-> i.transactions[n].amount.value]
           Eq(h) == h = [s \in SUBSET (1..k) |->
                            IF s = {} THEN 0 ELSE h[s \ {Max(s)}] + val[Max(s)]]
           F(h) == h = [s \in SUBSET (1..k) |->
                          IF s = {} THEN 0
                          ELSE h[s \ {Max(s)}] + i.transactions[Max(s)].amount.value]
<1>1. val \in [1..k -> Int] OBVIOUS
<1>2. \A s \in SUBSET (1..k) : s # {} => val[Max(s)] = i.transactions[Max(s)].amount.value
  BY Greatest
<1>3. ASSUME NEW h PROVE Eq(h) <=> F(h) BY <1>2
<1> HIDE DEF val
<1>4. \E h : Eq(h) BY <1>1, SumExists
<1> HIDE DEF Eq
<1>5. \E h : F(h) BY <1>3, <1>4
<1> HIDE DEF F
<1>6. PICK h : h = CHOOSE f : F(f) OBVIOUS
<1>7. Eq(h) BY <1>3, <1>5, <1>6
<1>8. control_sum(i) = h[1..k]
  BY <1>6 DEF control_sum, FoldLeft, MapThenFoldSet, F
<1>s. Sums(h, k, val) BY <1>7 DEF Eq, Sums
<1>9. \E acc : RunsTo(acc, k, val, h[1..k]) BY <1>1, <1>s, SumRuns
<1> QED BY <1>8, <1>9 DEF val

(* What the transfers of a document come to.                               *)
StatedSum(seq) == FoldLeft(LAMBDA sum, t : sum + t.InstdAmt, 0, seq)

LEMMA AmountSum ==
    ASSUME NEW seq, NEW k \in Nat, DOMAIN seq = 1..k, \A n \in 1..k : seq[n].InstdAmt \in Int
    PROVE  \E acc : RunsTo(acc, k, [n \in 1..k |-> seq[n].InstdAmt], StatedSum(seq))
<1> DEFINE val == [n \in 1..k |-> seq[n].InstdAmt]
           Eq(h) == h = [s \in SUBSET (1..k) |->
                            IF s = {} THEN 0 ELSE h[s \ {Max(s)}] + val[Max(s)]]
           F(h) == h = [s \in SUBSET (1..k) |->
                          IF s = {} THEN 0 ELSE h[s \ {Max(s)}] + seq[Max(s)].InstdAmt]
<1>1. val \in [1..k -> Int] OBVIOUS
<1>2. \A s \in SUBSET (1..k) : s # {} => val[Max(s)] = seq[Max(s)].InstdAmt BY Greatest
<1>3. ASSUME NEW h PROVE Eq(h) <=> F(h) BY <1>2
<1> HIDE DEF val
<1>4. \E h : Eq(h) BY <1>1, SumExists
<1> HIDE DEF Eq
<1>5. \E h : F(h) BY <1>3, <1>4
<1> HIDE DEF F
<1>6. PICK h : h = CHOOSE f : F(f) OBVIOUS
<1>7. Eq(h) BY <1>3, <1>5, <1>6
<1>8. StatedSum(seq) = h[1..k]
  BY <1>6 DEF StatedSum, FoldLeft, MapThenFoldSet, F
<1>s. Sums(h, k, val) BY <1>7 DEF Eq, Sums
<1>9. \E acc : RunsTo(acc, k, val, h[1..k]) BY <1>1, <1>s, SumRuns
<1> QED BY <1>8, <1>9 DEF val

(* The amounts of a document add up to its control sum where they are exact.*)
LEMMA SumsAgree ==
    ASSUME NEW k \in Nat, NEW whole \in [0..k -> Int], NEW parts \in [0..k -> Int],
           NEW unit \in Int, whole[0] = 0, parts[0] = 0,
           \A n \in 1..k : whole[n] - whole[n - 1] = (parts[n] - parts[n - 1]) * unit
    PROVE  whole[k] = parts[k] * unit
<1> DEFINE S == {n \in 0..k : whole[n] = parts[n] * unit}
<1>1. 0 \in S OBVIOUS
<1>2. ASSUME NEW n \in 1..k, n - 1 \in S PROVE n \in S
  <2>1. PICK a, b, c, d : a = whole[n] /\ b = whole[n - 1] /\ c = parts[n] /\ d = parts[n - 1]
    OBVIOUS
  <2>2. n \in 0..k /\ n - 1 \in 0..k OBVIOUS
  <2>3. a \in Int /\ b \in Int /\ c \in Int /\ d \in Int BY <2>1, <2>2
  <2>4. b = d * unit /\ a - b = (c - d) * unit BY <1>2, <2>1
  <2>5. a = c * unit BY <2>3, <2>4
  <2> QED BY <2>1, <2>2, <2>5
<1> HIDE DEF S
<1>3. \A n \in 0..k : n \in S BY <1>1, <1>2, Counting
<1> QED BY <1>3 DEF S

LEMMA SumsScale ==
    ASSUME NEW k \in Nat, NEW unit \in Int, NEW vals, NEW amounts, NEW whole, NEW parts,
           NEW sum, NEW total, RunsTo(whole, k, vals, sum), RunsTo(parts, k, amounts, total),
           \A n \in 1..k : amounts[n] \in Int /\ vals[n] = amounts[n] * unit
    PROVE  total \in Int /\ sum \in Int /\ sum = total * unit
<1>1. /\ whole \in [0..k -> Int] /\ whole[0] = 0 /\ whole[k] = sum
      /\ \A n \in 1..k : whole[n] = whole[n - 1] + vals[n]
  BY DEF RunsTo
<1>2. /\ parts \in [0..k -> Int] /\ parts[0] = 0 /\ parts[k] = total
      /\ \A n \in 1..k : parts[n] = parts[n - 1] + amounts[n]
  BY DEF RunsTo
<1>3. ASSUME NEW n \in 1..k
      PROVE  whole[n] - whole[n - 1] = (parts[n] - parts[n - 1]) * unit
  <2>1. n \in 0..k /\ n - 1 \in 0..k OBVIOUS
  <2>2. PICK a \in Int : a = whole[n - 1] BY <1>1, <2>1
  <2>3. PICK b \in Int : b = parts[n - 1] BY <1>2, <2>1
  <2>4. PICK c \in Int : c = amounts[n] /\ vals[n] = c * unit OBVIOUS
  <2>5. PICK v \in Int : v = c * unit OBVIOUS
  <2>6. whole[n] = a + v BY <1>1, <2>2, <2>4, <2>5
  <2>7. parts[n] = b + c BY <1>2, <2>3, <2>4
  <2>8. (a + v) - a = v /\ (b + c) - b = c OBVIOUS
  <2> QED BY <2>2, <2>3, <2>5, <2>6, <2>7, <2>8
<1>4. whole[k] = parts[k] * unit BY <1>1, <1>2, <1>3, SumsAgree
<1>5. k \in 0..k OBVIOUS
<1> QED BY <1>1, <1>2, <1>4, <1>5

-----------------------------------------------------------------------------
(* The check digit.                                                        *)

LEMMA RowTurns ==
    ASSUME NEW c \in 0..9
    PROVE  /\ MOD10R[c + 1] \in 0..9
           /\ \A e \in 0..9 : MOD10R[c + 1] = MOD10R[e + 1] => c = e
<1> DEFINE t(n) == MOD10R[n]
<1>1. /\ t(1) = 0 /\ t(2) = 9 /\ t(3) = 4 /\ t(4) = 6 /\ t(5) = 8
      /\ t(6) = 2 /\ t(7) = 7 /\ t(8) = 1 /\ t(9) = 3 /\ t(10) = 5
  BY DEF MOD10R
<1> HIDE DEF t
<1>2. \A n \in 1..10 : n = 1 \/ n = 2 \/ n = 3 \/ n = 4 \/ n = 5 \/ n = 6 \/ n = 7 \/ n = 8 \/ n = 9 \/ n = 10
  OBVIOUS
<1>3. \A n \in 1..10 : t(n) \in 0..9 BY <1>1, <1>2
<1>4. \A n, m \in 1..10 : t(n) = t(m) => n = m BY <1>1, <1>2
<1>5. c + 1 \in 1..10 /\ \A e \in 0..9 : e + 1 \in 1..10 /\ (c + 1 = e + 1 => c = e) OBVIOUS
<1> QED BY <1>3, <1>4, <1>5 DEF t

(* The row the next digit is looked up in.                                 *)
Next10(c, d) == MOD10R[((c + d) % 10) + 1]

LEMMA CarryTurns ==
    ASSUME NEW c \in 0..9, NEW d \in 0..9
    PROVE  Next10(c, d) \in 0..9
<1>1. PICK x \in 0..9 : x = (c + d) % 10 OBVIOUS
<1>2. MOD10R[x + 1] \in 0..9 BY RowTurns
<1> QED BY <1>1, <1>2 DEF Next10

Digit == 0..9

LEMMA CarryTells ==
    \A c, e, d, f \in Digit :
        Next10(c, d) = Next10(e, f) => (c = e => d = f) /\ (d = f => c = e)
<1> SUFFICES ASSUME NEW c \in 0..9, NEW e \in 0..9, NEW d \in 0..9, NEW f \in 0..9
             PROVE  Next10(c, d) = Next10(e, f) => (c = e => d = f) /\ (d = f => c = e)
  BY DEF Digit
<1>1. PICK x, y : x = (c + d) % 10 /\ y = (e + f) % 10 OBVIOUS
<1>2. x \in 0..9 /\ y \in 0..9 BY <1>1
<1>3. x = y => (c = e <=> d = f) BY <1>1
<1>4. MOD10R[x + 1] = MOD10R[y + 1] => x = y BY <1>2, RowTurns
<1> QED BY <1>1, <1>3, <1>4 DEF Next10

CarriesTo(acc, digits) ==
    /\ acc \in [0..Len(digits) -> 0..9] /\ acc[0] = 0
    /\ \A n \in 1..Len(digits) : acc[n] = Next10(acc[n - 1], digits[n])
    /\ mod10_recursive(digits) = (10 - acc[Len(digits)]) % 10

LEMMA Carries ==
    ASSUME NEW digits \in Seq(0..9)
    PROVE  \E acc : CarriesTo(acc, digits)
<1> DEFINE k == Len(digits)
           step == [p \in (1..k) \X (0..9) |-> Next10(p[2], digits[p[1]])]
           F(h) == h = [s \in SUBSET (1..k) |->
                          IF s = {} THEN 0
                          ELSE MOD10R[((h[s \ {Max(s)}] + digits[Max(s)]) % 10) + 1]]
<1>1. k \in Nat /\ DOMAIN digits = 1..k /\ \A n \in 1..k : digits[n] \in 0..9 OBVIOUS
<1>2. PICK Val : Val = 0..9 OBVIOUS
<1>3. PICK base \in Val : base = 0 BY <1>2
<1> HIDE DEF k
<1>4. step \in [(1..k) \X Val -> Val] BY <1>1, <1>2, CarryTurns
<1>5. \A n \in 1..k, v \in 0..9 : step[<<n, v>>] = Next10(v, digits[n]) OBVIOUS
<1> HIDE DEF step
<1>6. PICK g \in [SUBSET (1..k) -> Val] : Unrolls(g, k, base, step) BY <1>1, <1>4, FoldExists
<1>7. ASSUME NEW s \in SUBSET (1..k), s # {}
      PROVE  g[s] = MOD10R[((g[s \ {Max(s)}] + digits[Max(s)]) % 10) + 1]
  <2>1. Max(s) \in s BY <1>1, <1>7, Greatest
  <2>2. PICK m \in 1..k : m = Max(s) BY <2>1
  <2>3. g[s] = step[<<m, g[s \ {m}]>>] BY <1>6, <1>7, <2>2 DEF Unrolls
  <2>4. PICK v \in 0..9 : v = g[s \ {m}] BY <1>2, <1>6
  <2>5. step[<<m, v>>] = Next10(v, digits[m]) BY <1>5
  <2> QED BY <2>2, <2>3, <2>4, <2>5 DEF Next10
<1>8. g[{}] = 0 BY <1>3, <1>6 DEF Unrolls
<1>9. \A s \in SUBSET (1..k) :
          g[s] = IF s = {} THEN 0 ELSE MOD10R[((g[s \ {Max(s)}] + digits[Max(s)]) % 10) + 1]
  BY <1>7, <1>8
<1>10. F(g)
  <2>1. g = [s \in SUBSET (1..k) |-> g[s]] BY <1>6
  <2> QED BY <1>9, <2>1
<1> HIDE DEF F
<1>11. PICK h : h = CHOOSE f : F(f) OBVIOUS
<1>12. F(h) BY <1>10, <1>11
<1>13. mod10_recursive(digits) = (10 - h[1..k]) % 10
  BY <1>1, <1>11 DEF mod10_recursive, FoldLeft, MapThenFoldSet, F
<1>14. \A s \in SUBSET (1..k) :
          h[s] = IF s = {} THEN 0 ELSE MOD10R[((h[s \ {Max(s)}] + digits[Max(s)]) % 10) + 1]
  BY <1>12 DEF F
<1> DEFINE acc == [n \in 0..k |-> h[1..n]]
           S == {n \in 0..k : acc[n] \in 0..9}
<1>15. acc[0] = 0
  <2>1. 1..0 = {} /\ {} \in SUBSET (1..k) /\ 0 \in 0..k BY <1>1
  <2>2. h[{}] = 0 BY <1>14, <2>1
  <2> QED BY <2>1, <2>2
<1>16. ASSUME NEW n \in 1..k PROVE acc[n] = Next10(acc[n - 1], digits[n])
  <2>k. k \in Nat BY <1>1
  <2>0. n \in Nat \ {0} /\ n \in 0..k /\ n - 1 \in 0..k BY <2>k, Positions
  <2>1. 1..n \in SUBSET (1..k) /\ 1..n # {} BY <2>k, Positions
  <2>2. Max(1..n) = n /\ (1..n) \ {n} = 1..(n - 1) BY <2>0, UpTo
  <2>3. h[1..n] = MOD10R[((h[(1..n) \ {Max(1..n)}] + digits[Max(1..n)]) % 10) + 1]
    BY <1>14, <2>1
  <2>4. acc[n] = h[1..n] /\ acc[n - 1] = h[1..(n - 1)] BY <2>0
  <2> QED BY <2>2, <2>3, <2>4 DEF Next10
<1>17. acc[k] = h[1..k] /\ acc = [n \in 0..k |-> acc[n]] BY <1>1
<1> HIDE DEF acc
<1>18. 0 \in S BY <1>1, <1>15
<1>19. ASSUME NEW n \in 1..k, n - 1 \in S PROVE n \in S
  <2>1. acc[n - 1] \in 0..9 /\ digits[n] \in 0..9 /\ n \in 0..k BY <1>1, <1>19
  <2>2. Next10(acc[n - 1], digits[n]) \in 0..9 BY <2>1, CarryTurns
  <2> QED BY <1>16, <2>1, <2>2
<1> HIDE DEF S
<1>20. \A n \in 0..k : n \in S BY <1>1, <1>18, <1>19, Counting
<1>21. acc \in [0..k -> 0..9] BY <1>17, <1>20 DEF S
<1>22. CarriesTo(acc, digits) BY <1>13, <1>15, <1>16, <1>17, <1>21 DEF CarriesTo, k
<1> QED BY <1>22

(* A digit mistyped changes the check digit.                               *)
LEMMA CheckDigitTells ==
    ASSUME NEW digits \in Seq(0..9), NEW others \in Seq(0..9), Len(others) = Len(digits),
           NEW p \in 1..Len(digits), others[p] # digits[p],
           \A n \in 1..Len(digits) : n # p => others[n] = digits[n]
    PROVE  mod10_recursive(others) # mod10_recursive(digits)
<1>1. PICK k \in Nat : k = Len(digits) OBVIOUS
<1>2. PICK a : CarriesTo(a, digits) BY Carries
<1>3. PICK b : CarriesTo(b, others) BY Carries
<1>a. /\ a \in [0..k -> 0..9] /\ a[0] = 0 /\ \A n \in 1..k : a[n] = Next10(a[n - 1], digits[n])
      /\ mod10_recursive(digits) = (10 - a[k]) % 10
  BY <1>1, <1>2 DEF CarriesTo
<1>b. /\ b \in [0..k -> 0..9] /\ b[0] = 0 /\ \A n \in 1..k : b[n] = Next10(b[n - 1], others[n])
      /\ mod10_recursive(others) = (10 - b[k]) % 10
  BY <1>1, <1>3 DEF CarriesTo
<1>d. \A n \in 1..k : digits[n] \in 0..9 /\ others[n] \in 0..9 BY <1>1
<1>p. p \in 1..k BY <1>1
<1> DEFINE S == {n \in 0..k : n < p <=> a[n] = b[n]}
<1>4. 0 \in S BY <1>a, <1>b, <1>p
<1>5. ASSUME NEW n \in 1..k, n - 1 \in S PROVE n \in S
  <2>0. n \in 0..k /\ n - 1 \in 0..k BY <1>5
  <2>1. PICK c \in 0..9, e \in 0..9 : c = a[n - 1] /\ e = b[n - 1] BY <1>a, <1>b, <2>0
  <2>2. PICK d \in 0..9, f \in 0..9 : d = digits[n] /\ f = others[n] BY <1>d
  <2>3. a[n] = Next10(c, d) /\ b[n] = Next10(e, f) BY <1>a, <1>b, <2>1, <2>2
  <2>d. c \in Digit /\ e \in Digit /\ d \in Digit /\ f \in Digit BY DEF Digit
  <2>4. Next10(c, d) = Next10(e, f) => (c = e => d = f) /\ (d = f => c = e)
    BY ONLY <2>d, CarryTells
  <2>5. c = e /\ d = f => a[n] = b[n] BY <2>3
  <2>6. n - 1 < p <=> c = e BY <1>5, <2>1
  <2>7. n # p <=> d = f BY <1>1, <2>2
  <2>8. n < p <=> a[n] = b[n]
    <3>1. CASE n < p BY <3>1, <2>5, <2>6, <2>7, <1>p
    <3>2. CASE n = p BY <3>2, <2>3, <2>4, <2>6, <2>7, <1>p
    <3>3. CASE n > p BY <3>3, <2>3, <2>4, <2>6, <2>7, <1>p
    <3> QED BY <3>1, <3>2, <3>3, <1>p
  <2> QED BY <2>8
<1> HIDE DEF S
<1>6. \A n \in 0..k : n \in S BY <1>4, <1>5, Counting
<1>7. a[k] # b[k] BY <1>6, <1>p DEF S
<1>8. PICK x \in 0..9, y \in 0..9 : x = a[k] /\ y = b[k] BY <1>a, <1>b
<1>c. x # y BY <1>7, <1>8
<1>9. (10 - x) % 10 # (10 - y) % 10 BY <1>c
<1> QED BY <1>a, <1>b, <1>8, <1>9

(* However long a QR reference is, and wherever one of its digits is wrong.*)
LEMMA ReferenceTells ==
    ASSUME NEW reference \in Seq(0..9), qrr_failure(reference) = {},
           NEW p \in 1..QRR_LENGTH, NEW digit \in 0..9, digit # reference[p]
    PROVE  qrr_failure([reference EXCEPT ![p] = digit]) # {}
<1> DEFINE other == [reference EXCEPT ![p] = digit]
<1>1. Len(reference) = QRR_LENGTH /\ mod10_recursive(Front(reference)) = Last(reference)
  BY DEF qrr_failure
<1>2. QRR_LENGTH \in Nat \ {0, 1} BY QrrAssumption
<1>3. /\ other \in Seq(0..9) /\ Len(other) = QRR_LENGTH
      /\ \A n \in 1..QRR_LENGTH : other[n] = IF n = p THEN digit ELSE reference[n]
  BY <1>1
<1> HIDE DEF other
<1>4. ASSUME NEW s \in Seq(0..9), Len(s) = QRR_LENGTH
      PROVE  /\ Front(s) \in Seq(0..9) /\ Len(Front(s)) = QRR_LENGTH - 1
             /\ Last(s) = s[QRR_LENGTH]
             /\ \A n \in 1..(QRR_LENGTH - 1) : Front(s)[n] = s[n]
  BY <1>2, <1>4 DEF Front, Last
<1>5. CASE p = QRR_LENGTH
  <2>1. Front(other) = Front(reference)
    BY <1>1, <1>3, <1>5 DEF Front
  <2>2. Last(other) # Last(reference) BY <1>1, <1>3, <1>4, <1>5
  <2> QED BY <1>1, <2>1, <2>2 DEF qrr_failure, other
<1>6. CASE p # QRR_LENGTH
  <2>1. p \in 1..(QRR_LENGTH - 1) /\ QRR_LENGTH - 1 \in Nat BY <1>2, <1>6
  <2>2. Last(other) = Last(reference) BY <1>1, <1>2, <1>3, <1>4, <1>6
  <2>3. mod10_recursive(Front(other)) # mod10_recursive(Front(reference))
    <3>1. PICK d \in Seq(0..9) : d = Front(reference) BY <1>1, <1>4
    <3>2. PICK e \in Seq(0..9) : e = Front(other) BY <1>3, <1>4
    <3>3. Len(d) = QRR_LENGTH - 1 /\ Len(e) = QRR_LENGTH - 1 BY <1>1, <1>3, <1>4, <3>1, <3>2
    <3>4. \A n \in 1..(QRR_LENGTH - 1) : e[n] = IF n = p THEN digit ELSE d[n]
      BY <1>1, <1>2, <1>3, <1>4, <3>1, <3>2
    <3>5. d[p] = reference[p] BY <1>1, <1>4, <2>1, <3>1
    <3> QED BY <2>1, <3>1, <3>2, <3>3, <3>4, <3>5, CheckDigitTells
  <2> QED BY <1>1, <2>2, <2>3 DEF qrr_failure, other
<1> QED BY <1>5, <1>6

-----------------------------------------------------------------------------
(* What is paid.                                                           *)

Unit(currency) == 10 ^ (4 - minor_units(currency))

Powers == {1, 10, 100, 10000}

LEMMA Units ==
    ASSUME NEW currency
    PROVE  minor_units(currency) \in 0..4 /\ Unit(currency) \in Powers
<1>1. minor_units(currency) \in {0, 2, 3, 4}
  BY DEF minor_units, CURRENCY_MINOR_UNITS
<1>2. PICK m \in {0, 2, 3, 4} : m = minor_units(currency) BY <1>1
<1>3. CASE m = 0
  <2>1. 4 - m = 4 /\ 10 ^ 4 = 10000 BY <1>3
  <2> QED BY <1>2, <1>3, <2>1 DEF Unit, Powers
<1>4. CASE m = 2
  <2>1. 4 - m = 2 /\ 10 ^ 2 = 100 BY <1>4
  <2> QED BY <1>2, <1>4, <2>1 DEF Unit, Powers
<1>5. CASE m = 3
  <2>1. 4 - m = 1 /\ 10 ^ 1 = 10 BY <1>5
  <2> QED BY <1>2, <1>5, <2>1 DEF Unit, Powers
<1>6. CASE m = 4
  <2>1. 4 - m = 0 /\ 10 ^ 0 = 1 BY <1>6
  <2> QED BY <1>2, <1>6, <2>1 DEF Unit, Powers
<1> QED BY <1>2, <1>3, <1>4, <1>5, <1>6

LEMMA Multiples ==
    ASSUME NEW unit \in Powers, NEW value \in Int
    PROVE  /\ value % unit = 0 => (value \div unit) * unit = value
           /\ (value * unit) % unit = 0
           /\ \A other \in Int : other * unit = value * unit => other = value
<1>1. CASE unit = 1 BY <1>1
<1>2. CASE unit = 10 BY <1>2
<1>3. CASE unit = 100 BY <1>3
<1>4. CASE unit = 10000 BY <1>4
<1> QED BY <1>1, <1>2, <1>3, <1>4 DEF Powers

(* Nothing is rounded where the currency has units that small.             *)
LEMMA Exact ==
    ASSUME NEW value \in Int, NEW currency, value % Unit(currency) = 0
    PROVE  /\ format_amount(value, currency) \in Int
           /\ format_amount(value, currency) * Unit(currency) = value
<1>1. PICK unit \in Powers : unit = Unit(currency) BY Units
<1>2. PICK whole : whole = value \div unit OBVIOUS
<1>3. whole \in Int /\ whole * unit = value
  <2>1. whole \in Int
    <3>1. CASE unit = 1 BY <1>2, <3>1
    <3>2. CASE unit = 10 BY <1>2, <3>2
    <3>3. CASE unit = 100 BY <1>2, <3>3
    <3>4. CASE unit = 10000 BY <1>2, <3>4
    <3> QED BY <3>1, <3>2, <3>3, <3>4 DEF Powers
  <2>2. value % unit = 0 BY <1>1
  <2>3. (value \div unit) * unit = value BY <2>2, Multiples
  <2> QED BY <1>2, <2>1, <2>3
<1>4. unit > 0 /\ ~(2 * 0 > unit) /\ 2 * 0 # unit BY DEF Powers
<1>5. format_amount(value, currency) = whole
  BY <1>1, <1>2, <1>4 DEF format_amount, Unit
<1> QED BY <1>1, <1>3, <1>5

(* What a transfer satisfies where no rule is broken.                      *)
LEMMA AccountAndReference ==
    ASSUME NEW t, t.type \in ReferenceType, reference_failures(t) = {}
    PROVE  /\ Unset \in {_remittance(t).Ustrd, _remittance(t).Strd}
           /\ _remittance(t).Strd = "QRR" <=> is_qr_iban(t.account)
           /\ t.type = "QRR" => t.reference # Unset /\ qrr_failure(t.reference) = {}
<1> DEFINE given == t.reference # Unset
<1>0. Unset # "QRR"
  BY UnsetAssumption DEF ReferenceType
<1>1. /\ t.type # "NONE" => given
      /\ t.type = "NONE" => ~given
      /\ t.type # "NONE" /\ given => t.text = Unset
      /\ t.type = "QRR" /\ given => is_qr_iban(t.account) /\ qrr_failure(t.reference) = {}
      /\ t.type = "SCOR" /\ given => ~is_qr_iban(t.account)
      /\ t.type = "NONE" => ~is_qr_iban(t.account)
  BY DEF reference_failures, When
<1>2. /\ _remittance(t).Ustrd = t.text
      /\ _remittance(t).Strd = IF t.type # "NONE" /\ given THEN t.type ELSE Unset
  BY DEF _remittance
<1>3. t.type = "QRR" \/ t.type = "SCOR" \/ t.type = "NONE"
  BY DEF ReferenceType
<1> QED BY <1>0, <1>1, <1>2, <1>3

LEMMA OneCurrency ==
    ASSUME NEW i, NEW k \in Nat, k # 0, DOMAIN i.transactions = 1..k,
           ~(Cardinality(currencies(i)) > 1)
    PROVE  \A n \in 1..k : i.transactions[n].currency = i.transactions[1].currency
<1> DEFINE currency == [n \in 1..k |-> i.transactions[n].currency]
           S == {currency[n] : n \in 1..k}
<1>1. currencies(i) = S
  BY DEF currencies, ToSet
<1>2. IsFiniteSet(1..k) BY FS_Interval
<1>4. 1 \in 1..k /\ currency[1] \in S OBVIOUS
<1> HIDE DEF currency
<1>3. IsFiniteSet(S)
  <2>1. currency \in Surjection(1..k, S) BY DEF currency, Surjection
  <2> HIDE DEF S
  <2> QED BY <1>2, <2>1, FS_Surjection
<1>5. Cardinality(S) \in Nat /\ Cardinality(S) # 0
  BY <1>3, <1>4, FS_CardinalityType, FS_EmptySet
<1>6. Cardinality(S) = 1 BY <1>1, <1>5
<1>7. \E x \in S : S = {x} BY <1>3, <1>6, FS_Singleton
<1>8. \A n \in 1..k : currency[n] \in S OBVIOUS
<1> HIDE DEF S
<1>9. \A n \in 1..k : currency[n] = currency[1] BY <1>4, <1>7, <1>8
<1> QED BY <1>4, <1>9 DEF currency

(* A payment that breaks no rule, transfer by transfer.                    *)
Kept(t) ==
    /\ t.type \in ReferenceType
    /\ t.amount.value \in Int /\ t.amount.value > 0
    /\ t.amount.value % Unit(t.currency) = 0
    /\ reference_failures(t) = {}

LEMMA RulesKept ==
    ASSUME NEW i, IsInstruction(i), swiss_failures(i) = {}
    PROVE  \A t \in ToSet(i.transactions) : Kept(t)
<1> SUFFICES ASSUME NEW t \in ToSet(i.transactions) PROVE Kept(t) OBVIOUS
<1>1. t.amount.value \in Int /\ IsTransfer(t)
  BY DEF IsInstruction
<1>2. /\ iban_failure(t.account) = {} /\ amount_failures(t.amount, t.currency) = {}
      /\ reference_failures(t) = {}
  <2> DEFINE broken(u) == iban_failure(u.account)
                              \cup amount_failures(u.amount, u.currency)
                              \cup (IF iban_failure(u.account) = {}
                                    THEN reference_failures(u) ELSE {})
  <2>1. UNION {broken(u) : u \in ToSet(i.transactions)} = {}
    BY DEF swiss_failures
  <2>2. broken(t) = {}
    <3> HIDE DEF broken
    <3> QED BY <2>1
  <2> QED BY <2>2
<1>3. t.amount.value > 0 /\ ~(t.amount.places > minor_units(t.currency))
  BY <1>1, <1>2 DEF amount_failures, When
<1>4. PICK p \in 0..4 : p = minor_units(t.currency) BY Units
<1>5. t.amount.places <= p BY <1>1, <1>3, <1>4 DEF IsTransfer
<1>6. t.amount.value % Unit(t.currency) = 0
  BY <1>1, <1>4, <1>5 DEF IsTransfer, Unit
<1> QED BY <1>1, <1>2, <1>3, <1>6 DEF Kept, IsTransfer

LEMMA OneCurrencyKept ==
    ASSUME NEW i, IsInstruction(i), swiss_failures(i) = {}
    PROVE  \E k \in Nat \ {0} :
               /\ DOMAIN i.transactions = 1..k /\ Len(i.transactions) = k
               /\ \A n \in 1..k : i.transactions[n].currency = i.transactions[1].currency
<1>1. i.transactions \in Seq(ToSet(i.transactions)) /\ DOMAIN i.transactions # {}
  BY DEF IsInstruction
<1>2. PICK k \in Nat : k = Len(i.transactions) /\ DOMAIN i.transactions = 1..k BY <1>1
<1>3. k # 0 BY <1>1, <1>2
<1>4. ~(Cardinality(currencies(i)) > 1)
  <2>1. When(Cardinality(currencies(i)) > 1, "currency.mixed") = {} BY DEF swiss_failures
  <2> QED BY <2>1 DEF When
<1> QED BY <1>2, <1>3, <1>4, OneCurrency

(* The conjunct of PayableAsWritten about one attempt.                     *)
Pays(d, i) ==
    LET unit == 10 ^ (4 - minor_units(d.CdtTrfTxInf[1].Ccy))
    IN  /\ d.CtrlSum = StatedSum(d.CdtTrfTxInf)
        /\ \A n \in DOMAIN d.CdtTrfTxInf :
               LET t == d.CdtTrfTxInf[n] IN
               /\ t.Ccy = d.CdtTrfTxInf[1].Ccy
               /\ t.InstdAmt > 0
               /\ t.InstdAmt * unit = i.transactions[n].amount.value
               /\ Unset \in {t.RmtInf.Ustrd, t.RmtInf.Strd}
               /\ t.RmtInf.Strd = "QRR" <=> is_qr_iban(t.CdtrAcct)

LEMMA DocumentPays ==
    ASSUME NEW i, IsInstruction(i), swiss_failures(i) = {}, NEW profile, NEW each
    PROVE  Pays(build(i, profile, each), i)
<1>1. PICK k \in Nat \ {0} :
          /\ DOMAIN i.transactions = 1..k /\ Len(i.transactions) = k
          /\ \A n \in 1..k : i.transactions[n].currency = i.transactions[1].currency
  BY OneCurrencyKept
<1>2. \A n \in 1..k : Kept(i.transactions[n])
  BY <1>1, RulesKept DEF ToSet
<1>3. PICK currency : currency = i.transactions[1].currency OBVIOUS
<1>4. PICK unit \in Powers : unit = Unit(currency) BY Units
<1>5. PICK d : d = build(i, profile, each) OBVIOUS
<1>6. PICK seq : seq = d.CdtTrfTxInf OBVIOUS
<1>7. /\ seq = [n \in 1..k |-> _transaction(i.transactions[n], profile, each)]
      /\ d.CtrlSum = format_amount(control_sum(i), currency)
  BY <1>1, <1>3, <1>5, <1>6 DEF build
<1>8. ASSUME NEW n \in 1..k
      PROVE  LET t == seq[n]
                 value == i.transactions[n].amount.value
             IN  /\ t.Ccy = currency
                 /\ t.InstdAmt \in Int /\ t.InstdAmt > 0 /\ t.InstdAmt * unit = value
                 /\ value \in Int
                 /\ Unset \in {t.RmtInf.Ustrd, t.RmtInf.Strd}
                 /\ t.RmtInf.Strd = "QRR" <=> is_qr_iban(t.CdtrAcct)
  <2>1. PICK u : u = i.transactions[n] OBVIOUS
  <2>2. Kept(u) /\ u.currency = currency BY <1>1, <1>2, <1>3, <2>1
  <2>3. /\ seq[n].Ccy = u.currency /\ seq[n].CdtrAcct = u.account
        /\ seq[n].RmtInf = _remittance(u)
        /\ seq[n].InstdAmt = format_amount(u.amount.value, u.currency)
    BY <1>7, <2>1 DEF _transaction
  <2>4. u.amount.value \in Int /\ u.amount.value > 0 /\ u.amount.value % Unit(currency) = 0
    BY <2>2 DEF Kept
  <2>5. seq[n].InstdAmt \in Int /\ seq[n].InstdAmt * unit = u.amount.value
    BY <1>4, <2>2, <2>3, <2>4, Exact
  <2>6. seq[n].InstdAmt > 0
    <3>1. PICK a \in Int, v \in Int : a = seq[n].InstdAmt /\ v = u.amount.value BY <2>4, <2>5
    <3>2. a * unit = v /\ v > 0 /\ unit \in Powers BY <2>4, <2>5, <3>1
    <3>3. a > 0 BY <3>2 DEF Powers
    <3> QED BY <3>1, <3>3
  <2>7. /\ Unset \in {_remittance(u).Ustrd, _remittance(u).Strd}
        /\ _remittance(u).Strd = "QRR" <=> is_qr_iban(u.account)
    BY <2>2, AccountAndReference DEF Kept
  <2>8. /\ seq[n].Ccy = currency
        /\ Unset \in {seq[n].RmtInf.Ustrd, seq[n].RmtInf.Strd}
        /\ seq[n].RmtInf.Strd = "QRR" <=> is_qr_iban(seq[n].CdtrAcct)
    BY <2>2, <2>3, <2>7
  <2>9. i.transactions[n].amount.value = u.amount.value BY <2>1
  <2> QED BY <2>4, <2>5, <2>6, <2>8, <2>9
<1>v. \A n \in 1..k : i.transactions[n].amount.value \in Int BY <1>8
<1>s. \A n \in 1..k : seq[n].InstdAmt \in Int BY <1>8
<1>a. \A n \in 1..k : /\ seq[n].InstdAmt \in Int
                      /\ i.transactions[n].amount.value = seq[n].InstdAmt * unit
  BY <1>8
<1>k. k \in Nat /\ DOMAIN i.transactions = 1..k /\ DOMAIN seq = 1..k BY <1>1, <1>7
<1>9. PICK total : total = StatedSum(seq) OBVIOUS
<1>10. total \in Int /\ control_sum(i) \in Int /\ control_sum(i) = total * unit
  <2> DEFINE vals == [n \in 1..k |-> i.transactions[n].amount.value]
             amounts == [n \in 1..k |-> seq[n].InstdAmt]
  <2>1. \A n \in 1..k : amounts[n] \in Int /\ vals[n] = amounts[n] * unit
    BY <1>a
  <2>2. \E whole : RunsTo(whole, k, vals, control_sum(i))
    BY ONLY <1>v, <1>k, ControlSum
  <2>3. \E parts : RunsTo(parts, k, amounts, total)
    <3>1. \E parts : RunsTo(parts, k, amounts, StatedSum(seq))
      BY ONLY <1>s, <1>k, AmountSum
    <3> QED BY ONLY <1>9, <3>1
  <2> HIDE DEF vals, amounts
  <2>4. unit \in Int BY DEF Powers
  <2>5. PICK whole : RunsTo(whole, k, vals, control_sum(i)) BY <2>2
  <2>6. PICK parts : RunsTo(parts, k, amounts, total) BY <2>3
  <2>7. k \in Nat BY <1>k
  <2> QED BY ONLY <2>1, <2>4, <2>5, <2>6, <2>7, SumsScale
<1>11. d.CtrlSum = total
  <2>1. PICK whole \in Int : whole = control_sum(i) BY <1>10
  <2>2. whole % Unit(currency) = 0 /\ whole = total * unit
    <3>1. (total * unit) % unit = 0 BY <1>10, Multiples, Zenon
    <3> QED BY <1>4, <1>10, <2>1, <3>1
  <2>3. /\ format_amount(whole, currency) \in Int
        /\ format_amount(whole, currency) * unit = whole
    BY <1>4, <2>2, Exact
  <2> QED BY <1>7, <1>10, <2>1, <2>2, <2>3, Multiples
<1>12. 1 \in 1..k /\ DOMAIN seq = 1..k BY <1>7
<1>13. unit = 10 ^ (4 - minor_units(seq[1].Ccy))
  BY <1>4, <1>8, <1>12 DEF Unit
<1> QED
  BY <1>5, <1>6, <1>8, <1>9, <1>11, <1>12, <1>13 DEF Pays

(* An order is of a payment that breaks none of the Swiss rules.           *)
LEMMA OrderIsPayable ==
    ASSUME SubmissionInv, NEW o \in DOMAIN orders
    PROVE  swiss_failures(Instruction[orders[o].instruction]) = {}
<1>1. PICK q : Entered(orders[o], o, q)
  BY DEF SubmissionInv, Ordered
<1>2. Failures(Profiles[q.schemes], Instruction[orders[o].instruction]) = {}
  BY <1>1 DEF Entered, Broken
<1> QED BY <1>2 DEF Failures

LEMMA InvPayable == SubmissionInv => PayableAsWritten
<1> SUFFICES ASSUME SubmissionInv, NEW o \in DOMAIN orders
             PROVE  LET i == Instruction[orders[o].instruction] IN
                    /\ \A a \in ToSet(orders[o].attempts) : Pays(a.document, i)
                    /\ \A n \in DOMAIN i.transactions :
                           LET t == i.transactions[n] IN
                           t.type = "QRR" =>
                               \A k \in 1..QRR_LENGTH, digit \in 0..9 :
                                   digit # t.reference[k] =>
                                       qrr_failure([t.reference EXCEPT ![k] = digit]) # {}
  BY DEF PayableAsWritten, Pays, StatedSum
<1> DEFINE i == Instruction[orders[o].instruction]
           p == Profiles[requests[orders[o].request].schemes]
           d == resolve(p, i)
<1>1. IsInstruction(i) /\ orders[o].attempts = _build(i, d, p, orders[o].request)
  BY OrderIsOf
<1>2. swiss_failures(i) = {} BY OrderIsPayable
<1>3. ASSUME NEW a \in ToSet(orders[o].attempts) PROVE Pays(a.document, i)
  <2>1. PICK n \in DOMAIN Schemes(d) : a = _build(i, d, p, orders[o].request)[n]
    BY <1>1, <1>3, SchemesSent DEF ToSet
  <2>2. a.document = build(i, ProfileOf(p, Schemes(d)[n]), per_transaction(i))
    BY <2>1 DEF _build
  <2> HIDE DEF i, p, d
  <2> QED BY <1>1, <1>2, <2>2, DocumentPays
<1>4. ASSUME NEW n \in DOMAIN i.transactions, i.transactions[n].type = "QRR",
             NEW k \in 1..QRR_LENGTH, NEW digit \in 0..9,
             digit # i.transactions[n].reference[k]
      PROVE  qrr_failure([i.transactions[n].reference EXCEPT ![k] = digit]) # {}
  <2> HIDE DEF i
  <2>1. PICK t \in ToSet(i.transactions) : t = i.transactions[n] BY <1>4 DEF ToSet
  <2>2. Kept(t) BY <1>1, <1>2, RulesKept
  <2>3. t.reference # Unset /\ qrr_failure(t.reference) = {}
    BY <1>4, <2>1, <2>2, AccountAndReference DEF Kept
  <2>4. t.reference \in Seq(0..9)
    <3>1. IsTransfer(t) BY <1>1 DEF IsInstruction
    <3> QED BY <1>4, <2>1, <2>3, <3>1 DEF IsTransfer
  <2> QED BY <1>4, <2>1, <2>3, <2>4, ReferenceTells
<1> QED BY <1>3, <1>4

-----------------------------------------------------------------------------
(* The theorems.                                                           *)

\* The tables keep their shape: an order is of a payment and a connection there
\* are, with a live first attempt, and a request names an order and a page that
\* are there (OrderStore.submit).
THEOREM TypeCorrect == Spec => []TypeOK
BY Invariant, InvTypeOK, PTL

\* A key stands for one payment, for any number of requests racing for it,
\* repeating it or lost with it: what is accepted is on record and is what was
\* asked for, what conflicts asked for something else, and no second order is
\* ever entered under a key (OrderStore.submit, _insert, _replay).
THEOREM ImplementsBookHolds == Spec => ImplementsBook
<1>1. SubmissionInv /\ SubmissionInv' /\ [Next]_vars => [Promise!Next]_(Promise!vars)
  BY StepMaps
<1> QED
  BY <1>1, InitMaps, Invariant, PTL DEF Spec, ImplementsBook, Promise!Spec

\* An order is sent as it was asked for, under the configuration its request
\* read, whatever an administrator stores in the meantime: one scheme decision,
\* and attempts whose BTF, payment type and document say the same (resolve,
\* OrderStore._build, pain001.build).
THEOREM SentAsAskedHolds == Spec => []SentAsAsked
<1>1. SubmissionInv => SentAsAsked
  BY InvDecidedAsAsked, InvDocumentMatches DEF SentAsAsked
<1> QED
  BY <1>1, Invariant, PTL

\* What reaches the table can be paid as it is written, for any payment of any
\* length: one currency, amounts the document states exactly and a control sum
\* of those amounts, the QR reference where the account asks for one, and a
\* check digit that gives away any digit mistyped (sps.py, payments.py
\* swiss_failures, pain001.py build).
THEOREM PayableAsWrittenHolds == Spec => []PayableAsWritten
BY Invariant, InvPayable, PTL

\* The page an operator confirmed is what goes, once, however often its button
\* is pressed and whatever else happens to its key (OrderStore.preview,
\* send_payment).
THEOREM ShownIsSentHolds == Spec => []ShownIsSent
BY Invariant, InvShownIsSent, PTL

=============================================================================
