------------------------- MODULE PaymentSubmission --------------------------
(***************************************************************************)
(* A payment on its way into the order table (orders.py submit, preview;   *)
(* ui/payment_views.py; api.py submit_payment).                            *)
(*                                                                         *)
(* A request reads the connection, looks its key up, checks and builds in  *)
(* memory, inserts the order with its attempts in one transaction, and     *)
(* records what happened in another; each of these is a step, and another  *)
(* request, an administrator or the end of the process may come between    *)
(* two of them.  A caller that hears nothing asks again, with the same key *)
(* or, by mistake, with a key it has used for another payment.  An         *)
(* operator of the console is shown the document first; the page carries   *)
(* the key, and its button can be pressed twice.                           *)
(*                                                                         *)
(* Payments and configurations are named by small numbers; Instruction and *)
(* Profiles say what they are.                                             *)
(***************************************************************************)
EXTENDS PaymentRules

CONSTANTS Connections,
          Instruction,    \* what is asked for, by number
          Profiles,       \* a connection's scheme configuration, by number
          MaxRequests,    \* bounds the submissions of a behaviour
          Settings        \* what happens in a behaviour: see Init

ASSUME DataAssumption ==
    /\ \A n \in DOMAIN Instruction : IsInstruction(Instruction[n])
    /\ \A n \in DOMAIN Profiles : IsConfiguration(Profiles[n])

ASSUME SettingsAssumption ==
    /\ MaxRequests \in Nat
    /\ \A s \in Settings :
           /\ s.connections \subseteq Connections
           /\ s.keys \subseteq 0..MaxRequests
           /\ s.instructions \subseteq DOMAIN Instruction
           /\ s.start \in DOMAIN Profiles /\ s.configs \subseteq DOMAIN Profiles
           /\ {s.requests, s.previews} \subseteq 0..MaxRequests

VARIABLES setting,
          connections,    \* connection -> [initialised, schemes]
          orders,         \* payment_order with its payment_attempt rows
          trail,          \* what the audit log has recorded
          screens,        \* preview pages: what each shows and carries
          requests        \* submissions, in the order they arrived

vars == <<setting, connections, orders, trail, screens, requests>>

NoOrder == 0

NotFromScreen == 0

TypeOK ==
    /\ setting \in Settings
    /\ connections \in [Connections -> [initialised : BOOLEAN,
                                        schemes : DOMAIN Profiles]]
    /\ \A o \in DOMAIN orders :
           /\ orders[o].connection \in Connections
           /\ orders[o].instruction \in DOMAIN Instruction
           /\ orders[o].attempts[1].state = "live"
    /\ \A r \in DOMAIN requests :
           /\ requests[r].step \in {"find", "reject", "insert", "announce",
                                    "again", "replay", "refused", "conflict",
                                    "accepted", "lost"}
           /\ requests[r].order \in {NoOrder} \cup DOMAIN orders
           /\ requests[r].screen \in {NotFromScreen} \cup DOMAIN screens

Init ==
    /\ setting \in Settings
    /\ connections = [c \in Connections |->
                          [initialised |-> TRUE, schemes |-> setting.start]]
    /\ orders = <<>>
    /\ trail = {}
    /\ screens = <<>>
    /\ requests = <<>>

-----------------------------------------------------------------------------
\* Helpers.

\* The rows under one key of one connection.
Under(c, key) ==
    {o \in DOMAIN orders : orders[o].connection = c /\ orders[o].key = key}

\* The unique constraint on (connection_id, idempotency_key).
InsertSucceeds(c, key) == Under(c, key) = {}

\* Taken over the parsed instruction, so equal payments have equal prints.
fingerprint(c, i) == <<c, i>>

\* Any order under the key is taken for the one that was asked for.
SameKeySamePayment(o, r) == TRUE

StoredPrintMatches(o, r) ==
    fingerprint(orders[o].connection, orders[o].instruction)
        = fingerprint(requests[r].connection, requests[r].instruction)

\* What a decision makes an order send: its own scheme, and the reserve.
Schemes(decision) ==
    IF decision.fallback = Unset THEN <<decision.effective>>
    ELSE <<decision.effective, decision.fallback>>

\* A fresh MsgId for each document a request builds.
new_message_id(r, n) == <<r, n>>

\* The reserve is built from the profile the first attempt goes out under.
ReserveOfTheSameProfile(i, decision, profiles, r) ==
    [n \in DOMAIN Schemes(decision) |->
        LET scheme == Schemes(decision)[n] IN
            [scheme |-> scheme,
             state |-> IF n = 1 THEN "live" ELSE "planned",
             msg_id |-> new_message_id(r, n),
             btf |-> ProfileOf(profiles, scheme).btf,
             payment_type |-> payment_type_summary(ProfileOf(profiles, scheme)),
             document |-> build(i, ProfileOf(profiles, decision.effective),
                                per_transaction(i))]]

\* One attempt for every scheme: MsgId, document and BTF from one profile.
_build(i, decision, profiles, r) ==
    [n \in DOMAIN Schemes(decision) |->
        LET scheme == Schemes(decision)[n]
            profile == ProfileOf(profiles, scheme)
        IN  [scheme |-> scheme,
             state |-> IF n = 1 THEN "live" ELSE "planned",
             msg_id |-> new_message_id(r, n),
             btf |-> profile.btf,
             payment_type |-> payment_type_summary(profile),
             document |-> build(i, profile, per_transaction(i))]]

\* Everything wrong with a payment here: the Swiss rules, then the scheme.
Failures(profiles, i) ==
    IF swiss_failures(i) # {} THEN swiss_failures(i)
    ELSE LET decision == resolve(profiles, i) IN
             IF decision.refused # Unset THEN {decision.refused} ELSE {}

Recorded(action, r, o) ==
    trail \cup {[action |-> action, request |-> r, order |-> o]}

Goes(r, step) == requests' = [requests EXCEPT ![r].step = step]

-----------------------------------------------------------------------------
\* Asking.

Spends(kind, n) == setting[kind] > n

\* A request arrives and reads the connection; it is refused at once where
\* the subscriber is not initialised.
Arrives(c, key, i, screen) ==
    LET row == connections[c] IN
    /\ Spends("requests", Len(requests))
    /\ requests' = Append(requests,
           [connection |-> c, key |-> key, instruction |-> i,
            screen |-> screen, schemes |-> row.schemes, order |-> NoOrder,
            step |-> IF row.initialised THEN "find" ELSE "refused"])
    /\ UNCHANGED <<setting, connections, orders, trail, screens>>

\* A program posts a payment under a key of its own choice.
submit_payment(c, key, i) ==
    /\ c \in setting.connections /\ key \in setting.keys
    /\ i \in setting.instructions
    /\ Arrives(c, <<"client", key>>, i, NotFromScreen)

\* The page shows what an ordinary, single scheme would send.
PreviewPlacesTypeOnMessage(c, i) ==
    LET row == connections[c]
        profiles == Profiles[row.schemes]
        decision == resolve(profiles, Instruction[i])
    IN
    /\ c \in setting.connections /\ i \in setting.instructions
    /\ Spends("previews", Len(screens))
    /\ row.initialised
    /\ Failures(profiles, Instruction[i]) = {}
    /\ screens' = Append(screens,
           [connection |-> c, instruction |-> i, schemes |-> row.schemes,
            document |-> TypeOnTheMessage(Instruction[i],
                             ProfileOf(profiles, decision.effective),
                             per_transaction(Instruction[i]))])
    /\ UNCHANGED <<setting, connections, orders, trail, requests>>

\* Everything a submission would do, stopping before the row.  The page shows
\* the document of the first attempt and carries a fresh key.
preview(c, i) ==
    LET row == connections[c]
        profiles == Profiles[row.schemes]
        decision == resolve(profiles, Instruction[i])
    IN
    /\ c \in setting.connections /\ i \in setting.instructions
    /\ Spends("previews", Len(screens))
    /\ row.initialised
    /\ Failures(profiles, Instruction[i]) = {}
    /\ screens' = Append(screens,
           [connection |-> c, instruction |-> i, schemes |-> row.schemes,
            document |-> build(Instruction[i],
                               ProfileOf(profiles, decision.effective),
                               per_transaction(Instruction[i]))])
    /\ UNCHANGED <<setting, connections, orders, trail, requests>>

\* The key is made when the button is pressed.
KeyOfThePress(s) ==
    Arrives(screens[s].connection, <<"press", Len(requests)>>,
            screens[s].instruction, s)

\* The operator confirms a page, again if the answer does not come.
send_payment(s) ==
    Arrives(screens[s].connection, <<"console", s>>,
            screens[s].instruction, s)

-----------------------------------------------------------------------------
\* The steps of a submission, each of which can refuse.

\* The key is looked up; unused, the payment is checked in memory.
Finds(r) ==
    LET q == requests[r]
        under == Under(q.connection, q.key)
    IN
    /\ q.step = "find"
    /\ requests' =
           [requests EXCEPT
              ![r].order = IF under = {} THEN NoOrder
                           ELSE CHOOSE o \in under : TRUE,
              ![r].step =
                  IF under # {} THEN "replay"
                  ELSE IF Failures(Profiles[q.schemes],
                                   Instruction[q.instruction]) # {}
                       THEN "reject" ELSE "insert"]
    /\ UNCHANGED <<setting, connections, orders, trail, screens>>

\* payment.validation_failed, and the refusal.
_reject(r) ==
    /\ requests[r].step = "reject"
    /\ trail' = Recorded("payment.validation_failed", r, NoOrder)
    /\ Goes(r, "refused")
    /\ UNCHANGED <<setting, connections, orders, screens>>

\* The order and its attempts in one transaction, or the loser of the race.
_insert(r) ==
    LET q == requests[r]
        i == Instruction[q.instruction]
        profiles == Profiles[q.schemes]
        decision == resolve(profiles, i)
    IN
    /\ q.step = "insert"
    /\ IF InsertSucceeds(q.connection, q.key)
       THEN /\ orders' = Append(orders,
                  [connection |-> q.connection, key |-> q.key,
                   instruction |-> q.instruction, request |-> r,
                   requested_scheme |-> decision.requested,
                   scheme |-> decision.effective,
                   scheme_reason |-> decision.reason,
                   attempts |-> _build(i, decision, profiles, r)])
            /\ requests' = [requests EXCEPT ![r].order = Len(orders) + 1,
                                            ![r].step = "announce"]
       ELSE /\ Goes(r, "again")
            /\ UNCHANGED orders
    /\ UNCHANGED <<setting, connections, trail, screens>>

\* payment.accepted, the event of a webhook, and the answer.
Announces(r) ==
    /\ requests[r].step = "announce"
    /\ trail' = Recorded("payment.accepted", r, requests[r].order)
    /\ Goes(r, "accepted")
    /\ UNCHANGED <<setting, connections, orders, screens>>

\* The loser of the race finds the row that won.
FindsWinner(r) ==
    LET q == requests[r] IN
    /\ q.step = "again"
    /\ requests' = [requests EXCEPT
                       ![r].order = CHOOSE o \in Under(q.connection, q.key) :
                                        TRUE,
                       ![r].step = "replay"]
    /\ UNCHANGED <<setting, connections, orders, trail, screens>>

\* The original outcome, or a conflict if the payment is another one.
_replay(r) ==
    LET o == requests[r].order
        same == StoredPrintMatches(o, r)
    IN
    /\ requests[r].step = "replay"
    /\ trail' = Recorded(IF same THEN "payment.replayed"
                         ELSE "payment.conflict", r, o)
    /\ Goes(r, IF same THEN "accepted" ELSE "conflict")
    /\ UNCHANGED <<setting, connections, orders, screens>>

-----------------------------------------------------------------------------
\* What happens beside a submission.

Open(r) == requests[r].step \in {"find", "reject", "insert", "announce",
                                 "again", "replay"}

\* The process ends, or its caller's connection does, before the answer.
Lost(r) ==
    /\ Open(r)
    /\ Spends("losses", Cardinality({q \in DOMAIN requests :
                                         requests[q].step = "lost"}))
    /\ Goes(r, "lost")
    /\ UNCHANGED <<setting, connections, orders, trail, screens>>

\* An administrator stores another set of scheme profiles.
update(c, p) ==
    /\ c \in setting.connections /\ p \in setting.configs
    /\ connections[c].schemes # p
    /\ connections' = [connections EXCEPT ![c].schemes = p]
    /\ UNCHANGED <<setting, orders, trail, screens, requests>>

\* The keys leave, or reach, the state in which the bank takes orders.
KeyStateChanges(c) ==
    /\ c \in setting.connections /\ setting.keyed
    /\ connections' = [connections EXCEPT ![c].initialised = ~@]
    /\ UNCHANGED <<setting, orders, trail, screens, requests>>

Next ==
    \/ \E c \in setting.connections :
           \/ \E key \in setting.keys, i \in setting.instructions :
                  submit_payment(c, key, i)
           \/ \E i \in setting.instructions : preview(c, i)
           \/ \E p \in setting.configs : update(c, p)
           \/ KeyStateChanges(c)
    \/ \E s \in DOMAIN screens : send_payment(s)
    \/ \E r \in DOMAIN requests :
           \/ Finds(r)
           \/ _reject(r)
           \/ _insert(r)
           \/ Announces(r)
           \/ FindsWinner(r)
           \/ _replay(r)
           \/ Lost(r)

Spec == Init /\ [][Next]_vars

-----------------------------------------------------------------------------
(* Properties. *)

\* A key stands for one payment, however many requests of it are under way at
\* once and wherever they are lost: the table is a book with one order for a
\* key, every answer agrees with it, and no caller hears that its payment is
\* accepted before the audit log says by which request and of which order
\* (orders.py submit, _insert, _replay).
RequestIds == 1..MaxRequests

Slots == Connections \X ({"client", "console", "press"} \X (0..MaxRequests))

\* None in the code: no scheme, no rule, no kind of reference, no payment and no
\* request for one.
ASSUME UnsetAssumption ==
    /\ Unset \notin PaymentScheme \cup SchemeRefusals \cup ReferenceType
    /\ Unset \notin DOMAIN Instruction
    /\ Unset \notin [slot : Slots, payment : DOMAIN Instruction]

TwoOrders == 0

Book ==
    [s \in Slots |->
        LET under == Under(s[1], s[2]) IN
            CASE under = {} -> Unset
              [] Cardinality(under) = 1 ->
                     orders[CHOOSE o \in under : TRUE].instruction
              [] OTHER -> TwoOrders]

OnRecord(r, o) ==
    \E e \in trail : /\ e.request = r /\ e.order = o
                     /\ e.action = IF orders[o].request = r
                                   THEN "payment.accepted"
                                   ELSE "payment.replayed"

Told(r) ==
    IF r \notin DOMAIN requests \/ Open(r) THEN "nothing"
    ELSE IF requests[r].step = "accepted" /\ ~OnRecord(r, requests[r].order)
         THEN "unrecorded" ELSE requests[r].step

Asked(r) ==
    IF r \notin DOMAIN requests THEN Unset
    ELSE [slot |-> <<requests[r].connection, requests[r].key>>,
          payment |-> requests[r].instruction]

Promise ==
    INSTANCE SubmissionBook
        WITH Payments <- DOMAIN Instruction, Requests <- RequestIds,
             Free <- Unset, book <- Book,
             asked <- [r \in RequestIds |-> Asked(r)],
             told <- [r \in RequestIds |-> Told(r)]

ImplementsBook == Promise!Spec

\* The schemes of an order: one that every transfer names or leaves open;
\* instant only where every transfer may be; never normal for a payment that
\* insists on instant; a reserve exactly where instant goes first and the
\* caller allowed one.
DecidedAsAsked ==
    \A o \in DOMAIN orders :
        LET order == orders[o]
            i == Instruction[order.instruction]
            p == Profiles[requests[order.request].schemes]
            reachable ==
                /\ p.instant # Unset
                /\ \A n \in DOMAIN i.transactions :
                       p.instant.max_amount # Unset =>
                           i.transactions[n].amount.value
                               <= p.instant.max_amount
            schemes == [n \in DOMAIN order.attempts |->
                            order.attempts[n].scheme]
        IN  /\ \A n \in DOMAIN i.transactions :
                   order.requested_scheme =
                       IF i.transactions[n].scheme # Unset
                       THEN i.transactions[n].scheme
                       ELSE IF i.scheme # Unset THEN i.scheme ELSE p.default
            /\ schemes =
                   CASE order.requested_scheme = "normal" -> <<"normal">>
                     [] order.requested_scheme = "instant" -> <<"instant">>
                     [] OTHER -> IF reachable THEN <<"instant", "normal">>
                                 ELSE <<"normal">>
            /\ "instant" \in ToSet(schemes) => reachable
            /\ order.scheme = schemes[1]

\* The BTF and the document of an attempt claim the same scheme: the payment
\* type of its own profile stands on the message or on every transfer, never
\* on both or on some, and a document that declares SEPA follows its
\* conventions whatever the country of the account.
DocumentMatchesAnnouncement ==
    \A o \in DOMAIN orders :
        LET p == Profiles[requests[orders[o].request].schemes] IN
        \A a \in ToSet(orders[o].attempts) :
            LET d == a.document
                own == IF a.scheme = "normal" THEN p.normal ELSE p.instant
                claims == {d.CdtTrfTxInf[n].PmtTpInf :
                               n \in DOMAIN d.CdtTrfTxInf}
            IN  /\ a.btf = own.btf
                /\ Cardinality(claims) = 1
                /\ a.payment_type = Unset =>
                       claims = {Unset} /\ d.PmtTpInf = Unset
                /\ a.payment_type # Unset =>
                       {d.PmtTpInf} \cup claims = {Unset, a.payment_type}
                /\ d.DbtrAgt = "NOTPROVIDED" <=>
                       /\ Instruction[orders[o].instruction].debtor_bic = Unset
                       /\ own.service_level = "SEPA"

\* An order is sent as it was asked for, under the configuration its request
\* read: the one decision of schemes.py resolve, and of each of its attempts a
\* document that says the same (orders.py _build, pain001.py build).
SentAsAsked == DecidedAsAsked /\ DocumentMatchesAnnouncement

\* What reaches the table can be paid under the Swiss rules: one currency, an
\* amount the document states exactly and a control sum of those amounts, a QR
\* reference on a QR-IBAN and nowhere else, never two kinds of remittance, and
\* a reference whose last digit gives away any digit mistyped (sps.py).
PayableAsWritten ==
    \A o \in DOMAIN orders :
        LET i == Instruction[orders[o].instruction] IN
        /\ \A a \in ToSet(orders[o].attempts) :
               LET d == a.document
                   unit == 10 ^ (4 - minor_units(d.CdtTrfTxInf[1].Ccy))
               IN  /\ d.CtrlSum =
                          FoldLeft(LAMBDA sum, t : sum + t.InstdAmt, 0,
                                   d.CdtTrfTxInf)
                   /\ \A n \in DOMAIN d.CdtTrfTxInf :
                          LET t == d.CdtTrfTxInf[n] IN
                          /\ t.Ccy = d.CdtTrfTxInf[1].Ccy
                          /\ t.InstdAmt > 0
                          /\ t.InstdAmt * unit = i.transactions[n].amount.value
                          /\ Unset \in {t.RmtInf.Ustrd, t.RmtInf.Strd}
                          /\ t.RmtInf.Strd = "QRR" <=> is_qr_iban(t.CdtrAcct)
        /\ \A n \in DOMAIN i.transactions :
               LET t == i.transactions[n] IN
               t.type = "QRR" =>
                   \A k \in 1..QRR_LENGTH, digit \in 0..9 :
                       digit # t.reference[k] =>
                           qrr_failure([t.reference EXCEPT ![k] = digit]) # {}

\* The page an operator confirmed is what goes, once however often the button
\* is pressed: unless the connection was changed in between, the payment is
\* not refused and its first document is the one that was shown (orders.py
\* preview, ui/payment_views.py send_payment).
ShownIsSent ==
    LET Unchanged(q) == /\ q.screen # NotFromScreen
                        /\ q.schemes = screens[q.screen].schemes
        PageOf(o) == requests[orders[o].request].screen
    IN  /\ \A r \in DOMAIN requests :
               Unchanged(requests[r]) =>
                   requests[r].step \notin {"reject", "conflict"}
        /\ \A o \in DOMAIN orders :
               LET q == requests[orders[o].request] IN
               Unchanged(q) => orders[o].attempts[1].document
                                   = screens[q.screen].document
        /\ \A o, p \in DOMAIN orders :
               o # p /\ PageOf(o) # NotFromScreen => PageOf(o) # PageOf(p)
=============================================================================
