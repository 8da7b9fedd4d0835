---------------------------- MODULE PaymentRules ----------------------------
(***************************************************************************)
(* What a payment instruction has to satisfy, which scheme it is sent      *)
(* under, and the document it becomes: the pure half of a submission       *)
(* (payments.py, sps.py, schemes.py, pain001.py).                          *)
(*                                                                         *)
(* An amount is [value |-> in the smallest unit a currency has,            *)
(* ten-thousandths, places |-> decimal places as written]; one written     *)
(* finer is refused whatever its value.  An account is [country, iid,      *)
(* broken]: `broken` is the rule its IBAN breaks, or Unset; format, length *)
(* and the MOD 97 check are not computed.  A QR reference is the sequence  *)
(* of its digits, of a wrong length where it is not all digits, and its    *)
(* recursive check digit is computed; any other reference is the rule it   *)
(* breaks or "good".                                                       *)
(***************************************************************************)
EXTENDS Integers, FiniteSets, Sequences, SequencesExt

CONSTANTS QRR_LENGTH,   \* digits of a QR reference, 27 in the code
          Unset         \* a field the caller or the configuration left out

ASSUME QrrAssumption == QRR_LENGTH \in Nat \ {0, 1}

-----------------------------------------------------------------------------
\* sps.py: the Swiss rules.

QR_IID_RANGE == 30000..31999

QR_BILL_CURRENCIES == {"CHF", "EUR"}

\* The exceptions to two decimals, one of each kind.
CURRENCY_MINOR_UNITS == [JPY |-> 0, KWD |-> 3, CLF |-> 4]

minor_units(currency) ==
    IF currency \in DOMAIN CURRENCY_MINOR_UNITS
    THEN CURRENCY_MINOR_UNITS[currency] ELSE 2

\* The carry table is one row turned: row c is the first one shifted by c.
MOD10R == <<0, 9, 4, 6, 8, 2, 7, 1, 3, 5>>

\* The carry is not taken on to the next digit.
ForgetsTheCarry(digits) ==
    (10 - FoldLeft(LAMBDA carry, digit : MOD10R[digit + 1], 0, digits)) % 10

\* The check digit of a run of digits.
mod10_recursive(digits) ==
    (10 - FoldLeft(LAMBDA carry, digit : MOD10R[((carry + digit) % 10) + 1],
                   0, digits)) % 10

qrr_failure(reference) ==
    IF Len(reference) # QRR_LENGTH THEN {"qrr.format"}
    ELSE IF mod10_recursive(Front(reference)) # Last(reference)
         THEN {"qrr.check_digit"} ELSE {}

scor_failure(reference) == IF reference = "good" THEN {} ELSE {reference}

iban_failure(account) ==
    IF account.broken = Unset THEN {} ELSE {account.broken}

\* The institution of a Swiss or Liechtenstein account, Unset for another.
swiss_iid(account) ==
    IF account.country \in {"CH", "LI"} THEN account.iid ELSE Unset

is_qr_iban(account) ==
    swiss_iid(account) # Unset /\ swiss_iid(account) \in QR_IID_RANGE

When(condition, rule) == IF condition THEN {rule} ELSE {}

amount_failures(amount, currency) ==
    When(amount.value <= 0, "amount.positive")
        \cup When(amount.places > minor_units(currency), "amount.minor_units")

\* The QR-IBAN rule is read in one direction only.
QrIbanTakesAnyReference(t) ==
    When(t.type # "NONE" /\ t.reference = Unset, "reference.missing")
        \cup IF t.type = "QRR" /\ t.reference # Unset
             THEN qrr_failure(t.reference) ELSE {}

\* The rules about an account and its reference together.
reference_failures(t) ==
    LET qr_account == is_qr_iban(t.account)
        given == t.reference # Unset
    IN  When(t.type = "NONE" /\ given, "reference.unexpected")
        \cup When(t.type # "NONE" /\ ~given, "reference.missing")
        \cup When(t.type # "NONE" /\ given /\ t.text # Unset,
                  "reference.exclusive")
        \cup (IF t.type = "QRR" /\ given
              THEN qrr_failure(t.reference)
                   \cup When(~qr_account, "qrr.requires_qr_iban")
                   \cup When(t.currency \notin QR_BILL_CURRENCIES,
                             "currency.qr_bill")
              ELSE {})
        \cup (IF t.type = "SCOR" /\ given
              THEN scor_failure(t.reference)
                   \cup When(qr_account, "scor.forbidden_with_qr_iban")
              ELSE {})
        \cup When(t.type = "NONE" /\ qr_account, "qr_iban.requires_qrr")

-----------------------------------------------------------------------------
\* payments.py: a whole instruction.

currencies(i) == {t.currency : t \in ToSet(i.transactions)}

control_sum(i) ==
    FoldLeft(LAMBDA sum, t : sum + t.amount.value, 0, i.transactions)

\* Every rule an instruction breaks, not the first.
swiss_failures(i) ==
    iban_failure(i.debtor)
        \cup When(Cardinality(currencies(i)) > 1, "currency.mixed")
        \cup UNION {iban_failure(t.account)
                        \cup amount_failures(t.amount, t.currency)
                        \cup (IF iban_failure(t.account) = {}
                              THEN reference_failures(t) ELSE {})
                    : t \in ToSet(i.transactions)}

-----------------------------------------------------------------------------
\* schemes.py: profiles of a connection, and the one decision.

PaymentScheme == {"normal", "instant", "instant_or_normal"}

ReferenceType == {"QRR", "SCOR", "NONE"}

\* A transfer as the parser takes it: an amount written with so many decimals is
\* a multiple of the last of them.
IsTransfer(t) ==
    /\ t.amount.places \in Int
    /\ \A p \in 0..4 :
           t.amount.places <= p => t.amount.value % (10 ^ (4 - p)) = 0
    /\ t.type \in ReferenceType
    /\ t.type = "QRR" /\ t.reference # Unset => t.reference \in Seq(0..9)

\* What the parser and the store of configurations let through: at least one
\* transfer, a scheme this service knows or none, and whole amounts.
IsInstruction(i) ==
    /\ DOMAIN i.transactions # {} /\ i.transactions \in Seq(ToSet(i.transactions))
    /\ i.scheme \in PaymentScheme \cup {Unset}
    /\ \A t \in ToSet(i.transactions) :
           /\ t.scheme \in PaymentScheme \cup {Unset} /\ t.amount.value \in Int
           /\ IsTransfer(t)

IsConfiguration(profiles) ==
    /\ profiles.default \in PaymentScheme
    /\ profiles.instant # Unset => profiles.instant.max_amount \in Int \cup {Unset}

emits_payment_type(profile) ==
    profile.service_level # Unset \/ profile.local_instrument # Unset

payment_type_summary(profile) ==
    IF emits_payment_type(profile)
    THEN [service_level |-> profile.service_level,
          local_instrument |-> profile.local_instrument]
    ELSE Unset

\* The profile an attempt is sent under: never asked for a request's scheme.
ProfileOf(profiles, scheme) ==
    IF scheme = "normal" THEN profiles.normal ELSE profiles.instant

per_transaction(i) == \E t \in ToSet(i.transactions) : t.scheme # Unset

\* The schemes a message asks for, once the defaults are filled in.
Wanted(profiles, i) ==
    LET message == IF i.scheme # Unset THEN i.scheme ELSE profiles.default
    IN  {IF t.scheme # Unset THEN t.scheme ELSE message :
             t \in ToSet(i.transactions)}

SchemeRefusals ==
    {"scheme.mixed", "scheme.unsupported", "scheme.amount_above_instant_ceiling"}

Refuses(rule) == [refused |-> rule]

Decides(requested, effective, fallback, reason) ==
    [refused |-> Unset, requested |-> requested, effective |-> effective,
     fallback |-> fallback, reason |-> reason]

_downgraded(requested, reason) ==
    Decides(requested, "normal", Unset, reason)

\* Only the first transfer is held against the ceiling.
CeilingOfTheFirst(profiles, i) ==
    profiles.instant.max_amount # Unset
        /\ i.transactions[1].amount.value > profiles.instant.max_amount

\* Some transfer is above what the instant scheme takes here.
AboveCeiling(profiles, i) ==
    profiles.instant.max_amount # Unset
        /\ \E t \in ToSet(i.transactions) :
               t.amount.value > profiles.instant.max_amount

\* `instant` is refused where it cannot be done, `instant_or_normal` sent as
\* normal; a reserve is decided on only where instant goes first.
resolve(profiles, i) ==
    LET wanted == Wanted(profiles, i)
        requested == CHOOSE scheme \in wanted : TRUE
        optional == requested = "instant_or_normal"
        origin == IF i.scheme # Unset \/ per_transaction(i)
                  THEN "requested" ELSE "connection_default"
    IN  IF Cardinality(wanted) > 1 THEN Refuses("scheme.mixed")
        ELSE IF wanted = {"normal"} THEN Decides("normal", "normal", Unset, origin)
        ELSE IF profiles.instant = Unset
        THEN IF optional
             THEN _downgraded(requested, "preflight.instant_not_configured")
             ELSE Refuses("scheme.unsupported")
        ELSE IF AboveCeiling(profiles, i)
        THEN IF optional
             THEN _downgraded(requested, "preflight.amount_above_instant_ceiling")
             ELSE Refuses("scheme.amount_above_instant_ceiling")
        ELSE Decides(requested, "instant", IF optional THEN "normal" ELSE Unset, origin)

-----------------------------------------------------------------------------
\* pain001.py: the document.

\* A whole number of minor units, halves to the even one.
format_amount(value, currency) ==
    LET unit == 10 ^ (4 - minor_units(currency))
        whole == value \div unit
        rest == value % unit
    IN  IF 2 * rest > unit \/ (2 * rest = unit /\ whole % 2 = 1)
        THEN whole + 1 ELSE whole

declares_sepa(profile) == profile.service_level = "SEPA"

\* How the debtor's bank is named.
DbtrAgt(i, profile) ==
    CASE i.debtor_bic # Unset -> "BICFI"
      [] i.debtor_bic = Unset /\ declares_sepa(profile) -> "NOTPROVIDED"
      [] OTHER -> IF swiss_iid(i.debtor) # Unset
                  THEN "ClrSysMmbId" ELSE "empty"

\* The codes the profile announces, as elements; none where it has none.
_payment_type(profile) == payment_type_summary(profile)

\* Free text or a structured reference.
_remittance(t) ==
    [Ustrd |-> t.text,
     Strd |-> IF t.type # "NONE" /\ t.reference # Unset THEN t.type ELSE Unset]

_transaction(t, profile, here) ==
    [PmtTpInf |-> IF here THEN _payment_type(profile) ELSE Unset,
     InstdAmt |-> format_amount(t.amount.value, t.currency),
     Ccy |-> t.currency,
     CdtrAcct |-> t.account,
     RmtInf |-> _remittance(t)]

\* The payment type is written on the message whoever named the scheme.
TypeOnTheMessage(i, profile, each) ==
    [DbtrAgt |-> DbtrAgt(i, profile),
     PmtTpInf |-> _payment_type(profile),
     NbOfTxs |-> Len(i.transactions),
     CtrlSum |-> format_amount(control_sum(i), i.transactions[1].currency),
     CdtTrfTxInf |-> [n \in DOMAIN i.transactions |->
                          _transaction(i.transactions[n], profile, each)]]

\* `each`: the payment type on every transfer instead of on the message.  The
\* MsgId and the time, new in every document, are kept beside it.
build(i, profile, each) ==
    [DbtrAgt |-> DbtrAgt(i, profile),
     PmtTpInf |-> IF each THEN Unset ELSE _payment_type(profile),
     NbOfTxs |-> Len(i.transactions),
     CtrlSum |-> format_amount(control_sum(i), i.transactions[1].currency),
     CdtTrfTxInf |-> [n \in DOMAIN i.transactions |->
                          _transaction(i.transactions[n], profile, each)]]
=============================================================================
