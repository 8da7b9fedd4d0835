------------------------ MODULE MCPaymentSubmission -------------------------
(* Thirteen payments and four configurations.  One request of each payment *)
(* under each configuration, then up to three requests that share keys, be *)
(* it from programs or from a page of the console.                         *)
EXTENDS PaymentSubmission

Plain == [country |-> "CH", iid |-> 781, broken |-> Unset]
QrIban == [country |-> "CH", iid |-> 31000, broken |-> Unset]
German == [country |-> "DE", iid |-> Unset, broken |-> Unset]
Mistyped == [country |-> "CH", iid |-> 31000, broken |-> "iban.checksum"]

Amount(v, p) == [value |-> v, places |-> p]

Transfer ==
    [scheme |-> Unset, amount |-> Amount(50000, 2), currency |-> "CHF",
     account |-> Plain, type |-> "NONE", reference |-> Unset, text |-> Unset]

\* A QR bill: the last digit is the check digit of the ones before it.
Digits == [n \in 1..(QRR_LENGTH - 1) |-> (3 * n) % 10]

Bill == [Transfer EXCEPT !.account = QrIban, !.type = "QRR",
                         !.reference = Append(Digits, mod10_recursive(Digits))]

Pay(scheme, transfers) ==
    [scheme |-> scheme, debtor |-> Plain, debtor_bic |-> Unset,
     transactions |-> transfers]

Each(scheme, t) == [t EXCEPT !.scheme = scheme]

MCInstruction ==
    <<Pay(Unset, <<Bill>>),
      Pay(Unset, <<Each("instant_or_normal", Transfer),
                   Each("instant_or_normal",
                        [Transfer EXCEPT !.amount = Amount(200000, 0)])>>),
      Pay("instant", <<Transfer>>),
      Pay("instant_or_normal", <<[Transfer EXCEPT !.type = "SCOR",
                                                  !.reference = "good"],
                                 [Transfer EXCEPT !.text = "rent"]>>),
      Pay("normal", <<Transfer, Each("instant", Transfer)>>),
      Pay(Unset, <<[Bill EXCEPT !.type = "SCOR", !.reference = "good"]>>),
      Pay(Unset, <<[Transfer EXCEPT !.type = "SCOR", !.reference = "good",
                                    !.text = "rent"]>>),
      Pay(Unset, <<[Transfer EXCEPT !.currency = "JPY",
                                    !.amount = Amount(55000, 1)]>>),
      [Pay("instant", <<[Transfer EXCEPT !.currency = "EUR",
                                         !.account = German]>>)
           EXCEPT !.debtor = German],
      Pay(Unset, <<Transfer, [Transfer EXCEPT !.currency = "EUR"]>>),
      Pay("instant", <<Transfer, [Transfer EXCEPT !.amount = Amount(200000, 0)]>>),
      Pay(Unset, <<[Bill EXCEPT !.account = Mistyped]>>),
      [Pay("instant_or_normal", <<Transfer, Each("instant_or_normal", Transfer)>>)
           EXCEPT !.debtor_bic = "BIC"]>>

Ordinary == [btf |-> "MCT//CH", service_level |-> Unset,
             local_instrument |-> Unset, max_amount |-> Unset]

Instant == [btf |-> "MCT/INST/CH", service_level |-> "SEPA",
            local_instrument |-> "INST", max_amount |-> 100000]

MCProfiles ==
    <<[default |-> "normal", normal |-> Ordinary, instant |-> Unset],
      [default |-> "instant_or_normal", normal |-> Ordinary,
       instant |-> Instant],
      [default |-> "instant",
       normal |-> [Ordinary EXCEPT !.service_level = "SEPA"],
       instant |-> [Instant EXCEPT !.service_level = Unset,
                                   !.max_amount = Unset]],
      [default |-> "instant_or_normal",
       normal |-> [Ordinary EXCEPT !.local_instrument = "DOM"],
       instant |-> [Instant EXCEPT !.max_amount = 50000]]>>

Quiet == [connections |-> {"a"}, keys |-> {1}, instructions |-> {},
          configs |-> {}, start |-> 1, keyed |-> FALSE, requests |-> 1,
          previews |-> 0, losses |-> 0]

\* Each payment under each configuration, posted and shown.
OneByOne ==
    {[Quiet EXCEPT !.instructions = DOMAIN MCInstruction, !.start = p]
        : p \in DOMAIN MCProfiles}
    \cup
    {[Quiet EXCEPT !.instructions = DOMAIN MCInstruction, !.start = p,
                   !.previews = 1, !.keys = {}, !.requests = 2]
        : p \in DOMAIN MCProfiles}

\* Programs that repeat a key, on two connections, beside an administrator.
Programs ==
    {[Quiet EXCEPT !.connections = {"a", "b"}, !.instructions = {1},
                   !.requests = 3],
     [Quiet EXCEPT !.keys = {1, 2}, !.instructions = {4, 6}, !.start = 2,
                   !.requests = 3],
     [Quiet EXCEPT !.instructions = {2, 3}, !.start = 2, !.requests = 3,
                   !.losses = 1],
     [Quiet EXCEPT !.instructions = {2, 3}, !.configs = {1, 2},
                   !.start = 2, !.requests = 3],
     [Quiet EXCEPT !.instructions = {3, 4}, !.start = 4, !.keyed = TRUE,
                   !.requests = 2, !.losses = 1]}

\* Pages shown and confirmed, while the connection changes.
Console ==
    {[Quiet EXCEPT !.instructions = {2, 13}, !.configs = {2, 4}, !.start = 2,
                   !.keys = {}, !.requests = 2, !.previews = 2],
     [Quiet EXCEPT !.instructions = {1}, !.configs = {1, 3}, !.start = 3,
                   !.keys = {}, !.requests = 3, !.previews = 1, !.losses = 1],
     [Quiet EXCEPT !.instructions = {3}, !.start = 3, !.keyed = TRUE,
                   !.requests = 2, !.previews = 1]}

MCSettings == OneByOne \cup Programs \cup Console
=============================================================================
