# A TLA+ model of the EBICS middleware

The middleware takes payment orders over a REST API and a console, uploads them
to banks over EBICS, downloads statements and status reports on a schedule, and
tells other systems what happened by signed webhooks.  All of its state is in
one SQL database; every process (API, upload workers, webhook dispatchers,
download workers, key-job workers) is a loop or a handler that reads rows, does
something slow outside the database, and records how it went.  This directory
models those rows, loops and handlers in TLA+, checks small instances with TLC,
and proves theorems about the model for every instance with TLAPS.

Paths below are relative to `painfree/` in the repository.

## 1. Inventory

| Component | Code | State it keeps | Operations | Talks to |
|---|---|---|---|---|
| Order queue and upload worker | `queue.py`, `worker.py` | `payment_order`: state, claim (`worker_id`, `claimed_at`), `attempts`, `scheme`, `transaction_id`, `bank_order_id`, `next_attempt_at` | claim, upload, opened, submitted, refused, retry_later, fall_back | the bank; attempts; audit log |
| Payment attempts | `attempts.py`, `schemes.py` | `payment_attempt`: one row per scheme, planned / live / superseded, return code | resolve, live, planned, promotion | order store, order queue |
| Order store | `orders.py` | the same rows | submit under an idempotency key, preview, replay | API, console, queue, audit log |
| Payment documents | `pain001.py`, `painread.py`, `sps.py` | none | the Swiss rules, the document of an attempt | order store |
| Status reports | `reconcile.py` | moves `payment_order`; stored reports | resolve, reconcile, replay of stored reports | statement store |
| Returned payments | `returns.py` | moves `payment_order`; suspicions | match, return, confirm, dismiss | statement store |
| Audit log | `audit.py` | append-only rows; with an event row, the deliveries it owes | record | webhooks |
| Webhooks | `webhooks.py`, `dispatcher.py`, `redelivery.py` | `webhook_subscription` (secrets, enabled, parked, failures), `webhook_delivery` (state, claim, attempts) | register, fan_out, claim, deliver, park, resume, pause, redeliver, resend_order, rotate_secret, delete | receivers over HTTP |
| Download schedules | `schedule.py`, `downloader.py` | `download_schedule` (claim, mark, next run), run history | claim, window, opened, finished, refetch, run now | the bank; statement store |
| Statement store | `statements.py`, `camt.py`, `pain002.py` | documents, entries, unique by content | insert, reconcile_stored | reconciler, return matcher |
| EBICS transactions | `ebics3/transaction.py`, `ebics3/responses.py` | phase, segment cursor, transaction id | feed, resume_at, next_request | the bank |
| Key jobs | `keyjobs.py`, `initialiser.py` | `key_job`: one outstanding per connection | request, claim, perform, finish | keyring, bank |
| Connections and keyring | `connections.py`, `keyring.py` | key state, subscriber keys by generation, staged and active bank keys | create, send INI/HIA, fetch HPB, confirm, decline, renew, suspend | the bank |
| Custody of secrets | `sealing.py`, `wrapping.py`, `custody.py`, `rekey.py`, `recovery.py` | sealed columns, the published wrapping key | seal, publish, rekey, survey | every sealed column |
| Access | `identity.py`, `access.py`, `access_api.py`, every handler of `api.py` and `ui/` | `connection_grant`, `oversight_grant` | reach_for, grant, revoke, issue, withdraw | API, console |
| Sign-in | `authn.py`, `accounts.py`, `oidc.py`, `tokens.py` | accounts, failure counters, `oidc_login`, `user_session`, the cached verifications and keys of a process | authenticate, count, lock, begin, callback, logout, JWKS get | API, console, the provider |
| API and console | `api.py`, `app.py`, `ui/` | none of their own | validate, ask the parts above, render | all of the above |
| Cryptography, transport, configuration | `ebics3/crypto.py` and others, `transport.py`, `config.py`, `db.py` | none | encoding, exchange, settings | all of the above |

The parts meet in four ways.  **Shared rows**: the upload worker, the operator
who replays, the status reconciler and the return matcher all write
`payment_order`.  **Calls**: the store of statements calls the reconciler and
the matcher, each in a transaction of its own; every handler asks the access
rules before it answers.  **The audit log** turns a recorded event into one
delivery per live subscription, in the transaction of the audit row.
**Messages**: the bank, the identity provider and the webhook receivers are
outside, answer anything, and may be lost before or after they acted.

What is hard here, and hard to test: two loops on one table; a slow step
between two transactions, with a lease that may run out during it; a settlement
spread over several transactions; an answer that is lost after the other side
acted; a second message for an order (the fallback from instant to normal) that
must never join the first; the order in which one receiver sees events; a
subscription parked, paused or resumed while something is in flight; reports
that arrive in another order than they were written; keys compared in one read
and trusted from another; rights, passwords, sessions and signing keys that
change under a request that has read them.  `PROJECT.json` lists each of these
as a hazard at the line where it bites.

What makes each component correct:

* *order queue*: one uploader per order; at most one message of an order at the
  bank unless an operator asked for it; every accepted order settles;
* *attempts*: exactly one live attempt, the one the order carries; a return code
  stands on the attempt that provoked it;
* *submission*: a key stands for one payment, an order goes as it was asked for
  and as it was shown, and what goes can be paid;
* *reconciliation*: a report never takes an order away from an uploading worker,
  a refusal overturns only an acknowledgement older than itself, and re-reading
  what is stored repairs whatever was lost;
* *webhooks*: every event recorded for a live subscription is delivered, failed
  after its tries, or waits parked; per subscription in order, one at a time;
* *schedules*: consecutive windows leave no day out, one run at a time, a
  receipt only for what is stored;
* *transfers*: done means the other side has all of it, in order, once;
* *key jobs*: one job per connection, which ends; keys used are keys compared;
* *custody*: whatever stops half way, every seal can be opened with a secret that
  is deployed, and an endpoint verifies what it is sent;
* *access*: nothing is done or shown that no grant held during the request
  allows, and a connection that is not held cannot be told from none;
* *sign-in*: only a credential in force lets in, guesses are bounded, who
  signed out is out.

## 2. Modules

| Module | Models |
|---|---|
| `PaymentLifecycle` | abstract: the states of an order and the messages the bank has |
| `OrderQueue` | `queue.py`, `worker.py`, `attempts.py`, the replay of `orders.py`, the moves of `reconcile.py` and `returns.py` |
| `SubmissionBook` | abstract: what an idempotency key promises |
| `PaymentRules` | pure: `schemes.resolve`, the rules of `sps.py`, the document of `pain001.py` |
| `PaymentSubmission` | `orders.py` submit and preview, with their handlers; extends `PaymentRules` |
| `BankVerdict` | abstract: which word of the bank may move an order |
| `StatusReports` | `statements.py`, `reconcile.py`, `returns.py` |
| `EventDelivery` | abstract: what an endpoint is promised about the events it is owed |
| `WebhookDelivery` | `dispatcher.py`, `redelivery.py`, the subscriptions and `fan_out` of `webhooks.py`, `AuditLog.record` |
| `DownloadSchedule` | `schedule.py`, `downloader.py`, the insert of `statements.py` |
| `SegmentTransfer` | abstract: a payload that arrives segment by segment |
| `EbicsTransaction` | `ebics3/transaction.py`, `ebics3/responses.py`, `ebics3/returncodes.py` and the loops that drive them |
| `KeyLifecycle` | abstract: how far a connection may get, and what it takes to trust keys |
| `KeyManagement` | `keyjobs.py`, `initialiser.py`, `keyring.py`, `connections.py` |
| `Identity` | pure: the principal of `identity.py` and what it may do |
| `Doors` | pure: for every handler of the API and the console, what it asks, in which order |
| `AccessControl` | `access.py`, `authn.py` (the reads), `access_api.py`; extends `Doors` |
| `SecretCustody` | `rekey.py`, `wrapping.py`, `sealing.py`; the signing secrets of `webhooks.py` |
| `PasswordAccounts`, `SigningKeys` | `accounts.py` with the throttle of `authn.py`; `tokens.py` |
| `SignIn` | `authn.py`, `oidc.py`; extends the two |
| `MC...` | constants for TLC, and the claims the code does not keep |
| `OrderQueue_proofs`, `WebhookDelivery_proofs`, `StatementStore_proofs` (of `DownloadSchedule` and of `StatusReports`), `EbicsTransaction_proofs`, `KeyManagement_proofs`, `SecretCustody_proofs`, `SignIn_proofs` (of `SignIn` and of `AccessControl`), `PaymentSubmission_proofs` | theorems |

The modules compose by what one leaves open and another fills: an upload is two
exchanges in `OrderQueue` and a segment loop in `EbicsTransaction`; a report is
one action in `OrderQueue` and its reading in `StatusReports`, where an upload
is its outcome; the audit row that ends a step everywhere is `AuditLog.record`
of `WebhookDelivery`; the order `PaymentSubmission` inserts is the `accepted`
order `OrderQueue` starts from; `AccessControl` decides for a caller whom
`SignIn` has let in.

### OrderQueue

`order[o]` is the row, `attempt[o][scheme]` its attempt rows (`absent` is no
row).  Time is reduced to what the code compares: `claim` is `none`, `held` or
`expired` (`claimed_at` against `CLAIM_LEASE`), `waits` is `next_attempt_at` in
the future.  A worker's `pc` says which of its exchanges or transactions comes
next, and its record holds what it read earlier and still uses: `tries`
(`ClaimedOrder.attempts`), `scheme` (`ClaimedOrder.order.scheme`), `sends` (the
live attempt, read in a transaction after the claim) and the bank's `answer`.

| Action | Code |
|---|---|
| `Claim`, `Claimable` | `OrderQueue.claim`, `_candidate` |
| `ReadAttempt`, `Announce`, `Opened`, `SendAll`, `BankRefuses`, `Fails` | `UploadWorker._upload`, `_exchange`, `OrderQueue.opened` |
| `Submitted`, `Refused`, `RetryLater`, `GiveUp` | the methods of the same names, `_settle`, `_update` |
| `FallBack` | `fall_back`: five conditions, the row and two attempts in one transaction |
| `RecordAnswer`, `RecordEvent` | the second and third transaction of `_settle` |
| `CheckReplay`, `Replay`, `RecordReplay` | the three transactions of `OrderStore.replay` |
| `StatusReport`, `ReturnBooked`, `RecordMove` | `StatusReconciler._move`, `ReturnMatcher._return` and the audit row after each |
| `WorkerLost`, `ReaderLost` | the process dies, or a write of an outcome raises |
| `LeaseExpires`, `BackoffEnds` | time |

The bank keeps one file per message (`MsgId`), may take the last segment and
lose the answer, and may refuse either exchange with any code.  `said` and
`replays` are history variables read by properties only; `crashes` and
`replays` are bounded by `MaxCrashes` and `MaxReplays` in the guards.

### WebhookDelivery

`sub[s]` is the row of a subscription, `delivery[s][e]` the row it has for an
event (`absent` is no row), `written` the last value of `webhook_delivery.seq`.
Events are numbered in the order of `audit_log.seq`; they are all about one
order and every subscription wants all of them, which is the hard case for the
order of delivery.  A dispatcher's record holds what it claimed and the attempts
it read then; an operator's holds what was read before the write that follows.

| Action | Code |
|---|---|
| `RecordBegins`, `RecordCommits`, `RecordFails` | `AuditLog.record` and `fan_out`: one transaction, split where another may commit between its read of the live subscriptions and its commit; it fails if one of them was deleted (foreign key) |
| `Claim`, `Claimable`, `Overtaking`, `Due` | `WebhookDispatcher.claim`, `_candidate` |
| `Sign`, `Post` | `_deliver`, `post`: the endpoint answers anything |
| `Delivered`, `RetryLater`, `GiveUp` | the settlement by `delivery_id` alone, first transaction |
| `SubscriptionSucceeded`, `SubscriptionFailed` | the count on the subscription and the parking, second transaction |
| `DispatcherLost` | the process dies, or an exception that `run_forever` swallows |
| `Register`, `SetEnabled`, `Resume`, `Delete` | the methods of `WebhookSubscriptions` |
| `Redeliver` / `RedeliverWrites`, `ResendOrder` / `ResendWrites`, `Ping` / `PingWrites` | `Redelivery.redeliver`, `resend_order`, `enqueue_ping`: the read, then the transaction that writes |
| `LeaseExpires`, `BackoffEnds` | time |

`EventDelivery` has no claims, leases, dispatchers or parking: an event is owed,
owed again, delivered or given up, and may be received only when nothing owed
before it still is.  `got` is the endpoint's own record; `again` is a history
variable that the promise and `InOrder` need to except what somebody sent again.

### DownloadSchedule

`schedule` is the one row (schedules share nothing but the workers): `claim` as
above, `due` for `due_at` in the past, `mark` for `fetched_through`, `dated` for
a schedule that has `window_days` and so asks for a `DateRange`.  A worker's
record is its `ClaimedSchedule`, with the window computed at the claim, and what
the bank served it.  `stored` is the statement table; `acked` is what the bank
took a receipt for; `answered` is the days of the windows of finished runs in
the ledger.  `closed` is history: of those, the days that were over by then.

| Action | Code |
|---|---|
| `Claim`, `Claimable`, `Start` | `DownloadSchedules.claim`, `_candidate`, `Schedule.window` |
| `OpenRun` | `_open_run`, a transaction after the claim; the foreign key fails it when the schedule is gone |
| `Ask`, `Serves` | the exchanges of `DownloadWorker._download` up to the data, or the bank's word that it has none |
| `Store` | `StatementStore.ingest`: one transaction per document |
| `Receipt` | the receipt, whose answer may be anything |
| `Fails` | `DownloadWorker._run`: a refusal, an error of the transport, or one of storing |
| `Finish`, `MovedOn` | `DownloadSchedules.finished`, which names the schedule by its id alone |
| `RunNow` / `Refetch`, then `Write` | `run_now`, `refetch`: `_claimable` reads, `_write` writes |
| `SetEnabled`, `Delete` | the methods of the same names |
| `WorkerLost` | the process dies, or an exception that `run_forever` swallows |
| `LeaseExpires`, `BecomesDue`, `NextDay` | time |
| `Publish`, `Serves` | the bank: a `DateRange` names days, and without one it serves what has no receipt |

A document in `Unreadable` is one `ingest` counts and passes over.  The bounds
are in the guards: `LastDay`, `MaxFailures`, `MaxOperations`, `MaxCrashes`.
Left out: a change of `window_days`, `update`s that reset nothing, and the
cadence, which only decides when `BecomesDue` happens.

### PaymentSubmission

A request is a record that remembers the connection and configuration it read
when it arrived, the decision and the attempts it built from them, and the step
it is at.  Payments and configurations are numbers; `Instruction` and `Profiles`
say what they are.  `PaymentRules` is pure: the QR check digit is computed with
the table of `sps.py`, an amount is a number of ten-thousandths (no currency has a
smaller unit) with the places it was written with, and the document of an attempt
is a record of the elements the rules and the scheme decide.

| Action | Code |
|---|---|
| `submit_payment` | the API handler: reads the connection, `OrderStore.submit` up to the first look-up; builds and checks in memory |
| `preview` | `OrderStore.preview` behind the console form: what the page shows, and the key it carries |
| `send_payment` | the button of that page |
| `Finds` | the look-up of the key: another payment under it is a conflict, the same one a replay |
| `_reject`, `_insert`, `Announces`, `FindsWinner`, `_replay` | the transactions that follow: the audit row of a refusal, the insert that the unique constraint decides, its audit row, the read of the order that won, the audit row of a replay |
| `update`, `KeyStateChanges` | an administrator stores another configuration; the key state comes and goes |
| `Lost` | the process, or the caller, is lost between any two steps |

`SubmissionBook` has no rows, reads or races: a slot is free or stands for one
payment, and an answer is about the payment that was asked for.

What may stand in an instruction or a configuration is said once
(`IsInstruction`, `IsTransfer`, `IsConfiguration` in `PaymentRules`: at least one
transaction, the schemes and reference types of the enumerations, and an amount
that is a multiple of its last decimal place, as the request schema and a
`Decimal` have it), and is what the theorems assume of the constants.

### StatusReports

Documents are what they say: `Says[d]` is a report with its three levels, or a
booking with the message it names or a reference.  `fate` is the bank's side;
`reader[r]` is a download or a re-reading half way through the steps of one
document, with what it read before; `person[p]` holds what the page of a
suspicion showed.  Uploads are their outcomes.  `BankVerdict` is what an order is
promised: its state, the bank's word and its date, and whether it was replayed,
without documents or readers.

| Action | Code |
|---|---|
| `StoreStatement`, `Announce` | `StatementStore.ingest`: the insert, its audit row, what is applied next |
| `ReadReport`, `Move`, `Ignore`, `RecordMove` | `StatusReconciler.reconcile`, `_revocable` (a read of its own), `_move`, the audit row |
| `ReadBooking`, `Return` | `ReturnMatcher.match`, `_order_for`, `_return` |
| `ReadCredit`, `Suspect`, `RecordSuspicion` | `_suspect`, `_raise`, the audit row |
| `ReadConfirm`, `Confirm`, `Dismiss` | `confirm` as its read and its write, `dismiss` |
| `Reread` | `reconcile_stored`: everything stored, in the order of the bank |
| `ClaimOrder`, `Submit`, `RetryLater`, `Refuse`, `FallBack`, `Replay` | the outcomes of `OrderQueue` |
| `LosesApplication` | a step raises or the process is lost; the exception is swallowed |

`resolve` is `Resolve`, `Unanimous` and `Agrees`, over levels that are absent,
agree, or do not.  `calm` is history: an undisturbed re-reading ran.

### EbicsTransaction

`tx` is the engine, one record for both directions; `line` is what is under
way, one request or one answer; `bank` is the other side, which keeps to the
protocol and may refuse, announce fewer segments, or fall back to any earlier
recovery point.  Order data is a sequence of numbers, so that splitting and
concatenation are what the code does, not a count of segments.

| Action | Code |
|---|---|
| `Open`, `Ask` | `initialisation_request`, `next_request` |
| `Feed` | `_Transaction.feed`: the transaction id, recovery (`resume_at`) before anything else, what the two codes decide, `_advance` |
| `UploadOver`, `Store`, `DownloadOver` | `UploadWorker._upload`, `DownloadWorker._download`, and the same loops of `initialiser.py` |
| `Lost` | the exchange raises: no retry (`transport.py`) |
| `BankRefuses`, `BankOpens`, `BankTransfers`, `BankTakesReceipt`, `BankFallsBack` | the bank |

### KeyManagement

One connection: `connection` is its row, `keyring` a set of `key_material`
rows, `job[j]` the jobs by `seq`.  A worker's `todo` is the writes a method
still has to make, each a transaction of its own; `next` is what follows them.
A fingerprint is the key it belongs to, a letter a pair of keys.  `compared` is
history: the pairs somebody read off a letter.

| Action | Code |
|---|---|
| `Ask`, `Enqueue` | `KeyJobStore.request`: what is outstanding is read, then the row is inserted |
| `Claim`, `Settle` | `claim`, `_candidate` with its ceiling; `_settle`, by the job's id alone |
| `CreateKeys`, `RenewKey`, `SuspendKeys`, `FetchCatalogue`, `ConfirmBankKeys`, `DeclineBankKeys`, `NotAvailable` | the actions of `KeyWorker._perform` and the methods of `KeyCustodian` behind them |
| `Register`, `FetchHPB`, `RegistrationSent`, `HPBAnswered`, `Stage` | the exchanges, with the answer that may be lost after the bank acted, and what is staged |
| `WriteRow`, `WritesDone`, `WriteFails`, `SaveProgress` | one transaction each |
| `WorkerLost`, `LeaseExpires` | the process dies; time |

### AccessControl

`Doors` is a table: every handler of `/v1` and of the console is a record of
the checks it makes, in the order in which it makes them, and of what it then
does; the doors of one group share a definition.  `Identity` is the principal
and its rules.  In `AccessControl` a request arrives, is authenticated, reads
the grants and the oversight flag in two selects, and is answered with the
principal it has built.  Properties quantify over every door and every target,
so a request is one state per principal rather than one per door.

| Action | Code |
|---|---|
| `Arrive`, `ReadGrants`, `ReadOversight` | `Authenticator` resolves the caller, `Grants.reach_for`: two selects |
| `ServeRequest`, `ServeChange`, `CheckHeld`, `Finish` | the handler; `Reply` in `Doors` is its answer |
| `GrantReads`, `GrantInserts`, `GrantKeepsLevel`, `GrantUpdates`, `GrantRecords`, `GrantReturns` | `Grants.grant`: read, write, audit row, read again |
| `RevokeReads`, `RevokeDeletes`, `RevokeRecords`; `IssueReads`, `IssueInserts`, `IssueRecords`, `WithdrawDeletes` | `revoke`; the oversight grant |
| `Lose` | a process is lost within a change |

### SignIn

`PasswordAccounts` has the accounts, the two failure counters and what each
process remembers of verifications; `SigningKeys` the provider's published keys
and what each process fetched; `SignIn` the browsers with their cookies, the
rows of `oidc_login` and `user_session`, and the doors a request may knock at.
A request carries the cookies its browser held when it was sent; those of its
answer are the browser's when it arrives, so two tabs interleave.

| Action | Code |
|---|---|
| `Knock`, `ReadAccount`, `Verify`, `ClearFailures`, `Upgrade`, `CountReads`, `CountWrites` | `Authenticator` and `Accounts.authenticate`: the lock, the row, the hash, then the transactions of a success or of a failure |
| `CreateAccount`, `SetPassword`, `Suspend`, `DeleteAccount`, `ClearLockout`, `PurgeLockouts` | the administration of accounts |
| `FromBasic`, `FromSession`, `FromBearer`, `SignInForm`, `LoginPage` | the three credentials, the sign-in page |
| `LoginBegins`, `ProviderAnswers`, `CallbackArrives`, `ClaimLogin`, `ExchangeCode`, `VerifyIdToken`, `EstablishSession`, `Logout` | `oidc.py`: the login, its callback, the session and its end |
| `GetKey`, `Publish`, `Withdraw` | `JwksCache.get`; the provider rotates its keys |
| `Forgets`, `Ticks` | a process restarts; time |

### SecretCustody

A custody secret is its number, a seal names the one it was made under, and a
signing secret is the number it was issued with.  `key[k]` and `sub[s]` are the
sealed columns of `key_material` and `webhook_subscription`; `published` is
`webhook_wrapping_key` by `seq`.  `running` is the secret each worker was
started with, `deployed` the settings a process is given now.  A handler's
record holds the public half it took before it writes; `run` holds the rows
rekey has read and not yet come to.

| Action | Code |
|---|---|
| `Restart`, `StoreKey` | the start of a worker, which publishes; `KeyCustodian._write` |
| `RegisterReads`, `RegisterInserts` | `WebhookSubscriptions.register` |
| `RotateReads`, `TakesRecipient`, `RotateWrites` | `rotate_secret`: two reads and a transaction |
| `RetireReads`, `RetireWrites` | `retire_previous_secret` |
| `RekeyStarts`, `RekeyKey`, `RekeyReadsSubscriptions`, `RekeySubscription`, `RekeyPublishes`, `RekeyReports` | `rekey`: the rows are read once per table, each is then a transaction of its own |
| `HandlerLost`, `RekeyLost` | a process is lost between any two steps |
| `Deploy`, `DropPrevious` | the operator sets both secrets, and takes the old one away after `rekey` and `custody-status` agree |
| `Configure` | the owner of an endpoint |

Signing secrets are one module with custody secrets because `rekey` and
`rotate_secret` write the same two columns.  `contended` is history: the
subscriptions that two writers were under way on at once; `calm` says that a
run was alone.

## 3. Runs

| Run | Question | Instance |
|---|---|---|
| `queue_replays` | exclusion, the single message, the attempt rows, the lifecycle, with an operator who replays once | 1 order, 2 workers, 1 operator, 2 tries |
| `queue_crashes` | answers stand on their attempt, events, every order settles, with two processes lost anywhere | 1 order, 2 workers, 2 tries, 2 crashes |
| `submissions` | a key is one payment, an order is what was asked for and shown, what goes can be paid | 13 payments under 4 configurations, up to 3 requests, 2 pages, 1 loss |
| `status_reports` | the bank's word moves an order only as it may; a re-reading repairs | 1 order of two messages, 9 documents three at a time, 1 download, 1 re-reading, 1 person, 1 loss |
| `webhooks` | order, counts, the promise to an endpoint, and that what is recorded is served | 1 subscription, 2 dispatchers, 2 events, 2 operations, 1 crash |
| `downloads` | windows leave no day out; mark, storing and receipt keep their order; one run at a time; what is to fetch is fetched | 2 workers, 2 documents, 4 days, 1 operation, 1 failure, 1 crash |
| `transfers` | done is delivered; a transfer ends | payloads of none to eight characters, segments of two, 3 set-backs |
| `key_jobs` | one job; trusted keys were compared; the progress is the bank's; jobs end | 2 workers, 4 jobs, 3 pairs of bank keys, 1 fault |
| `custody` | nothing is stranded by a rotation that stops anywhere; endpoints go on verifying | 1 key, 2 subscriptions, 1 worker, 2 handlers, 3 custody secrets, 4 signing secrets, 2 runs of rekey, 1 loss |
| `access` | rights over every door while they change | 2 connections, 2 callers, 2 changes, 1 loss |
| `sign_in` | credentials in force, guesses, signing out, one answer to a login, signing keys | 2 callers in two processes, seven deployments |
| `revoked_settlement` | (refuted) a refusal after money was under way is ignored | 1 order, 3 reports |

Bounds.  **Queue.**  The rows of different orders share nothing but the workers
(`Claim` takes the oldest claimable row), so one order and two workers give
every race on a row.  Two tries give a first and a last one, which is all that
`MAX_ATTEMPTS` distinguishes.  Two codes give each branch of a refusal: `in` is
final and on the whitelist, `later` is retryable.  Replays and crashes are two
runs because together they multiply to more states than are useful; the
theorems have both at once.

**Submissions.**  Each payment is there for one rule or one branch of
`schemes.resolve`, alone under each configuration, posted and shown; then
eight settings let up to three requests share one or two keys, or the button of
a page be pressed twice, beside an administrator, a key state that comes and
goes, and one lost process.  References have six digits rather than 27: the
check digit is carried from each to the next in the same way, and every single
digit replaced is tried.

**Status reports.**  Of the nine documents one checks the file by what its
transfers say, one refuses it later, one checks the second message, one decides
nothing and has no date, one names somebody else's message; one returns the
whole payment by its message, one a part of it by its reference, and two credits
only look like its return.  The documents of a session of three arrive in any
order; with a replay and a fallback between them, three are enough for a stale
read, a late one and the one that makes the difference.

**Webhooks.**  Subscriptions share nothing but the dispatchers and `written`, so
one with two dispatchers gives every race on its queue; of two events one is in
flight and one behind it, recorded, or sent again meanwhile.  `ParkAfter` is 2,
so that one failure is counted without parking.

**Downloads.**  The schedule starts with a window of one day behind it, so four
days are three to run on: one that is answered for, one on which everything
fails, and one on which the run must go back for it.  One of the two documents
is unreadable.

**Transfers.**  Eight characters in segments of two give none to four segments,
with a short last one; a third set-back can meet a cursor that two have moved.

**Keys.**  Four jobs are what it takes from fetched keys to keys fetched again
between a comparison and its use.  The pairs share their first key, their
second, or nothing, so a half-compared pair is told from a compared one.
`Managed` is one version, since versions are renewed alike.

**Custody.**  A second subscription lets a run stop between two rows and gives
one row a mixture while the other has none; two replacements of the secret with
a run each let the second find what the first passed by.  Of four signing
secrets two are issued on the way, which is a rotation that ends and one after
it.  `Careful` is an operator who restarts the workers before dropping the old
secret, and waits for requests that took its public half.

**Access.**  One caller holds grants through any of three credentials, one of
them narrowed by a token, one an administrator's; the other administers.  The
connections are interchangeable, and the one that is not held is compared with
`Missing`.

**Sign-in.**  Two callers in two processes give every race on a counter and on
what a process remembers.  Thresholds are two and three, so that the name's
counter and the source's trip at different guesses; the seven deployments each
bound what the others are about.

Everywhere, one operation, one failure and one crash, each at any moment,
already meet each other.  The bounds stand in the guards (`MaxCrashes`,
`MaxReplays`, `MaxOperations`, `MaxFaults`, `MaxSetBacks`, `MaxLost`, ...).

Fairness.  `run_forever` polls for as long as its process lives, so `Claim` and
a worker's next step are weakly fair, each as one action: which step it takes is
the bank's choice.  Time passes, so `LeaseExpires` and `BackoffEnds` are.  A
handler that has begun goes on (`Replay`, `RecordReplay`, `RecordMove`,
`Enqueue`).  In the webhooks the same holds of `Claim` and `Delivers`, and of
time; a recording may fail, and the promise starts when it has committed.  In
the downloads it holds of `Claim` and `Works`, of `LeaseExpires` and of
`BecomesDue`, since `_next_due` is always a time that comes; with the key jobs,
of `Claims` and `Works`.  A transfer is driven by one loop that does nothing
else (`Drives`), and its exchange is answered or fails, for `transport.py` has
a timeout (`BankActs \/ Lost`).  Banks, providers, endpoints, operators and
crashes owe nothing.  `CHECK_DEADLOCK FALSE`: a service with nothing to do
rests; only `access`, where a caller always may knock again, is checked for
deadlock.

## 4. Theorems

`OrderQueue_proofs` proves, for any finite set of orders and any sets of
workers, operators and codes:

* `TypeCorrect`: `Spec => []TypeOK`;
* `LiveAttempt`: `Spec => []LiveAttemptIsTheOrders`;
* `Exclusion`: `Spec => []OneUploader`.

`Exclusion` has two hypotheses, which are what the claim protocol rests on and
the code does not enforce: `LeaseOutlivesUpload` (an upload is over before
`CLAIM_LEASE` is; section 5 says what happens otherwise) and a single
operator (`OrderStore.replay` checks and writes in two transactions).  The
inductive invariant is `Shape` (types, what a process has in hand, the live
attempt) with `ClaimIsOurs` (whoever believes to hold an order does, with a
lease that has not run out) and `CheckStands` (an operator who saw a
replayable order still sees one).  `OneUploader` alone is not inductive: it
does not say that the row of a held order cannot be claimed.  The effect of
each group of actions on the rows is a lemma (`ClaimEffect`, `SettleEffect`,
...), so that each invariant is argued from effects and not from records.

It goes on from there, under the same two hypotheses, with what the bank has of
an order:

* `OneMessage`: `Spec => []OneMessageUnlessReplayed`;
* `KeepsLifecycle`: `Spec => ImplementsLifecycle`, so that what a client reads of
  an order and what the bank has of it only ever change as `PaymentLifecycle`
  says.

`OneMessageUnlessReplayed` is not inductive: that the bank has one message says
nothing of the one a worker is about to send.  The invariant is `Msgs`, the
exclusion above with `SendsTheOrders` (a worker sends the message of the order
it holds, after the TransactionID was persisted) and `BankHasTheOrders` (what
the bank has of an order nobody replayed is the order's own message, and the
row has its TransactionID).  The argument is in `RowEffect`: only a replay and a
fallback turn a row to another message, the one of an order that nobody
uploads, the other of an order without a TransactionID, of which the bank
therefore has nothing.  The refinement has a lemma per kind of step: the last
segment (`SendMaps`), what ends an upload (`EndMaps`), reports and returns
(`ReadMaps`), the claim, which is a step of the lifecycle or, over an expired
lease, none (`ClaimMaps`), and the replay (`ReplayMaps`).

The two transactions after a settlement are argued last:

* `NoSilentSettlement`: `Spec => []EventUnlessLost`, with no hypotheses.  It is
  inductive on `Shape`: whoever moves a row into a settled state holds its event
  from that step on (`Owes`), and only writes it or is lost (`ToldNext`);
* `AnswerStaysWithItsMessage`: `Spec => []AnswerOnItsAttempt`, under the two
  hypotheses.  The code goes on whichever attempt is live by the time it is
  written.  That this is the attempt that was sent needs `AnswerInHand`: the
  answer a worker holds is one the bank gave about the message the order still
  carries, and after the settlement the order stays settled, so that no fallback
  can turn it to another message, until a replay (`StaysSettled`, which is read
  off the refinement above).

`WebhookDelivery_proofs` proves, for any finite set of subscriptions, any number
of events and any sets of dispatchers and operators:

* `ShapeHolds`: types, and that whatever is under way is about a subscription
  and an event there are;
* `ParkedTogetherHolds`: `Spec => []ParkedTogether`, with leases of any length;
* `DeliveryInvHolds`, `InOrderHolds`: `Spec => []DeliveryInv` and `[]InOrder`
  when no exchange outlives its lease (`LeaseOutlivesPost`);
* `ImplementsPromiseHolds`: `Spec => Promise!Spec`, under the same hypothesis;
* `CountedOnceHolds`: `Spec => []CountedOnce`, under the same hypothesis.  It is
  needed: two dispatchers that both hold a row both count it when they give up.

`InOrder` is not inductive.  It needs that what is parked counts as being in the
queue (`Ordered`: it comes back to its old place), that no parked row belongs to
a subscription a dispatcher may claim from (`ParkedTogether`), that inserted
rows go behind every row there is (`SeqsGrow`) and do not overwrite one
(`Unwritten`), and that a settlement finds the row as it was claimed
(`ClaimStands`: a late one would put a delivered event back in the queue, ahead
of one in flight).  Rather than argue five invariants over twenty-one actions,
the proof says once what any step may do to a row (`RowsStep`: it stays,
appears behind the queue, is settled by its owner, taken, set aside, returned,
repeated, or deleted), shows that every action stays within that (`NextGood`),
and proves each invariant from `RowsStep` alone.

The refinement needs three invariants more (`PromiseInv`): a row that was
written has a place in the queue, what was sent again had been written, and an
endpoint that a dispatcher saw accept has received the event.  Each step is then
compared with the promise by what it does to the status of a row and to what is
owed ahead of it; most keep both (`KeptMaps`).

`CountedOnce` is a difference of two cardinalities, and as that it is not
inductive: a success, a crash or an operator anywhere makes its premise false
for good.  `CountInv` says, while there was none (`Calm`), that a count is the
number of the rows that were given up *less those some dispatcher is about to
count* (`Counted`, a difference of sets), that no two dispatchers are about to
count the same row (`OneTells`), and that the row they are about to count was
given up (`Told`).  `SameLedger` collects the steps that touch none of this;
giving up (`GiveUpCounts`) puts a row and its pending count in together, and
counting (`FailedCounts`) takes the pending one out and adds one to the counter.

`StatementStore_proofs` proves of `DownloadSchedule`, for any documents, workers,
operators and number of days:

* `StorageHolds`, `AckedIsStoredHolds`, `AnsweredIsStoredHolds`: nothing is
  acknowledged before it is stored, and the documents of a day that was over
  when the bank answered for it are stored.  No hypotheses: a lease may run out
  at any time, two workers may download one schedule, and operators may ask for
  any days.  What makes it inductive is that a document served to a worker is
  stored or still in its `todo` (`StoredFirst`), and that an answer holds every
  document of the days of its window that are over (`AnswerStands`), which needs
  that no window ends after today (`WindowShape`): today's documents may still
  be published, those of earlier days may not;
* `DownloadInvHolds`, `NoGapHolds`, `OneDownloadHolds`: one run at a time, and a
  mark that never passes a day the bank did not answer for.  These need
  `LeaseOutlivesDownload` (a late `finished` releases the claim of the run that
  took over and moves the mark to its own window) and `RefetchBehindMark`
  (`refetch` does not look at the mark, and skips the days between it and a
  later `since`).  The code enforces neither.  `NoGap` is not inductive: the mark
  becomes the end of a window, so that window must have started where the answers
  end (`WindowStands`), from the claim to `finished`, while an operator may
  rewind the mark underneath it.

And of `StatusReports`, for any orders, readers, re-readings, people and
documents (at least one document, and each one what a parsed document can be):

* `ImplementsVerdictHolds`: `StatusSpec => ImplementsVerdict`, without further
  hypotheses.  A refusal is decided in one transaction and written in another.
  What holds in between is `Standing`: the acknowledgement it read is there still,
  earlier than the refusal, or the order was rejected or returned, or it was
  replayed at some time.  The last is why `BankVerdict` lets a refusal overturn
  anything acknowledged once an order was replayed (section 5).  `OneWord` says
  what a step may do to the words of all orders, and from it follow both that
  `Standing` stays and that the step is one of `BankVerdict`;
* `ConfirmedIsSuspectedHolds`, for one person who confirms what is open
  (`ConfirmsOpen`, which the page offers and `confirm` does not ask).  With two
  people TLC finds that one dismisses the suspicion the other is confirming and a
  reader raises the next one before the write.  The invariant is that the order of
  a confirmation stays suspected of the booking that was read: a suspicion that is
  open is not raised anew (`Fresh`);
* `RereadSettlesHolds`, when no two orders share what a transfer is recognised by
  (`DistinctReferences`; the code relies on it, and passes over what is ambiguous).
  With two orders of one reference TLC finds that a booking that could be of either
  is passed over, and is of one alone after a later document settles the other.
  The invariant is `Settling`: no order is being uploaded (`Quiet`), every stored
  document that would still do something is still to be read or being read, and
  what the reader knows of the one it reads is still so (`Through`).  That what has
  nothing more to say goes on having nothing to say (`UnwantedStays`) is where the
  order of the states, and the comparison of dates, come in;
* `StatusTypeOKHolds`, the type invariant, with what a reader knows when it writes
  (`Sound`).

`SecretCustody_proofs` proves, for any rows, workers, handlers and bounds and
any number of custody secrets:

* `CustodyHolds`: `Spec => []NothingStranded`, with a `Careful` operator (one who
  has restarted the workers, and waits for requests under way, before the old
  secret goes; `rekey` and `custody-status` do not look at either);
* `EndpointVerifiesHolds`: `Spec => []EndpointVerifies`, under any operator.

`NothingStranded` has two halves, and neither is inductive.  That every seal is
under a deployed secret needs that whatever may still make one is (`Deployed`:
the workers, what handlers hold), that the newest public half is too, and is that
of the current secret once that was published at all (`Offered`), and that a run
works with the two secrets that are deployed (`RunOK`; none is under way when
there is no old one).  What a run leaves behind follows from what it has left to
do while it is alone (`Undisturbed`): rows it has not come to are as it read
them, and all others are done.

`EndpointVerifies` is not inductive because three kinds of writer decide on what
they read in an earlier transaction.  The invariant `VerifyInv` says of a
subscription that is not contended: it has one writer (`OneWriter`, from the
count that `contended` takes, which needs finitely many handlers); what that
writer read still stands (`AsRead`: a run has the row as it is, a handler about
to rotate still finds no rotation open, one about to retire still finds the
endpoint on the newer secret); and the endpoint has one of the two secrets that
sign, neither of them retired (`Verified`).  Of all subscriptions it says that a
signing secret is issued once, to one of them, what a run will write back
included (`IssuedOnce`); without that, the secret one subscription retires could
be the secret of another.  `CustodyAssumption` says that rows are numbered from
one, and that handlers are finitely many and none of them is the run.

`KeyManagement_proofs` proves, for any keys, pairs, jobs, workers and bounds:

* `TypeInvHolds`: types, a finite keyring, and what the plan of a worker may
  hold.  No hypotheses;
* `OneJobHolds`: `Spec => []OneJob`;
* `TrustedWasComparedHolds`, `ProgressIsTrueHolds`: the pair in use was read off
  a letter, and what the connection claims the bank has;
* `ImplementsLifecycleHolds`: `Spec => ImplementsLifecycle`.

All but the first rest on `LeaseOutlivesJob` (a settlement names the job by its
id alone, `keyjobs.py`) and `SingleConsole` (`request` reads what is outstanding
in one transaction and inserts in another, so two handlers may both find nothing
and both insert).  The code enforces neither.

`OneJob` is not inductive: a handler between its read and its insert must still
find nothing outstanding, and a busy worker must hold the claim of its job, which
must be running, or the job could be claimed beside it (`JobsStand`).  What a
worker does about its job is many actions but one effect, which `WorksEffect`
states once: until it settles, it stays busy with the same job.

`TrustedWasCompared` looks at two rows that two transactions brought into use,
between which a worker may be lost and another begin.  Its invariant `KeysInv`
says what each plan of writes will do, from any point of it: a plan about our
keys or about keys fetched brings nothing of the bank's into use, and adds rows
only after it has set aside what waited (`Orderly`); one that confirms first
retires the pair in use while the pair that was compared waits (`Retiring`), and
then there is nothing but that pair, waiting or in use (`Trusting`).  At every
moment the active rows are therefore part of one compared pair (`RowsStand`).
That a worker goes on from the connection as it still is (`Follows`) is where
one job at a time is needed, and gives the progress (`ProgressStands`).  What a
write does to the rows is a lemma per kind of write (`OwnWritten`,
`AsideWritten`, `AddWritten`, `RetireWritten`, `TrustWritten`), what it leaves of
the plan one per kind of plan, and what becomes of the worker one per action.

`EbicsTransaction_proofs` proves, for any payloads, segment length, number of
recoveries and choice of the bank:

* `TransferInvHolds`, `DoneIsDeliveredHolds`: a transfer that says it is done is
  delivered, whole and in order;
* `ImplementsTransferHolds`: `Spec => ImplementsTransfer`.

The hypothesis is `~BesideNotices`: where a bank may put a refusal beside a
notice the code does not hear it (section 5).  `DoneIsDelivered` speaks of the
end; the invariant `TransferInv` says of every moment that the receiving side has
a prefix of the segments, as long as its side of the transfer is far, and for the
two messages under way what each will make of that.

`SignIn_proofs` proves, for any accounts, processes, sources, browsers, signing
keys and bounds:

* `AdmittedIsCurrentHolds`, `SignedOutStaysHolds`, `LoginAnsweredOnceHolds`,
  `KeysAreCurrentHolds`, with no hypotheses; `WalkInvHolds` is what each needs of
  the steps of a request: what it holds is what that step has read;
* `GuessesBoundedHolds`, for thresholds other than one: the first failure of a
  name or a source inserts the row of its counter without looking at the
  threshold, so that with a threshold of one the second failure locks (section 5).

Each property has its own invariant beside `WalkInv` (`AdmitInv`, `OutInv`,
`LoginInv`, `KeysInv`, `GuessInv`), and none needs another's.

The last part of `SignIn_proofs`, which extends `AccessControl` too, proves, for
any connections, subjects, callers, credentials, doors and bounds:

* `ActsWithinReachHolds`, `UngrantedLooksAbsentHolds`: what a caller does it was
  granted since its request arrived, and what it was not granted looks absent;
* `TrailSaysLevelInForceHolds`: outside a dispute and a lost process, the last
  audit row of a pair says the level in force.

The first two rest on `ReachInv`: what a request has read, and the principal it
has built, say nothing its caller did not hold (`KnownBy`), and no scope of it is
an owner's unless it is an administrator.  What a door then answers is a matter of
its table: `WellMade` says of a door that its checks ask for enough for its act,
and that a row is loaded only behind a check the caller may fail, or just before
one that gives the same answer.  `DoorsWell` shows it of every door of `Doors`, and
`OkIsMandated`, `ListedIsMandated` and `UnseenIsAbsent` are about any door so made.
A new handler needs one such line, and the proof fails if the handler loads a row
before it asks.

`TrailSaysLevelInForce` is not inductive because it says nothing of a pair while a
change of it is under way.  `TrailInv` does (`Says`): before its write the trail is
right, between write and audit row it is the request's own level that is in
force, and the row a grant has read is the row there is; two requests are about
one pair only when it is in dispute.

`SignIn` and `AccessControl` have no name in common, so that one module can extend
both; the specification of the second is `AccessSpec`.  What these theorems assume
of constants is that `NoConnection`, `NoLevel` and `Missing` are none of the values
they stand beside, and that callers knock at doors there are, as subjects there are
(`ClientsAssumption`).

`PaymentSubmission_proofs` proves, for any connections, payments, configurations
and number of requests:

* `TypeCorrect`: `Spec => []TypeOK`;
* `ImplementsBookHolds`: `Spec => ImplementsBook`, a key stands for one payment;
* `SentAsAskedHolds`, `ShownIsSentHolds`: an order goes as it was asked for, and
  as the page showed it;
* `PayableAsWrittenHolds`: what reaches the table can be paid as it is written,
  for payments of any number of transfers and QR references of any length.

None of the four is inductive.  They share one invariant, `SubmissionInv`: an
order is what the request that entered it asks for under the configuration that
request read, which may be one the connection no longer has (`Ordered`); a
request that names an order names one under its own key, and what it found out
about the payment is still true, since neither the payment nor what it read
changes (`Requested`); a page shows what the configuration it read sends
(`Shown`); and no two orders share a key (`OneForAKey`).  With the last, a
request's second read can only find the order that won (`FindsWinner`), and a
replay is never of the request's own order (`ReplayIsOfAnother`), which is why
the audit row of an answer names the request that entered the order or says
`payment.replayed`.  `SentAsAsked` follows from what `resolve` decides
(`ResolveDecides`), which schemes that makes an order send (`SchemesSent`) and
what `build` writes under a profile (`DocumentFollows`): lemmas about pure
operators, for instructions of any length.

`PayableAsWritten` adds that an order breaks none of the Swiss rules
(`OrderIsPayable`) and what they make of a transfer (`RulesKept`): its amount is
positive and a multiple of the currency's unit, so that `format_amount` rounds
nothing (`Exact`), and its account and reference fit (`AccountAndReference`).  The
rest is about folds.  The community modules define `FoldLeft` by a function that
is `CHOOSE`n, over the positions still left; `FoldExists` shows that there is
such a function, one position at a time.  Read along the sequence, the control sum
is then a running sum (`RunsTo`, `ControlSum`, `AmountSum`), and so is the sum of
the amounts written, the second a fixed fraction of the first at every position
(`SumsScale`).  The check digit is a running carry (`Carries`): the table sends
different digits to different carries and different carries to different ones
(`CarryTells`), so a digit mistyped makes the carries differ from there to the end
(`CheckDigitTells`), and the check digit with them (`ReferenceTells`).

The assumptions: `DataAssumption` (instructions and configurations are what
`payments.py` and the request schema let through), `SettingsAssumption` (the
bounds of a behaviour are within the constants) and `UnsetAssumption` (`None` is
none of the values it stands beside).

The constants are assumed to be what their comments say (`ASSUME`s that TLC
evaluates in every run): `SettingsAssumption`, `AccountsAssumption` and
`KeysAssumption` of the sign-in, `TransferAssumption`, `ManagedAssumption` (the
versions an operator may renew are versions there are), `BoundsAssumption` and
their like.  Where a proof needs an induction, over a number, a finite set or the
positions of a sequence (`NewestIs`, `Prefix`, `Counting`), it takes the least
counterexample, whose existence is the well-foundedness of the natural numbers in
the library (`WFMin`).

Only model-checked: liveness (`SettlesEventually`, `RecordedIsServed`,
`PublishedIsStored`, `ComesToAnEnd`, `JobsEnd`), which the prover cannot do.  Every
invariant and every safety property of steps that a passing run checks is also a
theorem, some of them under the hypotheses named above.

## 5. Where the code departs from what it says

One run expects a violation; `PROJECT.json` quotes the line it refutes.

* `revoked_settlement`: a report that finds the order acknowledged leaves
  `bank_status` as it was, so a refusal after ACTC and ACSP overturns the ACTC
  and rejects an order whose money is under way (`reconcile.py:615` against
  `:166`).

The rest are hypotheses or limits of the models, without a run.

*Queue.*  A settlement names the row by `order_id` alone, so an upload that
outlives `CLAIM_LEASE` overwrites what the next holder did (`queue.py:453`,
`:503`; hypothesis `LeaseOutlivesUpload`).  A fact and its event are two
transactions, so a crash in between loses the event (`queue.py:461`, against
`reconcile.py:644`, the repository's `README.md:335` and `docs/webhooks.md:213`).
The ceiling is not read by the claim, so an order lost at every claim is claimed
for ever (`queue.py:39`).  A replay clears the `transaction_id` the fallback
relies on as evidence that the bank received nothing (`orders.py:682`,
`queue.py:345`): an instant whose last answer was lost, retried and refused, is
rejected, and the same refusal after a replay promotes the reserve beside it,
against `orders.py:655`.

*Webhooks.*  A delivery sent again takes its old place, in front of one that is
being posted, and is claimed beside it (`dispatcher.py:279`,
`redelivery.py:153`, against `docs/webhooks.md:215`).  `resend_order` reads the
newest event of an order before it writes, and another may be recorded in
between (`redelivery.py:20`, `:93`).  `rotate_secret` reads whether a rotation
is open in one transaction and writes in another, so the second of two drops
the secret the endpoint is using (`webhooks.py:446`).

*Downloads.*  The mark of a run is the day of the run, which is not over, and
the next window starts on the day after it (`schedule.py:280`, `:38` against
`:791`).  While no run has succeeded the window is reckoned from today
(`schedule.py:180`), so the first days of a schedule whose bank is unreachable
fall out of it.  A `refetch` from a day beyond the mark skips the days between
(`schedule.py:645`; hypothesis `RefetchBehindMark`).

*Keys.*  A job whose worker died twice is neither claimed nor failed and stays
outstanding (`keyjobs.py:30`, `:59` against `:317`).  Two requests that both see
nothing outstanding both insert (`keyjobs.py:222`; the instance has one
handler).  A crash within `create_keys` leaves a connection that can neither
create, renew nor register; one within a renewal, between superseding and
inserting, leaves no active key.  A renewed key is never registered, since INI
and HIA are sent only from `created` and `ini_sent`.  A crash between the
exchange of INI and the save has INI sent again, which the bank refuses.

*Transfers.*  A refusal of the order in the body of an answer whose header has a
notice is not heard (`ebics3/responses.py:136` against `:11`, `:179`; constant
`BesideNotices`).  A completed code in the middle of an upload ends it as
submitted.  A recovery answer without a segment number resumes at none.

*Status reports.*  The `UPDATE` of a refusal compares `bank_status`, not the date
of the acknowledgement that was read, so "the acknowledgement this report
overturns is the one it read" (`reconcile.py:617`) holds until the order is
replayed: with one refusal read by a re-reading, applied by its download, and the
order replayed, sent and acknowledged again with the same code, the re-reading
rejects it with the older refusal.  A re-reading after a replay applies the refusal from before
it again.  A refusal of the superseded first message moves an order that fell
back.  An acknowledgement applied between the read of what a refusal may
overturn and the move leaves the refusal ignored until the next re-reading.  A
booking dated before the acknowledging report needs a second re-reading.  A
dismissed suspicion is raised again after another booking, a credit of the same
reference can be booked twice (`returns.py:308` against `:276`), and `confirm`
of a dismissed suspicion writes the booking it read (constant `ConfirmsOpen`).
It compares no booking either: when a second person dismisses the suspicion and
another booking raises the next, a confirmation that was under way answers the
new one with the old booking (`returns.py:499`).

*Custody.*  `rekey` writes back what it read, so a signing secret rotated or
retired while a run is under way comes back or is lost (`rekey.py:304`; history
`contended`).  A worker still on the old secret, or a request that took the old
public half, seals under the old secret after a run that reported it was
complete (constant `Careful`).  Until they are restarted, dispatchers cannot
open what a run has moved.  A secret that returns after another is never the
newest row of `webhook_wrapping_key`, because `publish` is idempotent
(`wrapping.py:194`, `:227`), so new signing secrets are sealed to a key no
worker has; the model issues new secrets only.  If the answer of a
`rotate_secret` is lost the overlap can neither be rotated again nor retired
without breaking the endpoint, though a caller that loses a secret "rotates"
(`webhooks.py:394`).  An acknowledgement of a backup made before the first key,
or while a rotation is unfinished, has no key and counts for ever
(`recovery.py:99`, `:136`, against `:94`).

*Access.*  `reach_for` reads grants and oversight at two moments.  The list of
webhooks shows rows held as a viewer whose pages answer 403.  A grant that
races a revocation ends in a failed assertion.  An audit row after the commit is
lost with its process, and two administrators of one pair can leave the trail
with the older level (`access.py:277`, `:314`).  The scopes of a token do not
narrow routes that ask for an administrator.  The account routes of the console
parse their form before they ask who sends it.

*Sign-in.*  The failure count is read and written in two transactions
(`accounts.py:620`): updates are lost, the first two of a counter collide, and a
success deletes a lock taken meanwhile.  A threshold of one locks at the second
failure.  A cached key set outlives its TTL while the provider is unreachable
(`tokens.py`).  The upgrade of a hash overwrites a password that was set
meanwhile (`accounts.py:393`, `:550`).  A refused navigation clears the
signed-out marker by way of the login.  Suspended and demoted accounts keep the
sessions they have.  Rows of logins nobody finished are never purged.

*Submission.*  A retry of an accepted order is answered with the refusal of a
connection that is not initialised once the key state has left `ready`, though
`submit` says it returns the original.  A crash between the insert and the audit
row leaves `payment.accepted` unrecorded, and the retry records
`payment.replayed`.  A page that was shown before the configuration changed is
sent under the new one.

## 6. Not modelled

* **The refusal to open a seal inside a request** (`custody.py`) and the
  acknowledgement of a backup (`recovery.py`).
* **Cryptography, canonicalisation, XML and its schemas, parsing of reports and
  tokens**: pure functions over bytes.  A parsed document is the record of what
  it says; a signature or a hash is right or it is not.
* **HTTP, the database driver, configuration, the process entry points, logging,
  the wording of pages and of the trail**: I/O and layout on which no property
  here depends.
* **The columns no decision reads**: descriptions, URLs, timestamps for display,
  the catalogue of a bank's services, the product and digest of a connection.
* Within modelled parts: a change of `window_days`, the cadence of a schedule
  (`cron.py`), an update of a webhook's URL or types, the MOD 97 check of an IBAN,
  names and addresses.

## 7. Plan

Done, in this order: `OrderQueue`, `WebhookDelivery`, `DownloadSchedule`,
`KeyManagement`, `EbicsTransaction`, `StatusReports`, `AccessControl`, `SignIn`,
`PaymentSubmission`, `SecretCustody`; and proofs for all of them.  Next:

1. `DownloadSchedule`: a change of `window_days`, after which an undated schedule
   gets a mark it did not earn, and archives that cannot be unpacked.
2. `StatusReports`: two orders of one reference in a run of their own, and what a
   re-reading of part of the store (`since`) leaves to do.
