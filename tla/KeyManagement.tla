--------------------------- MODULE KeyManagement ---------------------------
(***************************************************************************)
(* The keys of one bank connection: the jobs operators ask for             *)
(* (keyjobs.py), the workers that perform them (initialiser.py), the       *)
(* keyring they write (keyring.py) and the progress of the registration    *)
(* (connections.py, ebics3/initialisation.py).                             *)
(*                                                                         *)
(* Each action is one transaction or one exchange with the bank.           *)
(* Connections share nothing but the workers, so there is one.  A key of   *)
(* the bank is a member of Keys; a fingerprint is the key it belongs to.   *)
(* The bank is external: it may refuse or fail, serve any keys, and its    *)
(* answer may be lost; it takes each registration once.                    *)
(***************************************************************************)
EXTENDS Integers, FiniteSets, Sequences, SequencesExt

CONSTANTS
    Keys,               \* public keys of the bank
    Pairs,              \* what it may serve, or print on a letter: an
                        \* authentication (X002) and an encryption key (E002)
    Managed,            \* the versions operators renew or suspend
    Workers,            \* key workers, in one process or in several
    Consoles,           \* handlers of the console that append jobs
    NoPair,             \* no pair of bank keys
    NoKey,              \* what a superseded row holds: nothing reads it
    MAX_ATTEMPTS,       \* claims of one job
    LeaseOutlivesJob,   \* TRUE: no live worker takes longer than CLAIM_LEASE
    MaxJobs,            \* bound: jobs asked for
    MaxFaults           \* bound: writes that fail and workers that are lost

ASSUME PairAssumption == Pairs \subseteq Keys \X Keys /\ NoPair \notin Keys \X Keys
ASSUME BoundsAssumption ==
    /\ MAX_ATTEMPTS \in Nat \ {0} /\ MaxJobs \in Nat \ {0}
    /\ MaxFaults \in Nat /\ LeaseOutlivesJob \in BOOLEAN

VARIABLES
    connection, \* bank_connection: the progress of the registration
    keyring,    \* key_material: a set of rows
    job,        \* key_job, by seq
    worker,     \* what each worker is doing
    console,    \* what each handler is doing
    onFile,     \* external: the keys of ours the bank has taken
    compared,   \* history: the pairs operators read off a letter
    faults

asked == <<console, compared>>
vars == <<connection, keyring, job, worker, console, onFile, compared, faults>>

-----------------------------------------------------------------------------
(* The rows. *)

SUBSCRIBER_VERSIONS == {"A006", "X002", "E002"}
BANK_VERSIONS == {"X002", "E002"}

ASSUME ManagedAssumption == Managed \subseteq SUBSCRIBER_VERSIONS

KeyStates == {"created", "ini_sent", "hia_sent", "keys_sent",
              "bank_keys_received", "ready"}
Connection == [state: KeyStates, ini: BOOLEAN, hia: BOOLEAN,
               prints: Pairs \cup {NoPair}]     \* bank_fingerprints

OwnKeys == [holder: {"subscriber"}, version: SUBSCRIBER_VERSIONS, generation: Nat,
            status: {"active", "suspended", "superseded"}]
BankKeys == [holder: {"bank"}, version: BANK_VERSIONS, generation: Nat,
             status: {"active", "pending", "superseded"}, key: Keys \cup {NoKey}]

\* INI and HIA, the way ALLOWED_FROM offers them: one order.
KeyActions == {"create_keys", "send_ini", "send_hia", "fetch_hpb", "fetch_catalogue",
               "confirm_bank_keys", "decline_bank_keys", "renew_key", "suspend_keys"}
Registered == {"keys_sent", "bank_keys_received", "ready"}
ALLOWED_FROM == [action \in KeyActions |->
    CASE action \in {"create_keys", "send_ini"} -> {"created"}
      [] action = "send_hia" -> {"ini_sent"}
      [] action \in {"fetch_hpb", "fetch_catalogue", "renew_key"} -> Registered
      [] action \in {"confirm_bank_keys", "decline_bank_keys"} ->
            {"bank_keys_received", "ready"}
      [] action = "suspend_keys" -> KeyStates]

\* What an operator asks for: keys of ours to renew or suspend, a letter.
Request == [action: KeyActions, versions: SUBSET SUBSCRIBER_VERSIONS,
            letter: Pairs \cup {NoPair}]
NoRequest == [action |-> "fetch_catalogue", versions |-> {}, letter |-> NoPair]

\* What a finished job asked for is of no consequence.
JobRow == [state: {"none", "queued", "running", "done", "failed"},
           claim: {"none", "held", "expired"}, attempts: 0..MAX_ATTEMPTS,
           request: Request]
Jobs == 1..MaxJobs
Settled(state) == [state |-> state, claim |-> "none", attempts |-> 0,
                   request |-> NoRequest]
Outstanding == {j \in Jobs : job[j].state \in {"queued", "running"}}

\* One write to the keyring: a row inserted, a row given another status, or the
\* active rows of the bank with this version superseded.
Write == [op: {"insert", "mark", "supersede"}, row: OwnKeys \cup BankKeys]

\* The Initialisation a worker holds, and the writes it has ahead of it.
WorkerState == [
    pc: {"idle", "claimed", "exchanging", "staging", "writing", "saving", "settling"},
    job: Jobs, request: Request,
    seen: KeyStates,                        \* of the connection it read
    ini: BOOLEAN, hia: BOOLEAN,
    pair: Pairs \cup {NoPair}, prints: Pairs \cup {NoPair},
    todo: Seq(Write),
    next: {"trusting", "saving", "settling"}, \* after those writes
    outcome: {"done", "failed"}]
Idle == [pc |-> "idle", job |-> 1, request |-> NoRequest, seen |-> "created",
         ini |-> FALSE, hia |-> FALSE, pair |-> NoPair, prints |-> NoPair,
         todo |-> <<>>, next |-> "settling", outcome |-> "done"]

\* A handler that found nothing outstanding.
ConsoleState == [pc: {"idle", "asking"}, request: Request]
Waiting == [pc |-> "idle", request |-> NoRequest]

TypeOK ==
    /\ connection \in Connection
    /\ keyring \subseteq OwnKeys \cup BankKeys
    /\ job \in [Jobs -> JobRow]
    /\ worker \in [Workers -> WorkerState]
    /\ console \in [Consoles -> ConsoleState]
    /\ onFile \subseteq OwnKeys
    /\ compared \subseteq Pairs
    /\ faults \in Nat

-----------------------------------------------------------------------------
(* The keyring. *)

Rows(holder, status) == {row \in keyring : row.holder = holder /\ row.status = status}

Active(holder, version) == {row \in Rows(holder, "active") : row.version = version}

\* The newest of them, which entry resolves to.
Newest(rows) == CHOOSE row \in rows : \A other \in rows : other.generation <= row.generation

HasKeys == \A version \in SUBSCRIBER_VERSIONS : Active("subscriber", version) # {}

HasBankKeys == \A version \in BANK_VERSIONS : Active("bank", version) # {}

Own(version, generation, status) ==
    [holder |-> "subscriber", version |-> version, generation |-> generation,
     status |-> status]
Theirs(version, generation, key, status) ==
    [holder |-> "bank", version |-> version, generation |-> generation,
     status |-> status, key |-> key]

\* connection, holder, version and generation are unique.
Same(row, other) ==
    row.holder = other.holder /\ row.version = other.version
    /\ row.generation = other.generation

Insert(row) == [op |-> "insert", row |-> row]
Marks(rows, status) ==
    SetToSeq({[op |-> "mark", row |-> [row EXCEPT !.status = status]] : row \in rows})
Supersede(version) ==
    [op |-> "supersede", row |-> Own(version, 0, "superseded")]

NextGeneration == 1 + LET bank == {row \in keyring : row.holder = "bank"} IN
    IF bank = {} THEN 0 ELSE Newest(bank).generation

Given(row, status) ==
    IF row.holder = "bank" /\ status = "superseded"
    THEN [row EXCEPT !.status = status, !.key = NoKey]
    ELSE [row EXCEPT !.status = status]

\* The rows a write changes, and what becomes of them.
Hit(write) ==
    IF write.op = "supersede" THEN Active("bank", write.row.version)
    ELSE {row \in keyring : Same(row, write.row)}
Written(write) ==
    (keyring \ Hit(write)) \cup
        IF write.op = "insert" THEN {write.row}
        ELSE {Given(row, write.row.status) : row \in Hit(write)}

-----------------------------------------------------------------------------
(* The console: request reads what is outstanding, then inserts. *)

\* Mutant of MayAsk: a second job beside the one in flight.
MayAskAnyway(request) == connection.state \in ALLOWED_FROM[request.action]

MayAsk(request) ==
    connection.state \in ALLOWED_FROM[request.action] /\ Outstanding = {}

Ask(c, request) ==
    /\ console[c].pc = "idle" /\ MayAsk(request)
    /\ console' = [console EXCEPT ![c] = [pc |-> "asking", request |-> request]]
    /\ compared' = compared \cup ({request.letter} \ {NoPair})
    /\ UNCHANGED <<connection, keyring, job, worker, onFile, faults>>

Queued(request) == [state |-> "queued", claim |-> "none", attempts |-> 0,
                    request |-> request]

Enqueue(c) ==
    /\ console[c].pc = "asking"
    /\ console' = [console EXCEPT ![c] = Waiting]
    /\ \E j \in Jobs :
        /\ job[j].state = "none" /\ \A i \in 1..(j - 1) : job[i].state # "none"
        /\ job' = [job EXCEPT ![j] = Queued(console[c].request)]
    /\ UNCHANGED <<connection, keyring, worker, onFile, compared, faults>>

-----------------------------------------------------------------------------
(* The claim and the end of a job. *)

\* Mutant of Claimable: the job of a worker that died is never claimed again.
ClaimableOnce(j) == job[j].state = "queued"

Claimable(j) ==
    \/ job[j].state = "queued"
    \/ job[j].state = "running" /\ job[j].claim = "expired"
       /\ job[j].attempts < MAX_ATTEMPTS

Claim(w, j) ==
    /\ worker[w].pc = "idle"
    /\ Claimable(j) /\ \A i \in 1..(j - 1) : ~Claimable(i)
    /\ job' = [job EXCEPT ![j].state = "running", ![j].claim = "held",
                          ![j].attempts = job[j].attempts + 1]
    /\ worker' = [worker EXCEPT ![w] =
            [Idle EXCEPT !.pc = "claimed", !.job = j, !.request = job[j].request]]
    /\ UNCHANGED <<connection, keyring, asked, onFile, faults>>

LeaseExpires(j) ==
    /\ job[j].claim = "held"
    /\ LeaseOutlivesJob => \A w \in Workers : worker[w].pc = "idle" \/ worker[w].job # j
    /\ job' = [job EXCEPT ![j].claim = "expired"]
    /\ UNCHANGED <<connection, keyring, worker, asked, onFile, faults>>

Becomes(w, state) == worker' = [worker EXCEPT ![w] = state]

\* Whatever raises in _perform is an outcome.
Fails(w) == Becomes(w, [worker[w] EXCEPT !.pc = "settling", !.outcome = "failed",
                                         !.todo = <<>>])

\* _settle names the job by its id alone.
Settle(w) ==
    /\ worker[w].pc = "settling"
    /\ job' = [job EXCEPT ![worker[w].job] = Settled(worker[w].outcome)]
    /\ Becomes(w, Idle)
    /\ UNCHANGED <<connection, keyring, asked, onFile, faults>>

\* The process dies, or an outcome cannot be written.
WorkerLost(w) ==
    /\ worker[w].pc # "idle" /\ faults < MaxFaults
    /\ faults' = faults + 1
    /\ Becomes(w, Idle)
    /\ UNCHANGED <<connection, keyring, job, asked, onFile>>

-----------------------------------------------------------------------------
(* Performing a job.  _perform looks at the connection first. *)

Performs(w, action) ==
    /\ worker[w].pc = "claimed" /\ worker[w].request.action = action
    /\ connection.state \in ALLOWED_FROM[action]
    /\ UNCHANGED <<connection, keyring, job, asked, onFile, faults>>

NotAvailable(w) ==
    /\ worker[w].pc = "claimed"
    /\ connection.state \notin ALLOWED_FROM[worker[w].request.action]
    /\ Fails(w)
    /\ UNCHANGED <<connection, keyring, job, asked, onFile, faults>>

Writes(w, todo, next) ==
    Becomes(w, [worker[w] EXCEPT !.pc = "writing", !.todo = todo, !.next = next])

\* resume_initialisation opens the three keys and puts back the booleans.
Resumed(w) == [worker[w] EXCEPT !.seen = connection.state,
                                !.ini = connection.ini, !.hia = connection.hia]

CreateKeys(w) ==
    /\ Performs(w, "create_keys")
    /\ IF Rows("subscriber", "active") # {} THEN Fails(w)
       ELSE Writes(w, <<Insert(Own("A006", 1, "active")), Insert(Own("X002", 1, "active")),
                        Insert(Own("E002", 1, "active"))>>, "settling")

RenewKey(w) ==
    /\ Performs(w, "renew_key")
    /\ \E version \in worker[w].request.versions :
        LET current == Active("subscriber", version) IN
        IF current = {} THEN Fails(w)
        ELSE Writes(w, Marks({Newest(current)}, "superseded") \o
                <<Insert(Own(version, Newest(current).generation + 1, "active"))>>,
                "settling")

SuspendKeys(w) ==
    LET affected == {row \in Rows("subscriber", "active") :
                        row.version \in worker[w].request.versions} IN
    /\ Performs(w, "suspend_keys")
    /\ IF affected = {} THEN Fails(w)
       ELSE Writes(w, Marks(affected, "suspended"), "settling")

\* next_step of the Initialisation has to be the one that was asked for.
Register(w, action) ==
    /\ Performs(w, action)
    /\ IF HasKeys /\ IF action = "send_ini" THEN ~connection.ini
                     ELSE connection.ini /\ ~connection.hia
       THEN Becomes(w, [Resumed(w) EXCEPT !.pc = "exchanging"])
       ELSE Fails(w)

\* HPB is repeatable, and a machine without the bank's keys asks for it.
FetchHPB(w) ==
    /\ Performs(w, "fetch_hpb")
    /\ IF HasKeys THEN Becomes(w, [Resumed(w) EXCEPT !.pc = "exchanging"]) ELSE Fails(w)

\* A download like any other; what it stores is read by a page.
FetchCatalogue(w) ==
    /\ Performs(w, "fetch_catalogue")
    /\ \/ HasKeys /\ HasBankKeys
          /\ Becomes(w, [worker[w] EXCEPT !.pc = "settling"])
       \/ Fails(w)

Staged(version) == {row \in Rows("bank", "pending") : row.version = version}

\* Mutant of Matches: the encryption key goes unchecked.
MatchesHalf(pair, letter) == pair[1] = letter[1]
Matches(pair, letter) == pair = letter

ConfirmBankKeys(w) ==
    /\ Performs(w, "confirm_bank_keys")
    /\ IF Staged("X002") = {} \/ Staged("E002") = {} \/ ~HasKeys THEN Fails(w)
       ELSE LET pair == <<Newest(Staged("X002")).key, Newest(Staged("E002")).key>> IN
            IF ~Matches(pair, worker[w].request.letter) THEN Fails(w)
            ELSE Becomes(w, [Resumed(w) EXCEPT
                    !.pc = "writing", !.pair = pair, !.prints = pair,
                    !.todo = <<Supersede("X002"), Supersede("E002")>>,
                    !.next = "trusting"])

DeclineBankKeys(w) ==
    /\ Performs(w, "decline_bank_keys")
    /\ IF Rows("bank", "pending") = {} THEN Fails(w)
       ELSE Writes(w, Marks(Rows("bank", "pending"), "superseded"), "settling")

-----------------------------------------------------------------------------
(* One exchange with the bank, one write, one save. *)

\* What INI or HIA registers: the keys that are active.
Sends(action) ==
    {Newest(Active("subscriber", version)) : version \in
        IF action = "send_ini" THEN {"A006"} ELSE {"X002", "E002"}}

\* The bank takes a version once; its answer may be lost, and it may refuse.
RegistrationSent(w) ==
    LET action == worker[w].request.action IN
    /\ worker[w].pc = "exchanging" /\ action \in {"send_ini", "send_hia"}
    /\ \/ Fails(w) /\ UNCHANGED onFile
       \/ /\ HasKeys
          /\ \A sent \in Sends(action), row \in onFile : sent.version # row.version
          /\ onFile' = onFile \cup Sends(action)
          /\ \/ Fails(w)
             \/ Becomes(w, [worker[w] EXCEPT
                    !.pc = "saving",
                    !.ini = worker[w].ini \/ action = "send_ini",
                    !.hia = worker[w].hia \/ action = "send_hia"])
    /\ UNCHANGED <<connection, keyring, job, asked, faults>>

HPBAnswered(w) ==
    /\ worker[w].pc = "exchanging" /\ worker[w].request.action = "fetch_hpb"
    /\ \/ Fails(w)
       \/ \E pair \in Pairs :
            Becomes(w, [worker[w] EXCEPT !.pc = "staging", !.pair = pair])
    /\ UNCHANGED <<connection, keyring, job, asked, onFile, faults>>

\* Mutant of StagedAs: what arrived is used at once.
StagedActive == "active"
StagedAs == "pending"

\* What was staged before is superseded.  A connection that has its bank keys
\* already keeps its state.
Stage(w) ==
    /\ worker[w].pc = "staging"
    /\ Writes(w, Marks(Rows("bank", "pending"), "superseded") \o
            <<Insert(Theirs("X002", NextGeneration, worker[w].pair[1], StagedAs)),
              Insert(Theirs("E002", NextGeneration, worker[w].pair[2], StagedAs))>>,
            IF worker[w].seen = "keys_sent" THEN "saving" ELSE "settling")
    /\ UNCHANGED <<connection, keyring, job, asked, onFile, faults>>

WriteRow(w) ==
    /\ worker[w].pc = "writing" /\ worker[w].todo # <<>>
    /\ LET write == Head(worker[w].todo) IN
       IF write.op = "insert" /\ Hit(write) # {}
       THEN Fails(w) /\ UNCHANGED keyring
       ELSE /\ keyring' = Written(write)
            /\ Becomes(w, [worker[w] EXCEPT !.todo = Tail(worker[w].todo)])
    /\ UNCHANGED <<connection, job, asked, onFile, faults>>

WriteFails(w) ==
    /\ worker[w].pc \in {"writing", "saving"} /\ faults < MaxFaults
    /\ faults' = faults + 1
    /\ Fails(w)
    /\ UNCHANGED <<connection, keyring, job, asked, onFile>>

\* The staged keys are read again before they are made active.
WritesDone(w) ==
    /\ worker[w].pc = "writing" /\ worker[w].todo = <<>>
    /\ IF worker[w].next = "trusting"
       THEN Writes(w, Marks(Rows("bank", "pending"), "active"), "saving")
       ELSE Becomes(w, [worker[w] EXCEPT !.pc = worker[w].next])
    /\ UNCHANGED <<connection, keyring, job, asked, onFile, faults>>

\* Mutant of StateOf: ready as soon as the bank's keys are there.
StateOfUnchecked(ini, hia, pair, prints) ==
    IF pair # NoPair THEN "ready"
    ELSE IF ini THEN IF hia THEN "keys_sent" ELSE "ini_sent"
    ELSE IF hia THEN "hia_sent" ELSE "created"
\* Initialisation.state
StateOf(ini, hia, pair, prints) ==
    IF pair # NoPair THEN IF prints # NoPair THEN "ready" ELSE "bank_keys_received"
    ELSE IF ini THEN IF hia THEN "keys_sent" ELSE "ini_sent"
    ELSE IF hia THEN "hia_sent" ELSE "created"

SaveProgress(w) ==
    LET me == worker[w] IN
    /\ me.pc = "saving"
    /\ connection' = [state |-> StateOf(me.ini, me.hia, me.pair, me.prints),
                      ini |-> me.ini, hia |-> me.hia, prints |-> me.prints]
    /\ Becomes(w, [me EXCEPT !.pc = "settling"])
    /\ UNCHANGED <<keyring, job, asked, onFile, faults>>

-----------------------------------------------------------------------------

\* Asked for with the parameters _job_params demands.
Requests ==
    [action: KeyActions \ {"confirm_bank_keys", "renew_key", "suspend_keys"},
     versions: {{}}, letter: {NoPair}]
    \cup [action: {"confirm_bank_keys"}, versions: {{}}, letter: Pairs]
    \cup [action: {"renew_key"}, versions: {{v} : v \in Managed},
          letter: {NoPair}]
    \cup [action: {"suspend_keys"}, letter: {NoPair},
          versions: {{v} : v \in Managed} \cup {SUBSCRIBER_VERSIONS}]

\* A connection is followed from its registration, or from when its keys were
\* sent; the jobs that brought it there are of no consequence.
Init ==
    /\ \/ /\ connection = [state |-> "created", ini |-> FALSE, hia |-> FALSE,
                            prints |-> NoPair]
          /\ keyring = {} /\ onFile = {}
       \/ /\ connection = [state |-> "keys_sent", ini |-> TRUE, hia |-> TRUE,
                            prints |-> NoPair]
          /\ keyring = {Own(version, 1, "active") : version \in SUBSCRIBER_VERSIONS}
          /\ onFile = keyring
    /\ job = [j \in Jobs |-> Settled("none")]
    /\ worker = [w \in Workers |-> Idle]
    /\ console = [c \in Consoles |-> Waiting]
    /\ compared = {}
    /\ faults = 0

Works(w) ==
    \/ NotAvailable(w)
    \/ CreateKeys(w) \/ RenewKey(w) \/ SuspendKeys(w)
    \/ Register(w, "send_ini") \/ Register(w, "send_hia") \/ FetchHPB(w)
    \/ FetchCatalogue(w) \/ ConfirmBankKeys(w) \/ DeclineBankKeys(w)
    \/ RegistrationSent(w) \/ HPBAnswered(w) \/ Stage(w)
    \/ WriteRow(w) \/ WriteFails(w) \/ WritesDone(w) \/ SaveProgress(w)
    \/ Settle(w)

Next ==
    \/ \E c \in Consoles : Enqueue(c) \/ \E request \in Requests : Ask(c, request)
    \/ \E w \in Workers : Works(w) \/ WorkerLost(w) \/ \E j \in Jobs : Claim(w, j)
    \/ \E j \in Jobs : LeaseExpires(j)

Spec == Init /\ [][Next]_vars

\* run_forever polls for as long as the process lives, a handler that has begun
\* goes on, and time passes.
Claims(w) == \E j \in Jobs : Claim(w, j)
Fairness ==
    /\ \A w \in Workers : WF_vars(Claims(w)) /\ WF_vars(Works(w))
    /\ \A c \in Consoles : WF_vars(Enqueue(c))
    /\ \A j \in Jobs : WF_vars(LeaseExpires(j))

FairSpec == Spec /\ Fairness

-----------------------------------------------------------------------------
(* Properties. *)

Busy(w) == worker[w].pc # "idle"

\* One job of the connection is outstanding at a time, and one worker performs
\* it, whatever died on the way: two would register or trust twice.
OneJob ==
    /\ Cardinality(Outstanding) <= 1
    /\ \A v, w \in Workers : Busy(v) /\ Busy(w) => v = w
    /\ \A w \in Workers : Busy(w) => worker[w].job \in Outstanding

\* The bank's keys that are in use came as one pair, and that very pair was
\* read off a letter by somebody: through confirmations that stopped halfway,
\* keys fetched again, and keys rolled.
TrustedPair ==
    IF HasBankKeys
    THEN <<Newest(Active("bank", "X002")).key, Newest(Active("bank", "E002")).key>>
    ELSE NoPair
TrustedWasCompared == TrustedPair # NoPair => TrustedPair \in compared

\* What the connection says it registered, the bank has on file, and what it
\* says of the bank's keys was compared.
ProgressIsTrue ==
    /\ connection.ini => \E row \in onFile : row.version = "A006"
    /\ connection.hia => \A version \in BANK_VERSIONS : \E row \in onFile : row.version = version
    /\ connection.prints # NoPair => connection.prints \in compared
    /\ connection.state = "ready" <=> connection.prints # NoPair

\* How far a connection is known to be only advances, and trust follows a
\* comparison.
Lifecycle == INSTANCE KeyLifecycle
    WITH state <- connection.state, trusted <- TrustedPair
ImplementsLifecycle == Lifecycle!Spec

\* A job that was asked for ends.
JobsEnd == \A j \in Jobs : job[j].state = "queued" ~> job[j].state \in {"done", "failed"}

=============================================================================
