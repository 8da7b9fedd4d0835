-------------------------- MODULE PasswordAccounts --------------------------
(***************************************************************************)
(* The service's own accounts: a name, a stored hash, a throttle           *)
(* (painfree.accounts).                                                    *)
(*                                                                         *)
(* authenticate is a chain of transactions of its own: the two counters    *)
(* are read, the account is read, the password is verified against the     *)
(* hash that was read, and then the failures of the name are cleared or    *)
(* one more is counted, for the name and then for the source.  Requests of *)
(* several processes, and an administrator, interleave between them.  A    *)
(* process remembers what it verified.                                     *)
(*                                                                         *)
(* A stored hash is the word it was made from and whether its parameters   *)
(* are weaker than this build's.  The salt is left out: two hashes of one  *)
(* word accept the same word.                                              *)
(***************************************************************************)
EXTENDS Naturals, FiniteSets

CONSTANTS
    Callers,          \* concurrent requests, each of one process
    ProcessOf,        \* caller -> the process that serves it
    SourceOf,         \* caller -> the address it calls from
    Names,            \* names that are presented
    Words,            \* passwords that can be set
    Oversized,        \* a password longer than any the service stores
    Nothing,          \* a field that is not set
    SubjectThreshold, \* failures that lock a name
    SourceThreshold,  \* failures that lock a source
    Window,           \* a count is resumed within this time of its last failure
    Lockout           \* how long a lock lasts

(* Names and sources are counted apart; every bound is at least one        *)
(* (painfree.config).                                                      *)
ASSUME AccountsAssumption ==
    /\ IsFiniteSet(Callers)
    /\ Nothing \notin Names \cup Words \cup {Oversized}
    /\ Names \cap {SourceOf[cl] : cl \in Callers} = {}
    /\ {SubjectThreshold, SourceThreshold, Window, Lockout} \subseteq Nat \ {0}

VARIABLES
    account,    \* name -> its row, or NoAccount
    verified,   \* process -> the verifications it remembers
    counter,    \* a name or a source -> its row in basic_lockout, or NoCount
    clock,      \* the time
    rowIds,     \* ids given to rows of basic_lockout
    call,       \* caller -> its request
    guesses,    \* ghost: failures of a counter since it was absent or unlocked
    contended,  \* ghost: counters two transactions were under way on at once
    good        \* ghost: caller -> whether its credential was good since it came

Processes == {ProcessOf[cl] : cl \in Callers}

Sources == {SourceOf[cl] : cl \in Callers}

Counters == Names \cup Sources

NoAccount == [word |-> Nothing, weak |-> FALSE, disabled |-> FALSE]

NoCount == [row |-> 0, failures |-> 0, last |-> 0, until |-> 0]

Threshold(c) == IF c \in Names THEN SubjectThreshold ELSE SourceThreshold

Exists(n) == account[n].word # Nothing

Locks(count, now) == count.until > now

(* Verification against the row that was read; against the dummy hash,     *)
(* which no word opens, where there is none.                               *)
Opens(row, word) == row.word # Nothing /\ row.word = word

Accepts(n, word) == Opens(account[n], word) /\ ~account[n].disabled

At(cl, pc) == call[cl].pc = pc

To(cl, pc) == call' = [call EXCEPT ![cl].pc = pc]

Refuse(cl, reason) ==
    call' = [call EXCEPT ![cl].pc = "answered", ![cl].answer = reason,
                         ![cl].row = Nothing, ![cl].read = NoCount]

tables == <<account, verified, counter, clock, rowIds>>

(* Two transactions of which one writes a counter the other has read.      *)
Clash(c, cl) ==
    contended' = contended \cup
       {d \in {c} : \E o \in Callers \ {cl} : At(o, "count") /\ call[o].counts = c}

-----------------------------------------------------------------------------
(* authenticate: is this name, or this source, locked?                     *)
Knock(cl) ==
    /\ At(cl, "knocking")
    /\ LET knock == call[cl] IN
       IF \E c \in {knock.name, SourceOf[cl]} : Locks(counter[c], clock)
       THEN Refuse(cl, "locked_out")
       ELSE IF knock.word = Oversized
       THEN Refuse(cl, "oversized_credential")
       ELSE call' = [call EXCEPT ![cl].pc = "reading", ![cl].now = clock]
    /\ UNCHANGED <<tables, guesses, contended>>

ReadAccount(cl) ==
    /\ At(cl, "reading")
    /\ call' = [call EXCEPT ![cl].pc = "verifying",
                            ![cl].row = account[call[cl].name]]
    /\ UNCHANGED <<tables, guesses, contended>>

VerificationOfAnyHash(cl) == [name |-> call[cl].name, word |-> call[cl].word,
                              stored |-> Nothing]

(* What a process remembers names the hash as well as the credential.      *)
Verification(cl) == [name |-> call[cl].name, word |-> call[cl].word,
                     stored |-> <<call[cl].row.word, call[cl].row.weak>>]

(* _verify, and the two ways on from it.                                   *)
Verify(cl) ==
    LET p    == ProcessOf[cl]
        pass == Verification(cl) \in verified[p] \/ Opens(call[cl].row, call[cl].word)
    IN
    /\ At(cl, "verifying")
    /\ verified' = IF pass
                   THEN [verified EXCEPT ![p] = @ \cup {Verification(cl)}]
                   ELSE verified
    /\ IF pass /\ call[cl].row.word # Nothing /\ ~call[cl].row.disabled
       THEN To(cl, "clearing")
       ELSE call' = [call EXCEPT ![cl].pc = "counting", ![cl].row = Nothing,
                                 ![cl].counts = call[cl].name]
    /\ UNCHANGED <<account, counter, clock, rowIds, guesses, contended>>

(* _succeed: the failures of the name go, and a hash of weaker parameters  *)
(* is made again from the word, whatever hash is stored by then.           *)
ClearFailures(cl) ==
    LET n == call[cl].name IN
    /\ At(cl, "clearing")
    /\ counter' = [counter EXCEPT ![n] = NoCount]
    /\ guesses' = [guesses EXCEPT ![n] = 0]
    /\ Clash(n, cl)
    /\ call' = [call EXCEPT ![cl].pc = IF call[cl].row.weak THEN "upgrading" ELSE "accepted",
                            ![cl].row = Nothing]
    /\ UNCHANGED <<account, verified, clock, rowIds>>

Upgrade(cl) ==
    LET n == call[cl].name IN
    /\ At(cl, "upgrading")
    /\ account' = IF Exists(n)
                  THEN [account EXCEPT ![n] = [@ EXCEPT !.word = call[cl].word,
                                                        !.weak = FALSE]]
                  ELSE account
    /\ verified' = [verified EXCEPT ![ProcessOf[cl]] = {}]
    /\ To(cl, "accepted")
    /\ UNCHANGED <<counter, clock, rowIds, guesses, contended>>

(* _fail and _count: for the name and then for the source, the counter is  *)
(* read and, in the same transaction, written from what was read.          *)
CountReads(cl) ==
    LET c == call[cl].counts IN
    /\ At(cl, "counting")
    /\ call' = [call EXCEPT ![cl].pc = "count", ![cl].read = counter[c]]
    /\ Clash(c, cl)
    /\ UNCHANGED <<tables, guesses>>

(* No row, or one whose window has passed: a fresh count.                  *)
Fresh(count, now) == count.row = 0 \/ count.last + Window <= now

CountedPastThreshold(count, now, threshold) ==
    LET more   == count.failures + 1
        locked == more > threshold /\ ~Locks(count, now)
    IN  [count EXCEPT !.failures = more, !.last = now,
                      !.until = IF locked THEN now + Lockout ELSE count.until]

Counted(count, now, threshold) ==
    LET more   == count.failures + 1
        locked == more >= threshold /\ ~Locks(count, now)
    IN  [count EXCEPT !.failures = more, !.last = now,
                      !.until = IF locked THEN now + Lockout ELSE count.until]

Started(count, now, row) ==
    [row |-> row, failures |-> 1, last |-> now, until |-> 0]

(* The first failure of a value inserts, and the unique constraint refuses *)
(* it if another did; a later one updates by the id it read, which is no   *)
(* row once the counter was cleared.                                       *)
CountWrites(cl) ==
    LET c     == call[cl].counts
        read  == call[cl].read
        now   == call[cl].now
        fresh == Fresh(read, now)
        on    == IF c \in Names THEN "counting" ELSE "answered"
    IN
    /\ At(cl, "count")
    /\ IF read.row = 0 /\ counter[c].row # 0
       THEN Refuse(cl, "error") /\ UNCHANGED <<counter, rowIds, guesses>>
       ELSE /\ IF read.row = 0
               THEN /\ rowIds' = rowIds + 1
                    /\ counter' = [counter EXCEPT ![c] = Started(read, now, rowIds + 1)]
               ELSE /\ counter' = IF counter[c].row # read.row THEN counter
                                  ELSE [counter EXCEPT ![c] =
                                          IF fresh THEN Started(read, now, read.row)
                                          ELSE Counted(read, now, Threshold(c))]
                    /\ UNCHANGED rowIds
            /\ guesses' = [guesses EXCEPT ![c] =
                              IF counter'[c].until \in 1..clock THEN 0
                              ELSE IF fresh THEN 1 ELSE @ + 1]
            /\ call' = [call EXCEPT ![cl].pc = on, ![cl].read = NoCount,
                                    ![cl].counts = SourceOf[cl],
                                    ![cl].answer = IF on = "answered"
                                                   THEN "bad_credential" ELSE @]
    /\ Clash(c, cl)
    /\ UNCHANGED <<account, verified, clock>>

Authenticate(cl) ==
    \/ Knock(cl)
    \/ ReadAccount(cl)
    \/ Verify(cl)
    \/ ClearFailures(cl)
    \/ Upgrade(cl)
    \/ CountReads(cl)
    \/ CountWrites(cl)

-----------------------------------------------------------------------------
(* The administrator's forms, served by some process, and the clock.       *)

(* create: the read of the name and the insert, which its unique column    *)
(* guards, are one step.                                                   *)
CreateAccount(n, word) ==
    /\ ~Exists(n)
    /\ account' = [account EXCEPT ![n] = [NoAccount EXCEPT !.word = word]]
    /\ UNCHANGED <<verified, counter, clock, rowIds, call, guesses, contended>>

SetPassword(n, word, p) ==
    /\ Exists(n)
    /\ account' = [account EXCEPT ![n] = [@ EXCEPT !.word = word, !.weak = FALSE]]
    /\ verified' = [verified EXCEPT ![p] = {}]
    /\ UNCHANGED <<counter, clock, rowIds, call, guesses, contended>>

Suspend(n, disabled) ==
    /\ Exists(n)
    /\ account' = [account EXCEPT ![n].disabled = disabled]
    /\ UNCHANGED <<verified, counter, clock, rowIds, call, guesses, contended>>

DeleteAccount(n, p) ==
    /\ Exists(n)
    /\ account' = [account EXCEPT ![n] = NoAccount]
    /\ verified' = [verified EXCEPT ![p] = {}]
    /\ UNCHANGED <<counter, clock, rowIds, call, guesses, contended>>

(* The accounts page purges counters whose window and lock have passed; a  *)
(* cleared lockout loses its count as well.                                *)
DropCounters(gone) ==
    /\ counter' = [c \in Counters |-> IF c \in gone THEN NoCount ELSE counter[c]]
    /\ guesses' = [c \in Counters |-> IF c \in gone THEN 0 ELSE guesses[c]]
    /\ contended' = contended \cup {c \in gone : \E o \in Callers :
                                       At(o, "count") /\ call[o].counts = c}
    /\ UNCHANGED <<account, verified, clock, rowIds, call>>

PurgeLockouts ==
    LET gone == {c \in Counters : counter[c].row # 0
                                  /\ counter[c].last + Window + Lockout < clock}
    IN  gone # {} /\ DropCounters(gone)

ClearLockout(c) == counter[c].row # 0 /\ DropCounters({c})

(* Time passes: a lock runs out by itself.                                 *)
ClockTicks ==
    /\ clock' = clock + 1
    /\ guesses' = [c \in Counters |-> IF counter[c].until = clock + 1 THEN 0
                                      ELSE guesses[c]]
    /\ UNCHANGED <<account, verified, counter, rowIds, call, contended>>

(* A verification is forgotten: its time has passed, or it was displaced.  *)
Forget(p) ==
    /\ \E seen \in verified[p] :
         verified' = [verified EXCEPT ![p] = @ \ {seen}]
    /\ UNCHANGED <<account, counter, clock, rowIds, call, guesses, contended>>
=============================================================================
