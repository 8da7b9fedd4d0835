---------------------------- MODULE AccessControl ----------------------------
(***************************************************************************)
(* Requests of callers against the doors of the service, and               *)
(* administrators changing grants underneath them                          *)
(* (painfree.access, painfree.authn and every handler in Doors).           *)
(*                                                                         *)
(* A request is authenticated, then reads what its subject holds in two    *)
(* selects, builds a principal, and runs its handler with that principal.  *)
(* Grants are read on every request, so a change decides the next one.     *)
(* A change of a grant is three transactions: one that reads the row and   *)
(* writes it, one that appends to the audit trail, and one that re-reads   *)
(* the row.  Two administrators interleave between any of their steps.     *)
(***************************************************************************)
EXTENDS Doors, Naturals

CONSTANTS
    Subjects,       \* who may hold something
    Clients,        \* concurrent callers, each with one request at a time
    CredentialsOf,  \* client -> its credentials [subject, method, roles, claim]
    DoorsOf,        \* client -> the doors it knocks at
    Unset,          \* a field of a request that is not set
    MaxChanges,     \* bound: rows written to the grant and oversight tables
    MaxLost         \* bound: processes lost in the middle of a change

ASSUME ClientsAssumption ==
    \A cl \in Clients :
        /\ DoorsOf[cl] \subseteq EveryDoor
        /\ \A who \in CredentialsOf[cl] : who.subject \in Subjects

VARIABLES
    grant,      \* connection_grant: subject -> connection -> [level, id]
    oversight,  \* oversight_grant: subject -> row id, 0 for none
    serial,     \* row ids given out
    told,       \* what the trail last said of a subject at a place
    request,    \* client -> its request
    held,       \* ghost: client -> what its subject held since it arrived
    disputed,   \* ghost: pairs two changes were under way on at one time
    silent      \* ghost: pairs whose change was lost before its audit row

accessVars == <<grant, oversight, serial, told, request, held, disputed, silent>>

Places == Connections \cup {NoConnection}

NoRow == [level |-> NoLevel, id |-> 0]

GrantActs == {"grant", "change", "revoke"}

OversightActs == {"issue", "withdraw"}

ChangeActs == GrantActs \cup OversightActs

NoRequest ==
    [pc |-> "idle", credential |-> Unset, reads |-> Unset, principal |-> Unset,
     act |-> Unset, change |-> Unset, seen |-> 0, answer |-> Unset]

AccessInit ==
    /\ grant = [s \in Subjects |-> [c \in Connections |-> NoRow]]
    /\ oversight = [s \in Subjects |-> 0]
    /\ serial = 0
    /\ told = [s \in Subjects |-> [c \in Places |-> NoLevel]]
    /\ request = [cl \in Clients |-> NoRequest]
    /\ held = [cl \in Clients |-> {}]
    /\ disputed = {}
    /\ silent = {}

Tables == <<grant, oversight, serial, told>>

Ghosts == <<disputed, silent>>

(* The level the tables hold for a subject at a place.                     *)
InForce(s, c) ==
    IF c \in Connections THEN grant[s][c].level
    ELSE IF c = NoConnection /\ oversight[s] # 0 THEN "oversight"
    ELSE NoLevel

Pair(cl) == <<request[cl].change.subject, request[cl].change.connection>>

Changing(cl) ==
    request[cl].pc \in {"checking", "reading", "writing", "recording", "returning"}

Doing(cl, pc, acts) == request[cl].pc = pc /\ request[cl].act \in acts

Goes(cl, pc) == request' = [request EXCEPT ![cl].pc = pc]

AnswersWith(cl, answer) ==
    request' = [request EXCEPT ![cl].pc = "answered", ![cl].answer = answer]

(* A local account's role is this service's own value; a directory's name  *)
(* is mapped, and a session keeps only names that were.                    *)
IsAdministrator(who) ==
    CASE who.method = "basic"  -> "admin" \in who.roles
      [] who.method = "bearer" -> IsAdmin(RecognisedRoles(who.roles))
      [] OTHER                 -> IsAdmin(who.roles)

(* What a subject holds, as pairs of a place and a level.                  *)
Holding(s, rows, watch) ==
    {<<c, rows[s][c].level>> : c \in {d \in Connections : rows[s][d].id # 0}}
        \cup (IF watch[s] # 0 THEN {<<NoConnection, "oversight">>} ELSE {})

(* What each caller who is no administrator held since it arrived.         *)
NoteHeld ==
    held' = [cl \in Clients |->
               IF \/ request'[cl].pc = "idle"
                  \/ IsAdministrator(request'[cl].credential)
               THEN {}
               ELSE held[cl] \cup Holding(request'[cl].credential.subject,
                                          grant', oversight')]

Unmoved == UNCHANGED <<Tables, Ghosts>> /\ NoteHeld

-----------------------------------------------------------------------------
(* A request: who it is, what it holds, what the door answers.             *)

ChangesOf(act) ==
    CASE act \in GrantActs ->
             [subject : Subjects, connection : Connections \cup {Missing},
              level : IF act = "revoke" THEN {NoLevel} ELSE Levels]
      [] act \in OversightActs ->
             [subject : Subjects, connection : {NoConnection}, level : {NoLevel}]

Formed(door) ==
    IF \E i \in DOMAIN door.checks : door.checks[i] = Form
    THEN BOOLEAN ELSE {TRUE}

Arrive(cl) ==
    /\ request[cl].pc = "idle"
    /\ \E who \in CredentialsOf[cl] :
         request' = [request EXCEPT ![cl] =
                    [NoRequest EXCEPT !.pc = "arrived", !.credential = who]]
    /\ Unmoved

(* reach_for: two selects on one connection, each of its own moment.       *)
ReadGrants(cl) ==
    /\ request[cl].pc = "arrived"
    /\ LET s == request[cl].credential.subject IN
       request' = [request EXCEPT
                  ![cl].pc = "grants read",
                  ![cl].reads = [c \in Connections |-> grant[s][c].level]]
    /\ Unmoved

PrincipalOf(who, reads, watching) ==
    BuildPrincipal(IsAdministrator(who), reads, watching,
                   IF who.method = "bearer" THEN who.claim ELSE NoClaim)

ReadOversight(cl) ==
    /\ request[cl].pc = "grants read"
    /\ LET who == request[cl].credential IN
       request' = [request EXCEPT
                  ![cl].pc = "known", ![cl].reads = Unset,
                  ![cl].principal = PrincipalOf(who, request[cl].reads,
                                                oversight[who.subject] # 0)]
    /\ Unmoved

(* What the handler of a door answers: a function of the principal and the *)
(* request.  A request that is refused, or whose act leaves the tables     *)
(* alone, ends here.                                                       *)
Answer(cl, door, target, formed) ==
    Reply(request[cl].principal, door, target, formed)

ServeRequest(cl) ==
    /\ request[cl].pc = "known"
    /\ request' = [request EXCEPT ![cl] = NoRequest]
    /\ Unmoved

(* A change of a grant goes on in the store.                               *)
ServeChange(cl) ==
    /\ request[cl].pc = "known"
    /\ serial < MaxChanges
    /\ \E door \in {d \in DoorsOf[cl] : d.act \in ChangeActs} :
         /\ Answer(cl, door, NoConnection, TRUE) = "ok"
         /\ \E change \in ChangesOf(door.act) :
              LET pair == <<change.subject, change.connection>>
                  busy == \E other \in Clients : Changing(other) /\ Pair(other) = pair
              IN  /\ request' = [request EXCEPT
                                ![cl].pc = IF door.act = "change"
                                           THEN "checking" ELSE "reading",
                                ![cl].principal = Unset,
                                ![cl].act = door.act, ![cl].change = change]
                  /\ disputed' = disputed \cup
                                     (IF busy THEN {pair} \cap (Subjects \X Places) ELSE {})
    /\ UNCHANGED <<Tables, silent>>
    /\ NoteHeld

Finish(cl) ==
    /\ request[cl].pc = "answered"
    /\ request' = [request EXCEPT ![cl] = NoRequest]
    /\ Unmoved

-----------------------------------------------------------------------------
(* Grants.grant, behind PUT and PATCH /v1/grants and the console's forms.  *)

(* PATCH changes a grant that exists; the read is a transaction of its own.*)
CheckHeld(cl) ==
    /\ Doing(cl, "checking", {"change"})
    /\ LET ch == request[cl].change IN
       IF InForce(ch.subject, ch.connection) = NoLevel
       THEN AnswersWith(cl, "404") ELSE Goes(cl, "reading")
    /\ Unmoved

GrantReads(cl) ==
    /\ Doing(cl, "reading", {"grant", "change"})
    /\ LET ch == request[cl].change IN
       IF ch.connection = Missing
       THEN AnswersWith(cl, "404")
       ELSE request' = [request EXCEPT ![cl].pc = "writing",
                                 ![cl].seen = grant[ch.subject][ch.connection].id]
    /\ Unmoved

(* No row was seen: insert one, and the unique constraint refuses it if    *)
(* another change inserted first.                                          *)
GrantInserts(cl) ==
    LET ch == request[cl].change IN
    /\ Doing(cl, "writing", {"grant", "change"})
    /\ request[cl].seen = 0
    /\ IF grant[ch.subject][ch.connection].id # 0
       THEN AnswersWith(cl, "500") /\ UNCHANGED <<grant, serial>>
       ELSE /\ serial' = serial + 1
            /\ grant' = [grant EXCEPT ![ch.subject][ch.connection] =
                                         [level |-> ch.level, id |-> serial + 1]]
            /\ Goes(cl, "recording")
    /\ UNCHANGED <<oversight, told, Ghosts>>
    /\ NoteHeld

GrantKeepsLevel(cl) ==
    /\ Doing(cl, "writing", {"grant", "change"})
    /\ request[cl].seen # 0
    /\ Goes(cl, "recording")
    /\ UNCHANGED <<Tables, Ghosts>>
    /\ NoteHeld

(* A row was seen: update it by its id, which is no row once it is gone.   *)
GrantUpdates(cl) ==
    LET ch == request[cl].change IN
    /\ Doing(cl, "writing", {"grant", "change"})
    /\ request[cl].seen # 0
    /\ grant' = IF grant[ch.subject][ch.connection].id = request[cl].seen
                THEN [grant EXCEPT ![ch.subject][ch.connection].level = ch.level]
                ELSE grant
    /\ Goes(cl, "recording")
    /\ UNCHANGED <<oversight, serial, told, Ghosts>>
    /\ NoteHeld

GrantRecords(cl) ==
    LET ch == request[cl].change IN
    /\ Doing(cl, "recording", {"grant", "change"})
    /\ told' = [told EXCEPT ![ch.subject][ch.connection] = ch.level]
    /\ Goes(cl, "returning")
    /\ UNCHANGED <<grant, oversight, serial, Ghosts>>
    /\ NoteHeld

(* The row is read again for the response, and asserted to be there.       *)
GrantReturns(cl) ==
    LET ch == request[cl].change IN
    /\ Doing(cl, "returning", {"grant", "change", "issue"})
    /\ AnswersWith(cl, IF InForce(ch.subject, ch.connection) = NoLevel
                   THEN "500" ELSE "ok")
    /\ Unmoved

(* Grants.revoke.                                                          *)
RevokeReads(cl) ==
    LET ch == request[cl].change IN
    /\ Doing(cl, "reading", {"revoke", "withdraw"})
    /\ IF InForce(ch.subject, ch.connection) = NoLevel
       THEN AnswersWith(cl, "404") ELSE Goes(cl, "writing")
    /\ Unmoved

RevokeDeletes(cl) ==
    LET ch == request[cl].change IN
    /\ Doing(cl, "writing", {"revoke"})
    /\ grant' = [grant EXCEPT ![ch.subject][ch.connection] = NoRow]
    /\ Goes(cl, "recording")
    /\ UNCHANGED <<oversight, serial, told, Ghosts>>
    /\ NoteHeld

RevokeRecords(cl) ==
    LET ch == request[cl].change IN
    /\ Doing(cl, "recording", {"revoke", "withdraw"})
    /\ told' = [told EXCEPT ![ch.subject][ch.connection] = NoLevel]
    /\ AnswersWith(cl, "ok")
    /\ UNCHANGED <<grant, oversight, serial, Ghosts>>
    /\ NoteHeld

(* Grants.grant_oversight: issuing what is held changes nothing and is not *)
(* recorded; and Grants.revoke_oversight.                                  *)
IssueReads(cl) ==
    LET ch == request[cl].change IN
    /\ Doing(cl, "reading", {"issue"})
    /\ IF oversight[ch.subject] # 0
       THEN AnswersWith(cl, "ok") ELSE Goes(cl, "writing")
    /\ Unmoved

IssueInserts(cl) ==
    LET ch == request[cl].change IN
    /\ Doing(cl, "writing", {"issue"})
    /\ IF oversight[ch.subject] # 0
       THEN AnswersWith(cl, "500") /\ UNCHANGED <<oversight, serial>>
       ELSE /\ serial' = serial + 1
            /\ oversight' = [oversight EXCEPT ![ch.subject] = serial + 1]
            /\ Goes(cl, "recording")
    /\ UNCHANGED <<grant, told, Ghosts>>
    /\ NoteHeld

IssueRecords(cl) ==
    LET ch == request[cl].change IN
    /\ Doing(cl, "recording", {"issue"})
    /\ told' = [told EXCEPT ![ch.subject][ch.connection] = "oversight"]
    /\ Goes(cl, "returning")
    /\ UNCHANGED <<grant, oversight, serial, Ghosts>>
    /\ NoteHeld

WithdrawDeletes(cl) ==
    LET ch == request[cl].change IN
    /\ Doing(cl, "writing", {"withdraw"})
    /\ oversight' = [oversight EXCEPT ![ch.subject] = 0]
    /\ Goes(cl, "recording")
    /\ UNCHANGED <<grant, serial, told, Ghosts>>
    /\ NoteHeld

(* A process lost in the middle of a change: what was committed stays, and *)
(* a change committed before its audit row is never recorded.              *)
Lose(cl) ==
    /\ Changing(cl)
    /\ Cardinality(silent) < MaxLost
    /\ request' = [request EXCEPT ![cl] = NoRequest]
    /\ silent' = IF request[cl].pc = "recording" THEN silent \cup {Pair(cl)}
                 ELSE silent
    /\ UNCHANGED <<Tables, disputed>>
    /\ NoteHeld

-----------------------------------------------------------------------------
AccessNext ==
    \E cl \in Clients :
        \/ Arrive(cl) \/ ReadGrants(cl) \/ ReadOversight(cl) \/ ServeRequest(cl)
        \/ ServeChange(cl) \/ Finish(cl) \/ CheckHeld(cl) \/ GrantReads(cl)
        \/ GrantInserts(cl) \/ GrantUpdates(cl) \/ GrantRecords(cl)
        \/ GrantReturns(cl) \/ RevokeReads(cl) \/ RevokeDeletes(cl)
        \/ RevokeRecords(cl) \/ IssueReads(cl) \/ IssueInserts(cl)
        \/ IssueRecords(cl) \/ WithdrawDeletes(cl) \/ Lose(cl)

AccessSpec == AccessInit /\ [][AccessNext]_accessVars

-----------------------------------------------------------------------------
(* The type invariant: rows and the flag have ids that were given out, a   *)
(* request is at a step of its handler.                                    *)
TypeOK ==
    /\ grant \in [Subjects -> [Connections ->
                     [level : Levels \cup {NoLevel}, id : 0..MaxChanges + 2]]]
    /\ oversight \in [Subjects -> 0..MaxChanges + 2]
    /\ \A s \in Subjects, c \in Connections :
          (grant[s][c].id = 0) <=> (grant[s][c].level = NoLevel)
    /\ \A cl \in Clients :
          request[cl].pc \in {"idle", "arrived", "grants read", "known", "checking",
                           "reading", "writing", "recording", "returning",
                           "answered"}

(* Who may do what, from what was granted rather than from scopes: seeing  *)
(* a connection takes any grant on it or oversight; seeing where its events*)
(* go takes operating it or oversight; moving money, deciding about an     *)
(* order and running its downloads take operating it; the rest is an       *)
(* administrator's.                                                        *)
Mandated(act, c, holds, admin) ==
    LET onIt  == {hold \in holds : hold[1] = c /\ c \in Connections}
        runs  == <<c, "operator">> \in onIt
        over  == <<NoConnection, "oversight">> \in holds
    IN  \/ admin
        \/ act = "see own"
        \/ act \in {"see", "list", "overview"} /\ (onIt # {} \/ over)
        \/ act = "see endpoint" /\ (runs \/ over)
        \/ act \in {"pay", "decide", "schedule"} /\ runs

(* An act that was done was mandated by something its caller held at some  *)
(* moment since the request arrived, and a list shows only rows of         *)
(* connections that were: a revocation decides the next request (access.py *)
(* reach_for, "the session the revoked person is holding stops working").  *)
ActsWithinReach ==
    \A cl \in Clients : request[cl].pc = "known" =>
        LET admin == IsAdministrator(request[cl].credential) IN
        \A door \in DoorsOf[cl] :
          \A target \in Targets(door), formed \in Formed(door) :
            Answer(cl, door, target, formed) = "ok" =>
               IF door.act \in {"list", "overview"}
               THEN \A c \in Listed(request[cl].principal, door, target) :
                        Mandated(door.act, c, held[cl], admin)
               ELSE Mandated(door.act, target, held[cl], admin)

(* Whatever a caller asks of a connection it holds nothing on is answered  *)
(* as if the id named nothing (access.py, "a connection a caller holds no  *)
(* grant on does not exist").                                              *)
UngrantedLooksAbsent ==
    \A cl \in Clients : request[cl].pc = "known" =>
        LET p == request[cl].principal IN
        \A door \in DoorsOf[cl] :
          \A c \in Connections \cap Targets(door), formed \in Formed(door) :
            ~Visible(p, c) =>
               /\ Reply(p, door, c, formed) = Reply(p, door, Missing, formed)
               /\ Listed(p, door, c) = Listed(p, door, Missing)

(* The last audit row about a subject at a place says the level in force   *)
(* there, once no change is under way: Grants.grant's "both write the same *)
(* audit action with the level that is now in force".  The audit row is a  *)
(* transaction of its own, so the claim is for pairs changed one at a time *)
(* and never by a process that was lost in between.                        *)
TrailSaysLevelInForce ==
    \A s \in Subjects, c \in Places :
        (/\ <<s, c>> \notin disputed \cup silent
         /\ \A cl \in Clients : Changing(cl) => Pair(cl) # <<s, c>>) =>
            told[s][c] = InForce(s, c)

=============================================================================
