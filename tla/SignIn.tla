------------------------------- MODULE SignIn -------------------------------
(***************************************************************************)
(* How a request comes to be somebody's (painfree.authn, painfree.oidc):   *)
(* a Basic header, a bearer token or a session cookie; the sign-in form;   *)
(* the provider's login and its callback; signing out.                     *)
(*                                                                         *)
(* A deployment authenticates in one mode, against its own accounts        *)
(* (PasswordAccounts) or against a provider (SigningKeys).  A request      *)
(* carries the cookies its browser held when it was sent, and the cookies  *)
(* of its answer are the browser's once the answer arrives: two tabs of    *)
(* one browser interleave in between.                                      *)
(***************************************************************************)
EXTENDS PasswordAccounts, SigningKeys, Sequences

CONSTANTS
    Settings,   \* the deployments examined, see Setting
    LoginLasts, \* how long a login that was begun may be finished
    SessionLasts

VARIABLES
    setting,    \* the deployment: its mode, and the bounds of the instance
    browser,    \* browser -> the cookies it holds
    login,      \* rows of oidc_login, and the provider's side of each
    session,    \* rows of user_session
    spent,      \* what was used of each bound
    out         \* ghost: browsers that signed out and have not asked again

accountVars == <<account, verified, counter, clock, rowIds, call, guesses,
                 contended>>

webVars == <<browser, login, session, out>>

vars == <<accountVars, good, keysVars, setting, webVars, spent>>

Browsers == {"b1", "b2"}

Modes == {"basic", "oidc"}

Pages == {"page", "api", "bearer"}

Doors == Pages \cup {"login", "form", "callback", "logout"}

(* What a request may be told.                                            *)
Answers == {"admitted", "session", "redirect", "sign-in page", "signed out", "signed_out",
            "locked_out", "oversized_credential", "bad_credential", "error",
            "no_credential", "no_session", "bearer_not_configured", "unknown_kid",
            "state_mismatch", "state_unknown", "unavailable", "forbidden"}

(* A deployment: its mode, the tabs of each browser, the doors knocked at, *)
(* whether the words presented may be wrong, and the bounds.               *)
Setting == [mode : Modes, tabs : [Callers -> Browsers], doors : SUBSET Doors,
            words : SUBSET (Words \cup {Oversized}), names : SUBSET Names,
            accounts : SUBSET Names, weak : BOOLEAN, knocks : Nat, edits : Nat, ticks : Nat,
            rotations : Nat]

ASSUME SettingsAssumption ==
    /\ Settings \subseteq Setting
    /\ \A s \in Settings : \E w \in s.words : w # Oversized
    /\ LoginLasts \in Nat /\ SessionLasts \in Nat
    /\ Nothing \notin Doors \cup Answers

Spends(what) ==
    /\ spent[what] < setting[what]
    /\ spent' = [spent EXCEPT ![what] = @ + 1]

Idle == [pc |-> "idle", door |-> Nothing, name |-> Nothing, word |-> Nothing,
         now |-> 0, row |-> Nothing, read |-> NoCount, counts |-> Nothing,
         cookie |-> 0, marker |-> FALSE, state |-> 0, link |-> 0,
         kid |-> Nothing, after |-> FALSE, answer |-> Nothing]

NoCookies == [cookie |-> 0, marker |-> FALSE, state |-> 0]

LoginRows == DOMAIN login

SessionRows == DOMAIN session

LiveIn(rows, id, now) ==
    id \in DOMAIN rows /\ ~rows[id].revoked /\ rows[id].expires > now

Basic == setting.mode = "basic"

Init ==
    /\ setting \in Settings
    /\ account = [n \in Names |->
                    IF n \in setting.accounts /\ Basic
                    THEN [word |-> CHOOSE w \in setting.words : w # Oversized,
                          weak |-> setting.weak, disabled |-> FALSE]
                    ELSE NoAccount]
    /\ verified = [p \in Processes |-> {}]
    /\ counter = [c \in Counters |-> NoCount]
    /\ guesses = [c \in Counters |-> 0]
    /\ clock = 1
    /\ rowIds = 0
    /\ contended = {}
    /\ call = [cl \in Callers |-> Idle]
    /\ good = [cl \in Callers |-> FALSE]
    /\ published = IF Basic THEN {} ELSE {CHOOSE k \in Kids : TRUE}
    /\ keys = [p \in Processes |-> NoKeys]
    /\ lastSeen = [k \in Kids |-> 0]
    /\ missed = {}
    /\ browser = [b \in Browsers |-> NoCookies]
    /\ login = <<>>
    /\ session = <<>>
    /\ spent = [w \in {"knocks", "edits", "ticks", "rotations"} |-> 0]
    /\ out = {}

Browser(cl) == setting.tabs[cl]

(* What a step sees of the credentials that are under way.                 *)
Observe ==
    good' = [cl \in Callers |->
               LET knock == call'[cl]
                   row   == account'[knock.name]
               IN  /\ knock.pc # "idle"
                   /\ \/ good[cl]
                      \/ IF knock.word # Nothing
                         THEN Opens(row, knock.word) /\ ~row.disabled
                         ELSE LiveIn(session', knock.cookie, clock')]

-----------------------------------------------------------------------------
(* The browser.                                                            *)

(* A Basic header is a program's own, and a browser's from its first use   *)
(* on; nobody sends one with a sign-out.                                   *)
NoHeader == [name |-> Nothing, word |-> Nothing]

Headers == {[name |-> h[1], word |-> h[2]] : h \in setting.names \X setting.words}

HeadersAt(door) ==
    IF ~Basic \/ door = "logout" THEN {NoHeader}
    ELSE IF door \in {"api", "form"} THEN Headers
    ELSE Headers \cup {NoHeader}

(* The cookies a request carries: those its browser holds by then.         *)
CookiesAt(cl, door) ==
    IF door \in {"api", "bearer"} THEN NoCookies ELSE browser[Browser(cl)]

Asked(cl, door, header, kid) ==
    LET cookies == CookiesAt(cl, door) IN
    [Idle EXCEPT !.pc = "sent", !.door = door, !.kid = kid,
                 !.name = header.name, !.word = header.word,
                 !.cookie = cookies.cookie, !.marker = cookies.marker,
                 !.state = cookies.state, !.after = Browser(cl) \in out]

(* A page, a program's call, the sign-in form or a sign-out is sent.       *)
Send(cl, door) ==
    /\ At(cl, "idle")
    /\ door \in setting.doors \ {"callback"}
    /\ Spends("knocks")
    /\ \E header \in HeadersAt(door), kid \in IF door = "bearer" THEN Kids ELSE {Nothing} :
         call' = [call EXCEPT ![cl] = Asked(cl, door, header, kid)]
    /\ out' = IF door = "form" THEN out \ {Browser(cl)} ELSE out
    /\ UNCHANGED <<account, verified, counter, clock, rowIds, guesses, contended,
                   keysVars, setting, browser, login, session>>

(* The provider sends the browser back; the same address can be asked for  *)
(* again, in any browser, for as long as somebody has it.                  *)
SendCallback(cl) ==
    /\ At(cl, "idle")
    /\ "callback" \in setting.doors
    /\ Spends("knocks")
    /\ \E l \in {x \in LoginRows : login[x].answered} :
         call' = [call EXCEPT ![cl] =
                    [Idle EXCEPT !.pc = "sent", !.door = "callback", !.link = l,
                                 !.state = browser[Browser(cl)].state]]
    /\ out' = out \ {Browser(cl)}
    /\ UNCHANGED <<account, verified, counter, clock, rowIds, guesses, contended,
                   keysVars, setting, browser, login, session>>

(* The provider has seen the person behind the browser.                    *)
ProviderAnswers(l) ==
    /\ ~login[l].answered
    /\ login' = [login EXCEPT ![l].answered = TRUE]
    /\ UNCHANGED <<accountVars, keysVars, setting, browser, session, spent, out>>

(* The answer arrives, with the cookies it sets.                           *)
Cookies(knock, had) ==
    CASE knock.answer = "session" ->
             [had EXCEPT !.cookie = knock.cookie, !.marker = FALSE,
                         !.state = IF knock.door = "callback" THEN 0 ELSE @]
      [] knock.answer = "sign-in page" /\ knock.door = "login" ->
             [had EXCEPT !.marker = IF knock.marker THEN FALSE ELSE @]
      [] knock.answer = "redirect" -> [had EXCEPT !.state = knock.state]
      [] knock.answer = "signed out" ->
             [NoCookies EXCEPT !.marker = Basic]
      [] OTHER -> had

SigningIn(b) == \E cl \in Callers : /\ Browser(cl) = b
                                    /\ call[cl].door \in {"login", "form", "callback"}

Receive(cl) ==
    LET b == Browser(cl) IN
    /\ At(cl, "answered")
    /\ browser' = [browser EXCEPT ![b] = Cookies(call[cl], browser[b])]
    /\ out' = IF call[cl].answer = "signed out" /\ ~SigningIn(b) THEN out \cup {b}
              ELSE IF call[cl].door = "login" THEN out \ {b}
              ELSE out
    /\ call' = [call EXCEPT ![cl] = Idle]
    /\ UNCHANGED <<account, verified, counter, clock, rowIds, guesses, contended,
                   keysVars, setting, login, session, spent>>

-----------------------------------------------------------------------------
(* resolve: an explicit header wins over a cookie.                         *)

Serves(cl, doors) == At(cl, "sent") /\ call[cl].door \in doors

AnswerIs(cl, answer) ==
    call' = [call EXCEPT ![cl].pc = "answered", ![cl].answer = answer]

Rest == <<account, verified, counter, clock, rowIds, guesses, contended,
          setting, spent, out>>

MarkerUnread(cl) ==
    /\ Serves(cl, {"page", "api"})
    /\ call[cl].word # Nothing
    /\ To(cl, "knocking")
    /\ UNCHANGED <<Rest, keysVars, browser, login, session>>

(* from_basic: only in this mode, and not while the marker of a browser    *)
(* that signed out is with a navigation.                                   *)
FromBasic(cl) ==
    /\ Serves(cl, {"page", "api"})
    /\ call[cl].word # Nothing
    /\ IF call[cl].door = "page" /\ call[cl].marker
       THEN AnswerIs(cl, "signed_out") ELSE To(cl, "knocking")
    /\ UNCHANGED <<Rest, keysVars, browser, login, session>>

(* from_session: the row is read, and is live or the request is refused.   *)
FromSession(cl) ==
    /\ Serves(cl, {"page"})
    /\ call[cl].word = Nothing
    /\ AnswerIs(cl, IF call[cl].cookie = 0 THEN "no_credential"
                    ELSE IF LiveIn(session, call[cl].cookie, clock) THEN "admitted"
                    ELSE "no_session")
    /\ UNCHANGED <<Rest, keysVars, browser, login, session>>

(* from_bearer: the key that signed the token is asked for.                *)
FromBearer(cl) ==
    /\ Serves(cl, {"bearer"})
    /\ IF Basic
       THEN AnswerIs(cl, "bearer_not_configured") /\ UNCHANGED keysVars
       ELSE \E up \in BOOLEAN :
              LET p == ProcessOf[cl] IN
              /\ GetKey(p, call[cl].kid, clock, up)
              /\ AnswerIs(cl, IF call[cl].kid \in keys'[p].kids
                              THEN "admitted" ELSE "unknown_kid")
    /\ UNCHANGED <<Rest, browser, login, session>>

(* An accepted password admits a page, and signs in at the others.         *)
Accepted(cl) ==
    /\ At(cl, "accepted")
    /\ IF call[cl].door \in Pages
       THEN AnswerIs(cl, "admitted") ELSE To(cl, "establishing")
    /\ UNCHANGED <<Rest, keysVars, browser, login, session>>

(* GET /auth/login in the basic mode: a header that was not asked for      *)
(* signs in, unless this browser signed out; otherwise the form.           *)
LoginPage(cl) ==
    /\ Basic
    /\ Serves(cl, {"login"})
    /\ IF call[cl].word # Nothing /\ ~call[cl].marker
       THEN To(cl, "knocking") ELSE AnswerIs(cl, "sign-in page")
    /\ UNCHANGED <<Rest, keysVars, browser, login, session>>

(* POST /auth/login.                                                       *)
SignInForm(cl) ==
    /\ Serves(cl, {"form"})
    /\ IF Basic THEN To(cl, "knocking") ELSE AnswerIs(cl, "forbidden")
    /\ UNCHANGED <<Rest, keysVars, browser, login, session>>

(* GET /auth/login against a provider: LoginStore.begin, and the browser   *)
(* is sent away with the state in a cookie.                                *)
LoginBegins(cl) ==
    /\ ~Basic
    /\ Serves(cl, {"login"})
    /\ login' = Append(login, [by |-> Browser(cl), expires |-> clock + LoginLasts,
                               consumed |-> FALSE, answered |-> FALSE,
                               asked |-> 0])
    /\ call' = [call EXCEPT ![cl].pc = "answered", ![cl].answer = "redirect",
                            ![cl].state = Len(login) + 1]
    /\ UNCHANGED <<Rest, keysVars, browser, session>>

(* GET /auth/callback: the state is the browser's own, and LoginStore.claim*)
(* consumes it once.                                                       *)
CallbackArrives(cl) ==
    /\ Serves(cl, {"callback"})
    /\ IF call[cl].state # call[cl].link
       THEN Refuse(cl, "state_mismatch") ELSE To(cl, "claiming")
    /\ UNCHANGED <<Rest, keysVars, browser, login, session>>

ClaimUnexpired(cl) ==
    LET l == call[cl].state IN
    /\ At(cl, "claiming")
    /\ IF login[l].expires <= clock
       THEN Refuse(cl, "state_unknown") /\ UNCHANGED login
       ELSE /\ login' = [login EXCEPT ![l].consumed = TRUE]
            /\ call' = [call EXCEPT ![cl].pc = "exchanging"]
    /\ UNCHANGED <<Rest, keysVars, browser, session>>

ClaimLogin(cl) ==
    LET l == call[cl].state IN
    /\ At(cl, "claiming")
    /\ IF login[l].consumed \/ login[l].expires <= clock
       THEN Refuse(cl, "state_unknown") /\ UNCHANGED login
       ELSE /\ login' = [login EXCEPT ![l].consumed = TRUE]
            /\ call' = [call EXCEPT ![cl].pc = "exchanging"]
    /\ UNCHANGED <<Rest, keysVars, browser, session>>

(* The code is traded at the token endpoint, which may not answer.         *)
ExchangeCode(cl) ==
    LET l == call[cl].state IN
    /\ At(cl, "exchanging")
    /\ \/ /\ login' = [login EXCEPT ![l].asked = @ + 1]
          /\ \E kid \in published :
               call' = [call EXCEPT ![cl].pc = "identifying", ![cl].kid = kid]
       \/ AnswerIs(cl, "unavailable") /\ UNCHANGED login
    /\ UNCHANGED <<Rest, keysVars, browser, session>>

(* The id_token is held to a published key.                                *)
VerifyIdToken(cl) ==
    LET p == ProcessOf[cl] IN
    /\ At(cl, "identifying")
    /\ \E up \in BOOLEAN :
         /\ GetKey(p, call[cl].kid, clock, up)
         /\ IF call[cl].kid \in keys'[p].kids
            THEN To(cl, "establishing") ELSE AnswerIs(cl, "unknown_kid")
    /\ UNCHANGED <<Rest, browser, login, session>>

(* SessionStore.create, for an account or for an answered login.           *)
EstablishSession(cl) ==
    /\ At(cl, "establishing")
    /\ session' = Append(session, [expires |-> clock + SessionLasts,
                                   revoked |-> FALSE, by |-> Browser(cl),
                                   login |-> IF Basic THEN 0 ELSE call[cl].state])
    /\ call' = [call EXCEPT ![cl].pc = "answered", ![cl].answer = "session",
                            ![cl].cookie = Len(session) + 1]
    /\ UNCHANGED <<Rest, keysVars, browser, login>>

(* GET /auth/logout: the session of the cookie is revoked.                 *)
Logout(cl) ==
    LET id == call[cl].cookie IN
    /\ Serves(cl, {"logout"})
    /\ session' = IF id \in SessionRows
                  THEN [session EXCEPT ![id].revoked = TRUE] ELSE session
    /\ AnswerIs(cl, "signed out")
    /\ UNCHANGED <<Rest, keysVars, browser, login>>

-----------------------------------------------------------------------------
(* The administrator's forms, the provider's rotations, and time.          *)

Elsewhere == UNCHANGED <<keysVars, setting, webVars>>

Administer ==
    /\ Basic
    /\ Spends("edits")
    /\ \E n \in setting.accounts :
         \/ \E w \in Words : CreateAccount(n, w)
         \/ \E w \in Words, p \in Processes : SetPassword(n, w, p)
         \/ \E disabled \in BOOLEAN : Suspend(n, disabled)
         \/ \E p \in Processes : DeleteAccount(n, p)
    /\ Elsewhere

ClearsLockout ==
    /\ Spends("edits")
    /\ \E c \in Counters : ClearLockout(c)
    /\ Elsewhere

PurgesLockouts == PurgeLockouts /\ Elsewhere /\ UNCHANGED spent

Ticks == Spends("ticks") /\ ClockTicks /\ Elsewhere

Forgets == \E p \in Processes : Forget(p) /\ Elsewhere /\ UNCHANGED spent

Rotates ==
    /\ ~Basic
    /\ Spends("rotations")
    /\ \E kid \in Kids : Publish(kid, clock) \/ Withdraw(kid, clock)
    /\ UNCHANGED <<accountVars, setting, webVars>>

Authenticates(cl) == Authenticate(cl) /\ Elsewhere /\ UNCHANGED spent

Serve(cl) ==
    \/ FromBasic(cl)
    \/ FromSession(cl)
    \/ FromBearer(cl)
    \/ LoginPage(cl)
    \/ SignInForm(cl)
    \/ LoginBegins(cl)
    \/ CallbackArrives(cl)
    \/ ClaimLogin(cl)
    \/ ExchangeCode(cl)
    \/ VerifyIdToken(cl)
    \/ Accepted(cl)
    \/ EstablishSession(cl)
    \/ Logout(cl)

Next ==
    /\ \/ \E cl \in Callers :
            \/ \E door \in Doors : Send(cl, door)
            \/ SendCallback(cl)
            \/ Receive(cl)
            \/ Authenticates(cl)
            \/ Serve(cl)
       \/ \E l \in LoginRows : ProviderAnswers(l)
       \/ Administer
       \/ ClearsLockout
       \/ PurgesLockouts
       \/ Ticks
       \/ Forgets
       \/ Rotates
    /\ Observe

Spec == Init /\ [][Next]_vars

-----------------------------------------------------------------------------
(* A request that was let in, by a password or by a session, carried a     *)
(* credential that was in force at some moment since it was sent: the      *)
(* password of an account that was not suspended, or a session neither     *)
(* revoked nor over.  What a process remembers of verifications, and what  *)
(* other processes do to the account, never lets an older one in           *)
(* (authenticate, _VerificationCache, SessionStore.lookup).                *)
AdmittedIsCurrent ==
    \A cl \in Callers :
        (/\ call[cl].answer \in {"admitted", "session"}
         /\ call[cl].door \notin {"bearer", "callback"}) => good[cl]

(* A name or a source is guessed at no more often than its threshold, and  *)
(* once more by each request that had passed the check of the lock before  *)
(* it was taken, until the count is cleared or runs out - as long as no    *)
(* other transaction came between the read of the count and its write      *)
(* (_locked, _count).                                                      *)
GuessesBounded ==
    \A c \in Counters \ contended :
        guesses[c] < Threshold(c) + Cardinality(Callers)

(* A browser that signed out, and has not asked to sign in since, opens no *)
(* page and is given no session, whatever credential it goes on sending    *)
(* (the signed-out marker of from_basic and login, logout).                *)
SignedOutStays ==
    \A cl \in Callers :
        call[cl].after /\ call[cl].door \in {"page", "login"}
            => call[cl].answer \notin {"admitted", "session"}

(* The token endpoint is asked once for a login, whichever callbacks race  *)
(* or are repeated, and at most one session answers it, in the browser     *)
(* that began it (LoginStore.claim, callback).                             *)
LoginAnsweredOnce ==
    \A l \in LoginRows :
        LET made == {id \in SessionRows : session[id].login = l} IN
        /\ login[l].asked <= 1
        /\ Cardinality(made) <= login[l].asked
        /\ \A id \in made : session[id].by = login[l].by

(* A process whose last fetch was answered takes a key only if the         *)
(* provider published it within the life of a fetched set, and refuses a   *)
(* published one only in the moment after a fetch (JwksCache.get).         *)
KeysAreCurrent ==
    \A p \in Processes \ missed, kid \in Kids :
        LET taken == kid \in Known(p, kid, clock, TRUE).kids IN
        /\ taken => kid \in published \/ lastSeen[kid] + KeysLast > clock
        /\ kid \in published /\ ~taken => clock < keys[p].at + KeysRest
=============================================================================
