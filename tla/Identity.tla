------------------------------ MODULE Identity ------------------------------
(***************************************************************************)
(* Who a caller is and what it may do: the privilege model of              *)
(* painfree.identity and the guard of painfree.access, as pure operators.  *)
(*                                                                         *)
(* A principal is assembled once per request from the role its credential  *)
(* carries, the grants and the oversight flag read from the database, and  *)
(* the `scope` claim of a token that carries one.  Everything a handler    *)
(* asks about the caller is asked of that value.                           *)
(***************************************************************************)
EXTENDS FiniteSets

CONSTANTS
    Connections,    \* the bank connections of the deployment
    NoConnection,   \* what belongs to no connection: connection_id is NULL
    NoLevel,        \* no grant of a subject on a connection
    NoClaim,        \* a credential without a `scope` claim
    AdminNames,     \* what the directory calls an administrator
    MemberNames     \* the other role names this deployment maps

ASSUME ConnectionsAssumption == NoConnection \notin Connections

ReadScopes ==
    {"connections:read", "payments:read", "statements:read", "audit:read",
     "webhooks:read", "schedules:read"}

WriteScopes ==
    {"connections:write", "payments:submit", "orders:replay",
     "webhooks:manage", "schedules:manage"}

Scope == ReadScopes \cup WriteScopes

Levels == {"viewer", "operator"}

ASSUME LevelsAssumption == NoLevel \notin Levels

(* What each level carries on the connection its grant names.              *)
LevelScopes(level) ==
    LET viewer == ReadScopes \ {"webhooks:read"} IN
    CASE level = "viewer"   -> viewer
      [] level = "operator" -> viewer \cup {"payments:submit", "orders:replay",
                                            "webhooks:read", "schedules:manage"}
      [] OTHER              -> {}

(* Oversight carries every scope named for reading, on every connection,   *)
(* and an administrator every scope there is.                              *)
OversightScopes == ReadScopes

AdminScopes == Scope

(* The role names of the claim this deployment maps; the others survive as *)
(* a count and decide nothing.                                             *)
RecognisedRoles(claimed) == claimed \cap (AdminNames \cup MemberNames)

IsAdmin(roles) == roles \cap AdminNames # {}

-----------------------------------------------------------------------------
(* The principal of a role, grants (a level or NoLevel per connection),    *)
(* the oversight flag and the scopes a token asked for.  An administrator's*)
(* reach is not expressed as grants.  A claim that names no scope of this  *)
(* service narrows nothing; one that does intersects and never adds.       *)

Granted(admin, grants, oversight) ==
    IF admin
    THEN AdminScopes
    ELSE (UNION {LevelScopes(grants[c]) : c \in Connections})
            \cup (IF oversight THEN OversightScopes ELSE {})

Narrowed(granted, requested) ==
    LET asked == IF requested = NoClaim THEN {} ELSE requested \cap Scope
    IN  IF asked = {} THEN granted ELSE granted \cap asked

BuildPrincipal(admin, grants, oversight, requested) ==
    [admin     |-> admin,
     grants    |-> [c \in Connections |-> IF admin THEN NoLevel ELSE grants[c]],
     oversight |-> oversight /\ ~admin,
     scopes    |-> Narrowed(Granted(admin, grants, oversight), requested)]

(* Does the caller hold every one of these scopes anywhere at all?         *)
HasAll(p, scopes) == scopes \subseteq p.scopes

LevelOn(p, c) == IF c \in Connections THEN p.grants[c] ELSE NoLevel

ScopesOn(p, c) ==
    IF p.admin
    THEN p.scopes
    ELSE p.scopes \cap (LevelScopes(LevelOn(p, c))
                            \cup (IF p.oversight THEN OversightScopes ELSE {}))

(* Does the caller hold this scope on this connection?  What belongs to no *)
(* connection is reached by an administrator and, for reading, by          *)
(* oversight.                                                              *)
May(p, scope, c) ==
    IF p.admin \/ (p.oversight /\ scope \in OversightScopes)
    THEN scope \in p.scopes
    ELSE c # NoConnection /\ scope \in ScopesOn(p, c)

-----------------------------------------------------------------------------
(* painfree.access: may the caller be told this connection exists, what a  *)
(* handler answers it, and what a list is narrowed to.                     *)

Visible(p, c) == p.admin \/ p.oversight \/ LevelOn(p, c) # NoLevel

Require(p, c, scopes) ==
    IF ~Visible(p, c) THEN "404"
    ELSE IF \A s \in scopes : May(p, s, c) THEN "ok" ELSE "403"

VisibleConnections(p) ==
    IF p.admin \/ p.oversight
    THEN Connections \cup {NoConnection}
    ELSE {c \in Connections : p.grants[c] # NoLevel}

(* The rows a list query keeps, by the connection each names: a filter     *)
(* naming a connection the caller does not hold keeps none.                *)
RestrictTo(p, requested) ==
    IF requested = NoConnection
    THEN VisibleConnections(p)
    ELSE {requested} \cap VisibleConnections(p)
=============================================================================
