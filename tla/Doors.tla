-------------------------------- MODULE Doors --------------------------------
(***************************************************************************)
(* The doors of the service: every route of /v1 and of the console, as the *)
(* sequence of checks its handler makes before it acts.                    *)
(*                                                                         *)
(* A check is one call the handlers are built from: a scope asked for      *)
(* anywhere (painfree.authn.requires), a scope asked for on the connection *)
(* a path or a loaded row names (requires_on, access.require), the load of *)
(* that row, the parse of a body or form, and the administrator guard.     *)
(* The first check that fails gives the answer.  What a handler does when  *)
(* they all pass is its act; routes with the same checks, target and act   *)
(* are one door.  Rendering and what the stores refuse later are left out. *)
(***************************************************************************)
EXTENDS Identity, Sequences, FiniteSetsExt

CONSTANT Missing    \* an id that names nothing

ASSUME MissingAssumption == Missing \notin Connections \cup {NoConnection}

Asks(scope)   == [is |-> "asks", scope |-> scope]
AsksOn(scope) == [is |-> "asks on", scope |-> scope]
Administrator == [is |-> "administrator"]
Loads         == [is |-> "loads"]
Form          == [is |-> "form"]

Door(what, checks, act) == [what |-> what, checks |-> checks, act |-> act]

(* Targets a request of a door can name.  Only subscriptions and lists can *)
(* name no connection: for a list it means that nothing was filtered.      *)
Targets(door) ==
    LET ids == Connections \cup {Missing} IN
    CASE door.what \in {"nothing", "grant"}   -> {NoConnection}
      [] door.what \in {"webhook", "filter"} -> ids \cup {NoConnection}
      [] OTHER                               -> ids

RowDoor(what, scope, act) ==
    Door(what, <<Asks(scope), Loads, AsksOn(scope)>>, act)

-----------------------------------------------------------------------------
(* /v1.                                                                    *)

ApiPayments ==
    {Door("connection",
          <<AsksOn("payments:submit"), Form, Loads>>, "pay"),
     RowDoor("order", "payments:read", "see")}

ApiConnections ==
    {Door("filter", <<>>, "list"),
     Door("nothing", <<Asks("connections:write"), Form>>, "deploy")}

ApiAudit == {Door("filter", <<Asks("audit:read")>>, "list")}

(* One loader for every route that names a subscription, and for a         *)
(* schedule.                                                               *)
HeldSubscription(scope) == <<Loads, AsksOn(scope)>>

HeldScheduleUnasked(scope) == <<Loads>>

HeldSchedule(scope) == <<Loads, AsksOn(scope)>>

ApiWebhooks ==
    {Door("filter", <<Asks("webhooks:read")>>, "list"),
     Door("webhook", <<Asks("webhooks:manage"), Form, Loads>>, "deploy"),
     RowDoor("webhook", "webhooks:read", "see endpoint")}

ApiWebhookChanges ==
    {Door("webhook", <<Asks("webhooks:manage"), Form>>
                        \o HeldSubscription("webhooks:manage"), "deploy"),
     Door("webhook", <<Asks("webhooks:read")>>
                        \o HeldSubscription("webhooks:read"), "see endpoint")}

ApiSchedules ==
    {Door("filter", <<Asks("schedules:read")>>, "list"),
     Door("connection",
          <<Asks("schedules:manage"), Form, AsksOn("schedules:manage"), Loads>>,
          "schedule")}

ApiScheduleChanges ==
    {Door("schedule", <<Asks("schedules:read")>>
                        \o HeldSchedule("schedules:read"), "see"),
     Door("schedule", <<Asks("schedules:manage"), Form>>
                        \o HeldSchedule("schedules:manage"), "schedule")}

ApiGrants ==
    {Door("nothing", <<Administrator>>, "see people"),
     Door("grant", <<Administrator, Form>>, "grant"),
     Door("grant", <<Administrator, Form>>, "change"),
     Door("grant", <<Administrator>>, "revoke")}

ApiOversight ==
    {Door("nothing", <<Administrator>>, "see people"),
     Door("nothing", <<Administrator, Form>>, "issue"),
     Door("nothing", <<Administrator>>, "withdraw")}

ApiAccounts ==
    {Door("nothing", <<Administrator>>, "see people"),
     Door("nothing", <<Administrator, Form>>, "account")}

-----------------------------------------------------------------------------
(* The console.                                                            *)

ConsoleConnections ==
    {Door("filter", <<>>, "list"),
     Door("nothing", <<Asks("connections:write"), Form>>, "deploy"),
     Door("connection", <<AsksOn("connections:read"), Loads>>, "see"),
     Door("connection", <<AsksOn("connections:write"), Loads, Form>>, "deploy")}

ConsoleKeys ==
    {Door("connection", <<AsksOn("connections:read"), Loads>>, "see"),
     Door("connection", <<AsksOn("connections:write"), Form, Loads>>, "deploy")}

ConsoleRecovery ==
    {Door("nothing", <<>>, "see own"),
     Door("nothing", <<Asks("connections:write")>>, "deploy"),
     Door("connection", <<AsksOn("connections:read"), Loads>>, "see")}

(* The access check of a replay precedes its confirmation.                 *)
ConsoleOrders ==
    {Door("filter", <<Asks("payments:read")>>, "list"),
     RowDoor("order", "payments:read", "see"),
     RowDoor("order", "orders:replay", "decide")}

ConsoleReplayConfirmedFirst ==
    {Door("order",
          <<Asks("orders:replay"), Loads, Form, AsksOn("orders:replay")>>,
          "decide")}

ConsoleReplay ==
    {Door("order",
          <<Asks("orders:replay"), Loads, AsksOn("orders:replay"), Form>>,
          "decide")}

ConsoleStatement == {RowDoor("statement", "statements:read", "see")}

ConsoleSchedules ==
    {Door("filter", <<Asks("schedules:read")>>, "list"),
     Door("filter", <<Asks("schedules:manage")>>, "list"),
     Door("connection",
          <<Asks("schedules:manage"), Form, AsksOn("schedules:manage"), Loads>>,
          "schedule"),
     RowDoor("schedule", "schedules:read", "see")}

ConsoleScheduleActions ==
    {Door("schedule",
          <<Asks("schedules:manage"), Loads, AsksOn("schedules:manage"), Form>>,
          "schedule")}

ConsoleWebhooks ==
    {Door("filter", <<Asks("webhooks:read")>>, "list"),
     Door("webhook", <<Asks("webhooks:manage"), Form, Loads>>, "deploy"),
     RowDoor("webhook", "webhooks:read", "see endpoint")}

ConsoleWebhookActions ==
    {Door("webhook",
          <<Asks("webhooks:manage"), Loads, AsksOn("webhooks:manage"), Form>>,
          "deploy")}

ConsoleDeliveries ==
    {RowDoor("webhook", "webhooks:manage", "deploy"),
     RowDoor("order", "webhooks:manage", "deploy")}

ConsoleReturns ==
    {Door("order",
          <<Asks("orders:replay"), Loads, AsksOn("orders:replay"), Form>>,
          "decide")}

(* The overview offers every account the caller may see, and a connection  *)
(* it does not hold matches none of them.                                  *)
ConsoleStatements ==
    {Door("filter", <<Asks("statements:read")>>, "list"),
     Door("filter", <<Asks("statements:read")>>, "overview")}

ConsoleReread ==
    {Door("connection",
          <<Asks("schedules:manage"), Form, AsksOn("schedules:manage")>>,
          "schedule")}

ConsolePayment ==
    {Door("connection", <<AsksOn("payments:submit"), Loads>>, "pay"),
     Door("connection", <<AsksOn("payments:submit"), Loads, Form>>, "pay")}

ConsoleCatalogue ==
    {Door("connection", <<AsksOn("connections:read"), Loads>>, "see")}

ConsoleAudit == {Door("filter", <<Asks("audit:read")>>, "list")}

ConsoleReference == {Door("nothing", <<>>, "see own")}

ConsoleAccess ==
    {Door("nothing", <<Administrator>>, "see people"),
     Door("grant", <<Administrator, Form>>, "grant"),
     Door("grant", <<Administrator, Form>>, "revoke"),
     Door("nothing", <<Administrator, Form>>, "issue"),
     Door("nothing", <<Administrator, Form>>, "withdraw")}

(* These handlers name the form before the guard: a form that cannot be    *)
(* read is answered before the caller is.                                  *)
ConsoleAccounts ==
    {Door("nothing", <<Administrator>>, "see people"),
     Door("nothing", <<Form, Administrator>>, "account")}

EveryDoor ==
    UNION {ApiPayments, ApiConnections, ApiAudit, ApiWebhooks,
           ApiWebhookChanges, ApiSchedules, ApiScheduleChanges, ApiGrants,
           ApiOversight, ApiAccounts, ConsoleConnections, ConsoleKeys,
           ConsoleRecovery, ConsoleOrders, ConsoleReplay, ConsoleStatement,
           ConsoleSchedules, ConsoleScheduleActions, ConsoleWebhooks,
           ConsoleWebhookActions, ConsoleDeliveries, ConsoleReturns,
           ConsoleStatements, ConsoleReread, ConsolePayment, ConsoleCatalogue,
           ConsoleAudit, ConsoleReference, ConsoleAccess, ConsoleAccounts}

-----------------------------------------------------------------------------
(* What one check answers the principal, and what the door does.           *)

Outcome(p, check, target, formed) ==
    CASE check.is = "asks"          -> IF HasAll(p, {check.scope}) THEN "ok"
                                       ELSE "403"
      [] check.is = "asks on"       -> Require(p, target, {check.scope})
      [] check.is = "administrator" -> IF p.admin THEN "ok" ELSE "403"
      [] check.is = "loads"         -> IF target = Missing THEN "404" ELSE "ok"
      [] check.is = "form"          -> IF formed THEN "ok" ELSE "refused form"

Reply(p, door, target, formed) ==
    LET failing == {i \in DOMAIN door.checks :
                        Outcome(p, door.checks[i], target, formed) # "ok"}
    IN  IF failing = {}
        THEN "ok"
        ELSE Outcome(p, door.checks[Min(failing)], target, formed)

(* The connections whose rows a list shows.                                *)
Listed(p, door, target) ==
    CASE door.act = "list"     -> RestrictTo(p, target)
      [] door.act = "overview" ->
             LET mine == Connections \cap VisibleConnections(p)
             IN  IF target \in mine THEN {target} ELSE mine
      [] OTHER                 -> {}
=============================================================================
