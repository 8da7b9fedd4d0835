--------------------------- MODULE MCAccessControl ---------------------------
(* Two connections; anna calls with every kind of credential, one of them  *)
(* an administrator's, and bert is an administrator who changes grants.    *)
EXTENDS AccessControl, TLC

CONSTANTS anna, bert

Who(method, roles, claim) ==
    [subject |-> anna, method |-> method, roles |-> roles, claim |-> claim]

MCCredentials ==
    [cl \in Clients |->
       IF cl = bert
       THEN {Who("session", {"directors"}, NoClaim)}
       ELSE {Who("basic", {"admin"}, NoClaim),
             Who("bearer", {"strangers"}, {"openid"}),
             Who("bearer", {"members"}, {"payments:read"})}]

MCDoors ==
    [cl \in Clients |->
       IF cl = anna THEN EveryDoor
       ELSE {d \in EveryDoor : d.act \in {"grant", "revoke", "issue"}}]

Symmetry == Permutations(Connections)
=============================================================================
