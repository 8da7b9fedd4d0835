------------------------------ MODULE MCSignIn ------------------------------
(* Programs that guess at two names from one address, at once or over a    *)
(* longer time; an account that is changed while it signs in; a browser of *)
(* two tabs that signs in and out; browsers that sign in at a provider;    *)
(* programs with bearer tokens.  Each caller has a process of its own.     *)
EXTENDS SignIn

CONSTANTS c1, c2, anna, zoe, old, new, long

OneBrowser == [cl \in Callers |-> "b1"]

EachItsOwn == [cl \in Callers |-> IF cl = c1 THEN "b1" ELSE "b2"]

Quiet == [mode |-> "basic", tabs |-> OneBrowser, doors |-> {}, words |-> {old},
          names |-> {anna}, accounts |-> {anna}, weak |-> FALSE, knocks |-> 0, edits |-> 0,
          ticks |-> 0, rotations |-> 0]

Guessing == [Quiet EXCEPT !.doors = {"api"}, !.words = {new}, !.accounts = {},
                          !.names = {anna, zoe}, !.knocks = 5, !.ticks = 1]

Waiting == [Quiet EXCEPT !.doors = {"api"}, !.words = {old, new}, !.knocks = 3,
                         !.ticks = 4]

Changing == [Quiet EXCEPT !.doors = {"api"}, !.words = {old, new, long},
                          !.weak = TRUE, !.knocks = 3, !.edits = 2]

Tabs == [Quiet EXCEPT !.doors = {"page", "login", "form", "logout"},
                      !.knocks = 4, !.ticks = 1]

AtProvider(tabs) ==
    [Quiet EXCEPT !.mode = "oidc", !.tabs = tabs, !.knocks = 4, !.ticks = 1,
                  !.doors = {"page", "login", "callback", "logout", "form"}]

Tokens == [Quiet EXCEPT !.mode = "oidc", !.doors = {"bearer"}, !.knocks = 3,
                        !.ticks = 4, !.rotations = 2]

MCSettings == {Guessing, Waiting, Changing, Tabs, AtProvider(OneBrowser),
               AtProvider(EachItsOwn), Tokens}

MCProcessOf == [cl \in Callers |-> cl]

MCSourceOf == [cl \in Callers |-> "office"]
=============================================================================
