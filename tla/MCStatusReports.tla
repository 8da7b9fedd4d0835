--------------------------- MODULE MCStatusReports ---------------------------
(* Small instances of StatusReports: which documents the bank has to serve. *)
EXTENDS StatusReports

Says002(m, group, levels, written) ==
    [kind |-> "report", names |-> m, group |-> group, transactions |-> levels,
     blocks |-> <<"checked">>, written |-> written]

SaysCamt(kind, m, ref, booking, whole) ==
    [kind |-> kind, names |-> m, reference |-> ref, booking |-> booking,
     whole |-> whole, written |-> 9]

Nowhere == <<NoOrder, 0>>

\* Of one order: a check of the file said by its transactions, a refusal after
\* it, a check of the second message later than both, word that nothing is
\* decided, a report about somebody else's message; its return, a return of
\* part of it, and two credits that look like its return.
OneOrdersDocuments == <<
    Says002(<<1, 1>>, "none", <<"checked", "checked">>, 1),
    Says002(<<1, 1>>, "refused", <<"refused">>, 2),
    Says002(<<1, 2>>, "checked", <<>>, 3),
    Says002(<<1, 1>>, "undecided", <<"checked">>, 0),
    Says002(Nowhere, "new", <<>>, 1),
    SaysCamt("marked", <<1, 2>>, 0, 1, TRUE),
    SaysCamt("marked", Nowhere, 7, 1, FALSE),
    SaysCamt("unmarked", Nowhere, 7, 2, TRUE),
    SaysCamt("unmarked", Nowhere, 7, 3, TRUE) >>

\* A verdict that changes twice; a return before and after a refusal; suspicions
\* beside a return; what moves nothing.
SomeSessions == {{1, 2, 3}, {1, 2, 6}, {2, 3, 8}, {3, 6, 8}, {6, 8, 9}, {4, 5, 7}}
EverySession == SUBSET Statements

OneReference == [o \in Orders |-> 7]

\* The file is checked, the money is under way, and then it is refused.
SettledThenRefused == <<
    Says002(<<1, 1>>, "checked", <<>>, 1),
    Says002(<<1, 1>>, "settled", <<>>, 2),
    Says002(<<1, 1>>, "refused", <<>>, 3) >>

=============================================================================
