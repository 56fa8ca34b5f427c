------------------------------ MODULE MCLaunch ------------------------------
(* Small instances of concurrent launches for TLC.                         *)
EXTENDS Launch

Plan(blocking, notify, stdin) == [blocking |-> blocking, notify |-> notify, stdin |-> stdin]

\* Both entry points, with and without a notify filter and stdin.
MixedPlans == {Plan(TRUE, TRUE, TRUE), Plan(TRUE, FALSE, FALSE),
               Plan(FALSE, TRUE, FALSE), Plan(FALSE, FALSE, TRUE)}
=============================================================================
