----------------------------- MODULE MCExecutor -----------------------------
(* Small instances of the Executor for TLC.  Sandbox ids are ordered by    *)
(* next_id, so they are not symmetric.                                     *)
EXTENDS ExecutorPromise

(* Values of MaxWrite.                                                     *)
OneEach    == [s \in Stream |-> 1]
Nothing    == [s \in Stream |-> 0]
TwoEach    == [s \in Stream |-> 2]
OnStdout   == [s \in Stream |-> IF s = "stdout" THEN 1 ELSE 0]
ManyStdout == [s \in Stream |-> IF s = "stdout" THEN 3 ELSE 0]
=============================================================================
