----------------------------- MODULE MCMonitor ------------------------------
(* Small instances of the blocking monitor for TLC.                        *)
EXTENDS Monitor

\* A descendant that may hold the child's pipes.
OneDescendant == {"descendant"}
=============================================================================
