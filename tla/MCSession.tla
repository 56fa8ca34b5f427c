----------------------------- MODULE MCSession ------------------------------
(* Small instances of a Session for TLC.                                   *)
EXTENDS Session, MCExecutor
=============================================================================
