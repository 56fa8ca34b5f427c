-------------------------- MODULE ExecutorPromise ---------------------------
(***************************************************************************)
(* The Executor implements the promise of Sandbox: the refinement mapping. *)
(***************************************************************************)
EXTENDS Executor

(* Where a sandbox stands, as its user sees it.                            *)
stageOf(id) ==
  CASE id \in sandboxes      -> "active"
    [] proc[id] = "reaped"   -> "reported"
    [] proc[id] = "lost"     -> "dropped"
    [] id >= next_id         -> "unused"
    [] OTHER                 -> "refused"

(* A sandbox exists and its deadline is past.                              *)
lateIds == {id \in Id : proc[id] \notin {"none", "orphan"} /\ now >= deadline[id]}

(* The terminal event: what the Executor collected, not what was written.  *)
resultOf(id) ==
  IF report[id] = "none" THEN [status |-> "none"]
  ELSE [status |-> report[id], output |-> output[id]]

Promise == INSTANCE Sandbox WITH
  Exceeds <- over_limit,
  stage   <- [id \in Id |-> stageOf(id)],
  ended   <- cause,
  late    <- lateIds,
  wrote   <- written,
  result  <- [id \in Id |-> resultOf(id)]

(* The Executor keeps the promise: every step of its calls, its children   *)
(* and the clock is a step of Sandbox or invisible.  An event carries all  *)
(* that was ever written, nothing is heard after it, and no sandbox leaves *)
(* without one except late, on waitid's error path.                        *)
ImplementsSandbox == Promise!Spec
=============================================================================
