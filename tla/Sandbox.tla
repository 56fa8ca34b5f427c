------------------------------ MODULE Sandbox -------------------------------
(***************************************************************************)
(* What a user of the Executor is promised of every sandbox, with no word  *)
(* about pipes, polls and event loops: an id is used at most once; a       *)
(* sandbox that started writes output and ends in one way; and the last    *)
(* that is heard of it is one terminal event, with all it ever wrote and   *)
(* a status that is true.  (The doc comments of executor.rs on spawn,      *)
(* Event and Status.)                                                      *)
(***************************************************************************)
EXTENDS Integers

CONSTANTS
  Id,         \* sandbox ids, in the order they are handed out
  Stream,     \* the output streams of a sandbox
  Exceeds(_)  \* whether the units written to the streams pass max_output

VARIABLES
  stage,   \* "unused", "refused", "active", "reported" or "dropped"
  ended,   \* how the process ended: "none" while it has not
  late,    \* the sandboxes that were started and are past their deadline
  wrote,   \* units written to each stream
  result   \* the terminal event, NoResult before it

promiseVars == <<stage, ended, late, wrote, result>>

NoResult == [status |-> "none"]

Init ==
  /\ stage = [id \in Id |-> "unused"]
  /\ ended = [id \in Id |-> "none"]
  /\ late = {}
  /\ wrote = [id \in Id |-> [s \in Stream |-> 0]]
  /\ result = [id \in Id |-> NoResult]

(* The next id is handed out; a timeout of zero is over at once.           *)
Hand(id, outcome) ==
  /\ stage[id] = "unused" /\ \A j \in Id : j < id => stage[j] # "unused"
  /\ stage' = [stage EXCEPT ![id] = outcome]

Start(id) ==
  /\ Hand(id, "active")
  /\ late' \in {late, late \cup {id}}
  /\ UNCHANGED <<ended, wrote, result>>

Refuse(id) ==
  /\ Hand(id, "refused")
  /\ UNCHANGED <<ended, late, wrote, result>>

Produce(id, s) ==
  /\ stage[id] = "active"
  /\ wrote' = [wrote EXCEPT ![id][s] = @ + 1]
  /\ UNCHANGED <<stage, ended, late, result>>

End(id, how) ==
  /\ stage[id] = "active" /\ ended[id] = "none"
  /\ ended' = [ended EXCEPT ![id] = how]
  /\ UNCHANGED <<stage, late, wrote, result>>

(* Time passes, for any number of sandboxes.                               *)
Expire ==
  /\ late' \in SUBSET {id \in Id : stage[id] \notin {"unused", "refused"}}
  /\ late \subseteq late'
  /\ UNCHANGED <<stage, ended, wrote, result>>

(* What a status says of a sandbox.                                        *)
True(id, status) ==
  CASE status = "Timeout"             -> id \in late
    [] status = "Signaled"            -> ended[id] = "signal"
    [] status = "Exited"              -> ended[id] = "exit" /\ ~Exceeds(wrote[id])
    [] status = "OutputLimitExceeded" -> ended[id] = "exit" /\ Exceeds(wrote[id])

(* The terminal event: the process is gone and the status is true.         *)
Report(id, status) ==
  /\ stage[id] = "active" /\ ended[id] # "none"
  /\ True(id, status)
  /\ stage' = [stage EXCEPT ![id] = "reported"]
  /\ result' = [result EXCEPT ![id] = [status |-> status, output |-> wrote[id]]]
  /\ UNCHANGED <<ended, late, wrote>>

(* The one way to leave without an event: a late sandbox, on an error.     *)
Drop(id) ==
  /\ stage[id] = "active" /\ id \in late
  /\ stage' = [stage EXCEPT ![id] = "dropped"]
  /\ UNCHANGED <<ended, late, wrote, result>>

Next ==
  \/ \E id \in Id : Start(id) \/ Refuse(id) \/ Drop(id)
  \/ \E id \in Id, s \in Stream : Produce(id, s)
  \/ \E id \in Id, how \in {"exit", "signal"} : End(id, how)
  \/ \E id \in Id, status \in {"Exited", "Signaled", "Timeout", "OutputLimitExceeded"} :
        Report(id, status)
  \/ Expire

Spec == Init /\ [][Next]_promiseVars
=============================================================================
