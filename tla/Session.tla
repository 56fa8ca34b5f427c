------------------------------ MODULE Session -------------------------------
(***************************************************************************)
(* evalbox's Session (session.rs) over an Executor: what the user of a     *)
(* Session sees.  A poll collects its events in a Vec of its own and hands *)
(* it over when it succeeds; every other method delegates.  Events carry   *)
(* what each read() returned (Stdout, Stderr) and the terminal event.      *)
(***************************************************************************)
EXTENDS Executor

VARIABLES
  events,  \* the Vec of the poll in progress
  seen     \* history: the events of all polls that returned Ok

sessionVars == <<vars, events, seen>>

(* A bag of events: the units in each stream's data events, and the ids    *)
(* that have a terminal event.                                             *)
NoEvents == [data |-> [id \in Id |-> [s \in Stream |-> 0]], ended |-> {}]

With(bag, more) ==
  [data  |-> [id \in Id |-> [s \in Stream |-> bag.data[id][s] + more.data[id][s]]],
   ended |-> bag.ended \cup more.ended]

SessionInit == Init /\ events = NoEvents /\ seen = NoEvents

(* new, spawn, kill, write_stdin, close_stdin, active_count and the start  *)
(* of a poll push no event; nor do a poll with nothing to do, the reads    *)
(* that return no data, and what goes on outside the Executor.             *)
Quiet ==
  /\ \/ User
     \/ \E batch \in SUBSET epoll : PollReturn(batch)
     \/ \E id \in Id, s \in Stream : ReadWouldBlock(id, s) \/ ReadEof(id, s)
     \/ WriteStdinReturn
     \/ \E id \in Id, s \in Stream : Write(id, s)
     \/ \E id \in Id, p \in Process, s \in Stream : Close(id, p, s)
     \/ \E id \in Id, d \in Descendants : Fork(id, d)
     \/ \E id \in Id, how \in {"exit", "signal"} : ChildEnd(id, how)
     \/ Tick
  /\ UNCHANGED <<events, seen>>

\* Mutant: the chunk that crosses the limit is collected but not streamed.
PushData_within(id, s) ==
  /\ events' = IF over_limit(output'[id]) THEN events
               ELSE [events EXCEPT !.data[id][s] = @ + read_len(id, s)]
  /\ UNCHANGED seen
(* read_pipe pushes what a read() returned.                                *)
PushData(id, s) ==
  /\ events' = [events EXCEPT !.data[id][s] = @ + read_len(id, s)]
  /\ UNCHANGED seen

\* Mutant: the last terminal event is pushed after the Vec was handed over.
GoOn_stale(bag) ==
  IF pc' = "idle"
    THEN seen' = With(seen, events) /\ events' = NoEvents
    ELSE events' = bag /\ UNCHANGED seen
(* poll goes on, or returns Ok with the Vec.                               *)
GoOn(bag) ==
  IF pc' = "idle"
    THEN seen' = With(seen, bag) /\ events' = NoEvents
    ELSE events' = bag /\ UNCHANGED seen

(* poll returns an error: the Vec is dropped.                              *)
Fail == events' = NoEvents /\ UNCHANGED seen

SessionNext ==
  \/ Quiet
  \/ \E id \in Id, s \in Stream : ReadData(id, s) /\ PushData(id, s)
  \/ CheckDeadlines /\ GoOn(events)
  \/ \E id \in Id : Complete(id) /\ GoOn([events EXCEPT !.ended = @ \cup {id}])
  \/ PollInterrupted /\ Fail
  \/ \E id \in Id : CompleteInterrupted(id) /\ Fail

SessionSpec == SessionInit /\ [][SessionNext]_sessionVars

(* The fairness of the Executor: a Session adds no step of its own.        *)
SessionFairSpec == SessionSpec /\ Fairness

-----------------------------------------------------------------------------
(* Every event reaches the user, once: the data events add up to the       *)
(* output collected so far, the terminal events to the sandboxes that were *)
(* reported, no matter how the polls were cut up, over the output limit,   *)
(* and when epoll_wait is interrupted.  Only a poll that lost a sandbox in *)
(* waitid takes the events it had pushed with it.                          *)
EventsReachUser ==
  \/ \E id \in Id : proc[id] = "lost"
  \/ \A id \in Id :
       /\ \A s \in Stream : seen.data[id][s] + events.data[id][s] = output[id][s]
       /\ report[id] # "none" <=> id \in seen.ended \cup events.ended
       /\ ~(id \in seen.ended /\ id \in events.ended)

(* The loop of session.rs's example may stop when the session is empty:    *)
(* nothing is left in a Vec, and every sandbox that was started has had    *)
(* its terminal event - itself, or one that left with it, lost on the      *)
(* error path.                                                             *)
EmptyMeansDone ==
  (pc = "idle" /\ sandboxes = {}) =>
     /\ events = NoEvents
     /\ \A id \in Id : id < next_id =>
          \/ proc[id] \in {"none", "orphan"}
          \/ id \in seen.ended
          \/ \E j \in Id : proc[j] = "lost"
=============================================================================
