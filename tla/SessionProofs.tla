--------------------------- MODULE SessionProofs ----------------------------
(* Proofs about Session, for any number of sandboxes and polls and every   *)
(* value of the Executor's constants.                                      *)
EXTENDS Session, ExecutorProofs

Bag == [data : [Id -> [Stream -> Nat]], ended : SUBSET Id]

Lost == \E id \in Id : proc[id] = "lost"

(* What is handed over and what is still in the Vec make up what the       *)
(* Executor collected and reported.                                        *)
Booked(id) ==
  /\ \A s \in Stream : seen.data[id][s] + events.data[id][s] = output[id][s]
  /\ report[id] # "none" <=> id \in seen.ended \cup events.ended
  /\ ~(id \in seen.ended /\ id \in events.ended)

(* The Vec has events only after epoll_wait of the poll in progress.       *)
Handed == pc \in {"idle", "spawn", "feed", "stdin", "wait"} => events = NoEvents

SessionInv ==
  /\ events \in Bag /\ seen \in Bag
  /\ Lost \/ \A id \in Id : Booked(id)
  /\ Handed

-----------------------------------------------------------------------------
(* Bags.                                                                   *)

LEMMA NoEventsIsBag == NoEvents \in Bag
BY DEF NoEvents, Bag

LEMMA WithBag ==
  ASSUME NEW a \in Bag, NEW b \in Bag
  PROVE  /\ With(a, b) \in Bag
         /\ \A id \in Id, s \in Stream : With(a, b).data[id][s] = a.data[id][s] + b.data[id][s]
         /\ With(a, b).ended = a.ended \cup b.ended
BY DEF With, Bag

(* A sandbox that was lost is never found again.                           *)
LEMMA LostStays ==
  ASSUME Inductive, [Next]_vars, Lost
  PROVE  Lost'
<1>1. PICK i \in Id : proc[i] = "lost"
  BY DEF Lost
<1> SUFFICES proc'[i] = "lost"
  BY DEF Lost
<1>2. TypeOK /\ i < next_id
  <2>1. TypeOK /\ Fresh
    BY DEF Inductive
  <2>2. ~(i >= next_id)
    BY <1>1, <2>1 DEF Fresh
  <2>3. i \in Nat /\ next_id \in Nat
    BY <2>1, ConstantsAssumption DEF TypeOK, Id
  <2>4. QED BY <2>1, <2>2, <2>3
<1>3. ASSUME NEW j \in Id, NEW p, proc[j] # "lost", proc' = [proc EXCEPT ![j] = p]
      PROVE  proc'[i] = "lost"
  BY <1>1, <1>2, <1>3 DEF TypeOK
<1>4. ASSUME proc' = proc PROVE proc'[i] = "lost"
  BY <1>1, <1>4
<1>5. ASSUME NEW p, next_id < MaxId, proc' = [proc EXCEPT ![next_id] = p]
      PROVE  proc'[i] = "lost"
  BY <1>1, <1>2, <1>5, ConstantsAssumption DEF TypeOK, Id
<1>6. CASE User
  <2>1. ASSUME NEW t \in Timeouts, Spawn(t) PROVE proc'[i] = "lost"
    BY <2>1, <1>5 DEF Spawn
  <2>2. CASE SpawnError
    BY <2>2, <1>5 DEF SpawnError
  <2>3. CASE ~SpawnError /\ ~\E t \in Timeouts : Spawn(t)
    BY <1>6, <2>3, <1>4 DEF User, SpawnStart, SpawnReturn, Kill, WriteStdinBlock, CloseStdin, PollEmpty, PollStart,
       vars, kernVars
  <2>4. QED BY <2>1, <2>2, <2>3
<1>7. CASE Loop
  <2>1. ASSUME NEW j \in Id, Complete(j) PROVE proc'[i] = "lost"
    BY <2>1, <1>3 DEF Complete, wait_for_exit
  <2>2. CASE ~\E j \in Id : Complete(j)
    BY <1>7, <2>2, <1>4 DEF Loop, PollReturn, read_pipe, ReadWouldBlock, ReadEof, ReadData,
       CheckDeadlines, kernVars
  <2>3. QED BY <2>1, <2>2
<1>8. CASE Environment
  <2>1. ASSUME NEW j \in Id, CompleteInterrupted(j) PROVE proc'[i] = "lost"
    BY <2>1, <1>3 DEF CompleteInterrupted
  <2>2. ASSUME NEW j \in Id, NEW how \in {"exit", "signal"}, ChildEnd(j, how)
        PROVE  proc'[i] = "lost"
    BY <2>2, <1>3 DEF ChildEnd
  <2>3. CASE /\ ~\E j \in Id : CompleteInterrupted(j)
             /\ ~\E j \in Id, how \in {"exit", "signal"} : ChildEnd(j, how)
    BY <1>8, <2>3, <1>4 DEF Environment, WriteStdinReturn, PollInterrupted, Write, Close, Fork,
       Tick, kernVars
  <2>4. QED BY <2>1, <2>2, <2>3
<1>9. CASE UNCHANGED vars
  BY <1>9, <1>4 DEF vars, kernVars
<1>10. QED BY <1>6, <1>7, <1>8, <1>9 DEF Next

-----------------------------------------------------------------------------
(* The steps of a Session.                                                 *)

(* Every step of a Session is a step of its Executor.                      *)
LEMMA SessionStep == [SessionNext]_sessionVars => [Next]_vars
<1>1. Quiet => Next
  BY DEF Quiet, Next, Loop, Environment, read_pipe
<1>2. ASSUME SessionNext PROVE Next
  BY <1>1, <1>2 DEF SessionNext, Next, Loop, Environment, read_pipe
<1>3. QED BY <1>2 DEF sessionVars

(* Nothing is pushed, and what is booked stays so.                         *)
LEMMA QuietKeeps ==
  ASSUME Inductive, SessionInv, Quiet
  PROVE  SessionInv'
<1>1. UNCHANGED <<events, seen>>
  BY DEF Quiet
<1>2. UNCHANGED <<output, report>> /\ (pc' \in {"idle", "spawn", "feed", "stdin", "wait"} => pc \in {"idle", "spawn", "feed", "stdin", "wait"})
  <2>1. CASE User
    BY <2>1 DEF User, SpawnStart, SpawnReturn, Spawn, SpawnError, Spawning, Kill, WriteStdinBlock, CloseStdin, PollEmpty, PollStart,
       vars, execVars, callVars, kernVars, userVars
  <2>2. ASSUME NEW batch \in SUBSET epoll, PollReturn(batch)
        PROVE  UNCHANGED <<output, report>> /\ pc' \in {"read", "check"}
    BY <2>2 DEF PollReturn, userVars
  <2>3. ASSUME NEW id \in Id, NEW s \in Stream, ReadWouldBlock(id, s) \/ ReadEof(id, s)
        PROVE  UNCHANGED <<output, report>> /\ pc' \in {"read", "check"}
    BY <2>3 DEF ReadWouldBlock, ReadEof, Break, execVars, userVars
  <2>4. CASE ~User /\ (~\E batch \in SUBSET epoll : PollReturn(batch))
             /\ ~\E id \in Id, s \in Stream : ReadWouldBlock(id, s) \/ ReadEof(id, s)
    BY <2>4 DEF Quiet, WriteStdinReturn, Write, Close, Fork, ChildEnd, Tick,
       execVars, callVars, userVars
  <2>5. QED BY <2>1, <2>2, <2>3, <2>4
<1>3. Lost => Lost'
  <2>1. Next
    BY DEF Quiet, Next, Loop, Environment, read_pipe
  <2>2. QED BY <2>1, LostStays
<1>4. \A id \in Id : Booked(id) => Booked(id)'
  BY <1>1, <1>2 DEF Booked
<1>5. QED BY <1>1, <1>2, <1>3, <1>4 DEF SessionInv, Handed

(* What read() returned is collected and pushed alike.                     *)
LEMMA PushKeeps ==
  ASSUME Inductive, SessionInv, NEW i \in Id, NEW r \in Stream, ReadData(i, r), PushData(i, r)
  PROVE  SessionInv'
<1>1. PICK n \in Nat : n = read_len(i, r)
  BY ReadLength DEF ReadData
<1>2. /\ output' = [output EXCEPT ![i][r] = @ + n]
      /\ UNCHANGED report /\ pc' \in {"read", "check"}
  BY <1>1 DEF ReadData, AfterRead, Break, Continue, Reading, userVars
<1>3. events' = [events EXCEPT !.data[i][r] = @ + n] /\ seen' = seen
  BY <1>1 DEF PushData
<1>4. events \in Bag /\ seen \in Bag /\ output \in [Id -> [Stream -> Nat]]
  BY DEF SessionInv, Inductive, TypeOK
<1>5. /\ events' \in Bag /\ events'.ended = events.ended
      /\ events'.data = [events.data EXCEPT ![i][r] = @ + n]
  <2>1. PICK d \in [Id -> [Stream -> Nat]], e \in SUBSET Id : events = [data |-> d, ended |-> e]
    BY <1>4 DEF Bag
  <2>2. [d EXCEPT ![i][r] = @ + n] \in [Id -> [Stream -> Nat]]
    OBVIOUS
  <2>3. events' = [data |-> [d EXCEPT ![i][r] = @ + n], ended |-> e]
    BY <1>3, <2>1
  <2>4. QED BY <2>1, <2>2, <2>3 DEF Bag
<1>6. ASSUME NEW id \in Id, NEW s \in Stream,
             seen.data[id][s] + events.data[id][s] = output[id][s]
      PROVE  seen'.data[id][s] + events'.data[id][s] = output'[id][s]
  <2>1. CASE id = i /\ s = r
    <3>1. /\ events'.data[i][r] = events.data[i][r] + n /\ output'[i][r] = output[i][r] + n
          /\ seen.data[i][r] \in Nat /\ events.data[i][r] \in Nat
      BY <1>2, <1>4, <1>5 DEF Bag
    <3>2. QED BY <1>3, <1>6, <2>1, <3>1
  <2>2. CASE ~(id = i /\ s = r)
    <3>1. events'.data[id][s] = events.data[id][s] /\ output'[id][s] = output[id][s]
      BY <1>2, <1>4, <1>5, <2>2 DEF Bag
    <3>2. QED BY <1>3, <1>6, <3>1
  <2>3. QED BY <2>1, <2>2
<1>7. \A id \in Id : Booked(id) => Booked(id)'
  BY <1>2, <1>3, <1>5, <1>6 DEF Booked
<1>8. Lost => Lost'
  BY DEF ReadData, Lost
<1>9. QED BY <1>2, <1>3, <1>4, <1>5, <1>7, <1>8 DEF SessionInv, Handed

(* poll goes on with a Vec, or hands it over: what is booked is the same.  *)
LEMMA GoOnBooks ==
  ASSUME SessionInv, NEW bag \in Bag, GoOn(bag), pc' \in {"idle", "complete"}
  PROVE  /\ events' \in Bag /\ seen' \in Bag /\ Handed'
         /\ \A id \in Id :
              /\ \A s \in Stream : seen'.data[id][s] + events'.data[id][s]
                                     = seen.data[id][s] + bag.data[id][s]
              /\ id \in seen'.ended \cup events'.ended <=> id \in seen.ended \cup bag.ended
              /\ (id \in seen'.ended /\ id \in events'.ended)
                   => (id \in seen.ended /\ id \in bag.ended)
<1>1. seen \in Bag /\ events \in Bag
  BY DEF SessionInv
<1>2. CASE pc' = "idle"
  <2>1. seen' = With(seen, bag) /\ events' = NoEvents
    BY <1>2 DEF GoOn
  <2>2. events'.ended = {} /\ \A id \in Id, s \in Stream : events'.data[id][s] = 0
    BY <2>1 DEF NoEvents
  <2>3. \A id \in Id, s \in Stream : seen.data[id][s] \in Nat /\ bag.data[id][s] \in Nat
    BY <1>1 DEF Bag
  <2>4. /\ seen' \in Bag /\ seen'.ended = seen.ended \cup bag.ended
        /\ \A id \in Id, s \in Stream : seen'.data[id][s] = seen.data[id][s] + bag.data[id][s]
    BY <1>1, <2>1, WithBag
  <2>5. QED BY <2>1, <2>2, <2>3, <2>4, NoEventsIsBag DEF Handed
<1>3. CASE pc' # "idle"
  BY <1>1, <1>3 DEF GoOn, Handed
<1>4. QED BY <1>2, <1>3

LEMMA CheckKeeps ==
  ASSUME Inductive, SessionInv, CheckDeadlines, GoOn(events)
  PROVE  SessionInv'
<1>1. UNCHANGED <<output, report, proc>> /\ pc' \in {"idle", "complete"}
  BY DEF CheckDeadlines, userVars
<1>2. events \in Bag
  BY DEF SessionInv
<1>3. \A id \in Id : Booked(id) => Booked(id)'
  BY <1>1, <1>2, GoOnBooks DEF Booked
<1>4. Lost => Lost'
  BY <1>1 DEF Lost
<1>5. QED BY <1>1, <1>2, <1>3, <1>4, GoOnBooks DEF SessionInv

LEMMA CompleteKeeps ==
  ASSUME Inductive, SessionInv, NEW i \in Id, Complete(i),
         GoOn([events EXCEPT !.ended = @ \cup {i}])
  PROVE  SessionInv'
<1>1. PICK bag : bag = [events EXCEPT !.ended = @ \cup {i}]
  OBVIOUS
<1>2. events \in Bag /\ bag \in Bag /\ bag.data = events.data /\ bag.ended = events.ended \cup {i}
  BY <1>1 DEF SessionInv, Bag
<1>3. GoOn(bag)
  BY <1>1
<1>4. pc' \in {"idle", "complete"} /\ output' = output
  BY DEF Complete
<1>5. report[i] = "none" /\ i \in sandboxes /\ report \in [Id -> Status \cup {"none"}]
  BY DEF Complete, Inductive, TypeOK, Lifecycle, LifecycleOf
<1>6. report'[i] # "none" /\ \A id \in Id : id # i => report'[id] = report[id]
  BY <1>5 DEF Complete, exit_status
<1>7. \A id \in Id : Booked(id) => Booked(id)'
  <2> SUFFICES ASSUME NEW id \in Id, Booked(id) PROVE Booked(id)'
    OBVIOUS
  <2>1. \A s \in Stream : seen'.data[id][s] + events'.data[id][s] = output'[id][s]
    BY <1>2, <1>3, <1>4, GoOnBooks DEF Booked
  <2>2. report'[id] # "none" <=> id \in seen'.ended \cup events'.ended
    BY <1>2, <1>3, <1>4, <1>6, GoOnBooks DEF Booked
  <2>3. ~(id \in seen'.ended /\ id \in events'.ended)
    BY <1>2, <1>3, <1>4, <1>5, GoOnBooks DEF Booked
  <2>4. QED BY <2>1, <2>2, <2>3 DEF Booked
<1>8. Lost => Lost'
  <2>1. Next
    BY DEF Next, Loop
  <2>2. QED BY <2>1, LostStays
<1>9. QED BY <1>2, <1>3, <1>4, <1>7, <1>8, GoOnBooks DEF SessionInv

(* An interrupted epoll_wait comes before the first event; an interrupted  *)
(* waitid loses a sandbox.                                                 *)
LEMMA FailKeeps ==
  ASSUME Inductive, SessionInv, Fail,
         PollInterrupted \/ \E id \in Id : CompleteInterrupted(id)
  PROVE  SessionInv'
<1>1. events' = NoEvents /\ seen' = seen
  BY DEF Fail
<1>2. CASE PollInterrupted
  <2>1. events' = events /\ UNCHANGED <<output, report, proc>>
    BY <1>1, <1>2 DEF PollInterrupted, SessionInv, Handed, execVars, kernVars, userVars
  <2>2. \A id \in Id : Booked(id) => Booked(id)'
    BY <1>1, <2>1 DEF Booked
  <2>3. Lost => Lost'
    BY <2>1 DEF Lost
  <2>4. QED BY <1>1, <2>1, <2>2, <2>3 DEF SessionInv, Handed
<1>3. ASSUME NEW id \in Id, CompleteInterrupted(id) PROVE SessionInv'
  <2>1. proc'[id] = "lost"
    BY <1>3 DEF CompleteInterrupted, Inductive, TypeOK
  <2>2. QED BY <1>1, <2>1, NoEventsIsBag DEF SessionInv, Lost, Handed
<1>4. QED BY <1>2, <1>3

LEMMA SessionInitHolds == SessionInit => SessionInv
<1> SUFFICES ASSUME SessionInit PROVE SessionInv
  OBVIOUS
<1>1. events = NoEvents /\ seen = NoEvents /\ Init
  BY DEF SessionInit
<1>2. \A id \in Id : Booked(id)
  BY <1>1 DEF Init, NoEvents, Booked
<1>3. QED BY <1>1, <1>2, NoEventsIsBag DEF SessionInv, Handed

LEMMA SessionNextKeeps ==
  ASSUME Inductive, SessionInv, [SessionNext]_sessionVars
  PROVE  SessionInv'
<1>1. CASE SessionNext
  BY <1>1, QuietKeeps, PushKeeps, CheckKeeps, CompleteKeeps, FailKeeps DEF SessionNext
<1>2. CASE UNCHANGED sessionVars
  <2>1. UNCHANGED <<events, seen, output, report, proc, pc>>
    BY <1>2 DEF sessionVars, vars, execVars, callVars, kernVars, userVars
  <2>2. \A id \in Id : Booked(id) => Booked(id)'
    BY <2>1 DEF Booked
  <2>3. QED BY <2>1, <2>2 DEF SessionInv, Handed, Lost
<1>3. QED BY <1>1, <1>2

-----------------------------------------------------------------------------
(* The Executor's invariant holds under a Session, and the books balance.  *)
THEOREM SessionInvariant == SessionSpec => [](Inductive /\ SessionInv)
<1>1. SessionInit => Inductive /\ SessionInv
  BY SessionInitHolds, InitInductive DEF SessionInit
<1>2. Inductive /\ SessionInv /\ [SessionNext]_sessionVars => (Inductive /\ SessionInv)'
  BY SessionStep, NextInductive, SessionNextKeeps
<1>3. QED BY <1>1, <1>2, PTL DEF SessionSpec

(* Every event of Session::poll reaches the user, and once, however the    *)
(* polls are cut up; but for a poll that lost a sandbox in waitid.         *)
THEOREM AllEventsArrive == SessionSpec => []EventsReachUser
<1>1. SessionInv => EventsReachUser
  BY DEF SessionInv, Lost, Booked, EventsReachUser
<1>2. QED BY <1>1, SessionInvariant, PTL

(* A Session does to its Executor what a user of the Executor could have   *)
(* done, so every theorem about the Executor holds under a Session.        *)
THEOREM SessionIsExecutor == SessionSpec => Spec
<1>1. SessionInit => Init
  BY DEF SessionInit
<1>2. QED BY <1>1, SessionStep, PTL DEF SessionSpec, Spec

(* With poll and poll_blocking of Session in between, too, a sandbox gets  *)
(* one terminal event with all its output, as Sandbox promises.            *)
THEOREM SessionKeepsPromise == SessionSpec => ImplementsSandbox
BY SessionIsExecutor, PromiseKept, PTL

(* The loop of session.rs's example, which stops when no sandbox is active,*)
(* has seen the terminal event of each sandbox that was not lost.          *)
THEOREM EmptySessionIsDone == SessionSpec => []EmptyMeansDone
<1>1. Inductive /\ SessionInv => EmptyMeansDone
  <2> SUFFICES ASSUME Inductive, SessionInv, pc = "idle", sandboxes = {}
               PROVE  /\ events = NoEvents
                      /\ \A id \in Id : id < next_id =>
                           \/ proc[id] \in {"none", "orphan"}
                           \/ id \in seen.ended
                           \/ \E j \in Id : proc[j] = "lost"
    BY DEF EmptyMeansDone
  <2>1. events = NoEvents
    BY DEF SessionInv, Handed
  <2>2. ASSUME NEW id \in Id, proc[id] \notin {"none", "orphan"}, ~Lost
        PROVE  id \in seen.ended
    <3>1. report[id] # "none"
      BY <2>2 DEF Inductive, Lifecycle, LifecycleOf, Lost
    <3>2. Booked(id)
      BY <2>2 DEF SessionInv
    <3>3. QED BY <2>1, <3>1, <3>2 DEF Booked, NoEvents
  <2>3. QED BY <2>1, <2>2 DEF Lost
<1>2. QED BY <1>1, SessionInvariant, PTL
=============================================================================
