------------------------------ MODULE Executor ------------------------------
(***************************************************************************)
(* The concurrent half of evalbox's Executor (evalbox-sandbox/executor.rs):*)
(* spawn / poll / kill / write_stdin / close_stdin over a set of sandboxed *)
(* children, one mio (epoll) instance and a wall-clock deadline per        *)
(* sandbox.  The user's thread owns the Executor, so its calls are         *)
(* sequential; the children, their descendants, the kernel and the clock   *)
(* run concurrently with every step of a call.                             *)
(*                                                                         *)
(* Amounts of output are counted in abstract units; one read() moves at    *)
(* most BufLen of them (4096 bytes in the code).                           *)
(***************************************************************************)
EXTENDS Integers, FiniteSets, FiniteSetsExt

CONSTANTS
  MaxId,          \* bound on the calls of spawn: next_id stops here
  MaxNow,         \* bound on the clock
  MaxWrite,       \* for each stream, bound on the units ever written to it
  MaxOutput,      \* plan.max_output, in units
  BufLen,         \* units one read() returns at most
  PipeCap,        \* capacity of a pipe, in units
  EventCap,       \* capacity of mio_events (64 in the code)
  Timeouts,       \* the values of plan.timeout
  PlanStdin,      \* whether a plan carries stdin data: a set of BOOLEANs
  PollTimeouts,   \* the Some(_) timeouts passed to poll; None is always tried
  UserKills,      \* TRUE iff the user calls kill
  Descendants,    \* processes a child may leave behind, holding its pipes
  Signals,        \* TRUE iff the host handles signals, so waitid can see EINTR
  BlockingStdin   \* TRUE iff write_stdin may find the stdin pipe full

ASSUME ConstantsAssumption ==
  /\ MaxId \in Nat /\ MaxNow \in Nat /\ MaxOutput \in Nat
  /\ MaxWrite \in [{"stdout", "stderr"} -> Nat]
  /\ BufLen \in Nat \ {0} /\ PipeCap \in Nat \ {0} /\ EventCap \in Nat \ {0}
  /\ Timeouts \subseteq Nat /\ PollTimeouts \subseteq Nat
  /\ PlanStdin \subseteq BOOLEAN
  /\ "child" \notin Descendants
  /\ UserKills \in BOOLEAN /\ Signals \in BOOLEAN /\ BlockingStdin \in BOOLEAN

Id      == 0..(MaxId - 1)
Stream  == {"stdout", "stderr"}
Process == {"child"} \cup Descendants
Reason  == {"user", "output", "deadline"}
Status  == {"Exited", "Signaled", "Timeout", "OutputLimitExceeded"}

VARIABLES
  \* the Executor and its SandboxState records
  next_id,      \* the next SandboxId
  sandboxes,    \* the keys of the HashMap
  deadline,     \* SandboxState.deadline
  output,       \* lengths of SandboxState.stdout and .stderr
  pidfd_ready,  \* SandboxState.pidfd_ready
  closed,       \* SandboxState.stdout_closed and .stderr_closed
  stdin_fd,     \* TRUE while spawned.stdin_fd >= 0
  \* the call in progress
  pc,           \* "idle", or where the call in progress stands
  wake_at,      \* when the epoll_wait of the current poll times out
  reading,      \* read_stdout and read_stderr: the read_pipe calls to make
  current,      \* the read_pipe call in progress, if any
  to_remove,    \* check_completions' to_remove
  \* the kernel, as the Executor uses it
  now,          \* Instant::now()
  epoll,        \* tokens on the edge-triggered ready list
  proc,         \* life cycle of the child process
  cause,        \* how the child ended
  kills,        \* history: why SIGKILL was sent to the child
  writers,      \* processes holding the write end of a pipe
  pipe,         \* units buffered in a pipe
  written,      \* history: units ever written to a pipe
  \* what the user has seen
  report,       \* status of the terminal event, "none" before it
  stdin_closes, \* history: close() calls made on the stdin fd
  tmpdirs       \* sandboxes whose workspace directory exists

execVars == <<next_id, sandboxes, deadline, output, pidfd_ready, closed, stdin_fd>>
callVars == <<pc, wake_at, reading, current, to_remove>>
kernVars == <<now, epoll, proc, cause, kills, writers, pipe, written>>
userVars == <<report, stdin_closes, tmpdirs>>
vars     == <<execVars, callVars, kernVars, userVars>>

-----------------------------------------------------------------------------
(* Tokens: [sandbox_id][type: 2 bits].                                     *)

TOKEN_TYPES == 4       \* 1 << TOKEN_TYPE_BITS
TOKEN_TYPE_PIDFD == 0
TokenType(s) == IF s = "stdout" THEN 1 ELSE 2

\* Mutant: the id is shifted by one bit too few.
encode_token_one_bit(id, type) == id * 2 + type
encode_token(id, type) == id * TOKEN_TYPES + type

decode_token(token) == <<token \div TOKEN_TYPES, token % TOKEN_TYPES>>

PidfdToken(id)   == encode_token(id, TOKEN_TYPE_PIDFD)
PipeToken(id, s) == encode_token(id, TokenType(s))
TokensOf(id)     == {PidfdToken(id)} \cup {PipeToken(id, s) : s \in Stream}

-----------------------------------------------------------------------------
(* SandboxState.                                                           *)

total(o) == o["stdout"] + o["stderr"]

over_limit(o) == total(o) > MaxOutput

\* Mutants: completion does not wait for a pipe, or for the process.
is_done_no_stderr(ready, cl) == ready /\ cl["stdout"]
is_done_no_pidfd(ready, cl) == cl["stdout"] /\ cl["stderr"]
is_done(ready, cl) == ready /\ cl["stdout"] /\ cl["stderr"]

\* Mutant: expiry looks only at sandboxes that already ended.
expired_never(id) == now >= deadline[id] /\ pidfd_ready[id]
expired(id) == now >= deadline[id] /\ ~pidfd_ready[id]

Init ==
  /\ next_id = 0
  /\ sandboxes = {}
  /\ deadline = [id \in Id |-> 0]
  /\ output = [id \in Id |-> [s \in Stream |-> 0]]
  /\ pidfd_ready = [id \in Id |-> FALSE]
  /\ closed = [id \in Id |-> [s \in Stream |-> FALSE]]
  /\ stdin_fd = [id \in Id |-> FALSE]
  /\ pc = "idle"
  /\ wake_at = 0
  /\ reading = {}
  /\ current = {}
  /\ to_remove = {}
  /\ now = 0
  /\ epoll = {}
  /\ proc = [id \in Id |-> "none"]
  /\ cause = [id \in Id |-> "none"]
  /\ kills = [id \in Id |-> {}]
  /\ writers = [id \in Id |-> [s \in Stream |-> {}]]
  /\ pipe = [id \in Id |-> [s \in Stream |-> 0]]
  /\ written = [id \in Id |-> [s \in Stream |-> 0]]
  /\ report = [id \in Id |-> "none"]
  /\ stdin_closes = [id \in Id |-> 0]
  /\ tmpdirs = {}

-----------------------------------------------------------------------------
(* Calls of the user, made one at a time.                                  *)

(* spawn(plan) is called: the handshake, which gives up after 30 seconds   *)
(* ("spawn"), and, with plan.stdin, a write of all of it to a blocking     *)
(* pipe, which takes as long as its readers please ("feed").  The children *)
(* of earlier calls and the clock go on; nobody looks at a deadline.       *)
Spawning == {"spawn", "feed"}

SpawnStart ==
  /\ pc = "idle" /\ next_id < MaxId
  /\ \E hasStdin \in PlanStdin : pc' = IF hasStdin THEN "feed" ELSE "spawn"
  /\ UNCHANGED <<execVars, wake_at, reading, current, to_remove, kernVars, userVars>>

(* spawn(plan) returns: the child runs and is registered for its three     *)
(* fds, and its deadline starts now.  Registration reports readiness the   *)
(* fds already have, so whatever the child does before its registration is *)
(* indistinguishable from doing it right after.  With plan.stdin the fd is *)
(* closed already.  The id, which no other call can ask for meanwhile, is  *)
(* counted here.  The clock's bound leaves room for the deadline.          *)
Spawn(timeout) ==
  /\ pc \in Spawning /\ next_id < MaxId /\ now + timeout <= MaxNow
  /\ next_id' = next_id + 1
  /\ sandboxes' = sandboxes \cup {next_id}
  /\ deadline' = [deadline EXCEPT ![next_id] = now + timeout]
  /\ stdin_fd' = [stdin_fd EXCEPT ![next_id] = (pc = "spawn")]
  /\ stdin_closes' = [stdin_closes EXCEPT ![next_id] = IF pc = "spawn" THEN 0 ELSE 1]
  /\ proc' = [proc EXCEPT ![next_id] = "running"]
  /\ writers' = [writers EXCEPT ![next_id] = [s \in Stream |-> {"child"}]]
  /\ tmpdirs' = tmpdirs \cup {next_id}
  /\ pc' = "idle"
  /\ UNCHANGED <<output, pidfd_ready, closed, wake_at, reading, current, to_remove,
                 now, epoll, cause, kills, pipe, written, report>>

(* spawn(plan) returns an error: the id is consumed all the same.  No      *)
(* child exists ("none"), or one exists that is in no map ("orphan"):      *)
(* killed but not reaped when the handshake failed, and left to itself     *)
(* when the write to its stdin or the registration failed.  Nothing below  *)
(* ever looks at an orphan again.                                          *)
SpawnError ==
  /\ pc \in Spawning /\ next_id < MaxId
  /\ next_id' = next_id + 1
  /\ \E p \in {"none", "orphan"} : proc' = [proc EXCEPT ![next_id] = p]
  /\ pc' = "idle"
  /\ UNCHANGED <<sandboxes, deadline, output, pidfd_ready, closed, stdin_fd, wake_at, reading,
                 current, to_remove, now, epoll, cause, kills, writers, pipe, written, userVars>>

SpawnReturn == SpawnError \/ \E t \in Timeouts : Spawn(t)

SendKill(ids, why) ==
  kills' = [id \in Id |-> IF id \in ids THEN kills[id] \cup {why} ELSE kills[id]]

(* kill(id)                                                                *)
Kill(id) ==
  /\ UserKills
  /\ pc = "idle" /\ id \in sandboxes
  /\ SendKill({id}, "user")
  /\ UNCHANGED <<execVars, callVars, now, epoll, proc, cause, writers, pipe, written, userVars>>

(* write_stdin(id, data) that returns at once leaves no trace here; this   *)
(* is the call that finds the (blocking) pipe full and waits for a reader. *)
WriteStdinBlock(id) ==
  /\ BlockingStdin
  /\ pc = "idle" /\ id \in sandboxes /\ stdin_fd[id]
  /\ pc' = "stdin"
  /\ UNCHANGED <<execVars, wake_at, reading, current, to_remove, kernVars, userVars>>

(* The child read some of its stdin, or the last reader is gone (EPIPE).   *)
WriteStdinReturn ==
  /\ pc = "stdin"
  /\ pc' = "idle"
  /\ UNCHANGED <<execVars, wake_at, reading, current, to_remove, kernVars, userVars>>

\* Mutant: close_stdin forgets to set the fd to -1.
CloseStdin_no_reset(id) ==
  /\ pc = "idle" /\ id \in sandboxes /\ stdin_fd[id]
  /\ stdin_closes' = [stdin_closes EXCEPT ![id] = @ + 1]
  /\ UNCHANGED <<execVars, callVars, kernVars, report, tmpdirs>>

(* close_stdin(id)                                                         *)
CloseStdin(id) ==
  /\ pc = "idle" /\ id \in sandboxes /\ stdin_fd[id]
  /\ stdin_fd' = [stdin_fd EXCEPT ![id] = FALSE]
  /\ stdin_closes' = [stdin_closes EXCEPT ![id] = @ + 1]
  /\ UNCHANGED <<next_id, sandboxes, deadline, output, pidfd_ready, closed,
                 callVars, kernVars, report, tmpdirs>>

-----------------------------------------------------------------------------
(* poll(events, timeout)                                                   *)

(* poll with no sandbox returns at once.                                   *)
PollEmpty ==
  /\ pc = "idle" /\ sandboxes = {}
  /\ UNCHANGED vars

\* Mutant: the farthest deadline instead of the nearest.
nearest_max(id) == \A j \in sandboxes : deadline[j] <= deadline[id]
nearest(id) == \A j \in sandboxes : deadline[id] <= deadline[j]

(* calculate_timeout: when epoll_wait gives up, without and with a timeout *)
(* of the user.  A deadline in the past means not to wait at all.          *)
PollStart ==
  /\ pc = "idle"
  /\ \E id \in sandboxes :
       LET until == Max({now, deadline[id]})
       IN /\ nearest(id)
          /\ \/ wake_at' = until
             \/ \E t \in PollTimeouts : wake_at' = Min({now + t, until})
  /\ pc' = "wait"
  /\ UNCHANGED <<execVars, reading, current, to_remove, kernVars, userVars>>

(* epoll_wait interrupted by a signal: poll returns the error.  The kernel *)
(* looks at what is ready, and at the timeout, before it looks at signals. *)
PollInterrupted ==
  /\ Signals
  /\ pc = "wait" /\ epoll = {} /\ now < wake_at
  /\ pc' = "idle"
  /\ UNCHANGED <<execVars, wake_at, reading, current, to_remove, kernVars, userVars>>

(* The pipes that a batch of events asks poll to read.                     *)
ReadsOf(batch) ==
  {r \in sandboxes \X Stream :
      \E t \in batch : decode_token(t) = <<r[1], TokenType(r[2])>>}

(* The sandboxes whose process a batch of events reports dead.             *)
EndedIn(batch) ==
  {id \in sandboxes : \E t \in batch : decode_token(t) = <<id, TOKEN_TYPE_PIDFD>>}

(* epoll_wait returns a batch of at most EventCap events, which leave the  *)
(* ready list: mio registers with EPOLLET.                                 *)
PollReturn(batch) ==
  /\ pc = "wait"
  /\ epoll # {} \/ now >= wake_at
  /\ Cardinality(batch) <= EventCap
  /\ batch = epoll \/ Cardinality(batch) = EventCap
  /\ epoll' = epoll \ batch
  /\ pidfd_ready' = [id \in Id |-> pidfd_ready[id] \/ id \in EndedIn(batch)]
  /\ reading' = ReadsOf(batch)
  /\ pc' = IF ReadsOf(batch) = {} THEN "check" ELSE "read"
  /\ UNCHANGED <<next_id, sandboxes, deadline, output, closed, stdin_fd, wake_at,
                 current, to_remove, now, proc, cause, kills, writers, pipe,
                 written, userVars>>

(* read_pipe is a loop of read() calls; a break ends it.  All of           *)
(* read_stdout comes before all of read_stderr.                            *)
Reading(id, s) ==
  /\ pc = "read"
  /\ <<id, s>> \in reading
  /\ current \subseteq {<<id, s>>}
  /\ s = "stderr" => \A r \in reading : r[2] = "stderr"

Break(id, s) ==
  /\ reading' = reading \ {<<id, s>>}
  /\ current' = {}
  /\ pc' = IF reading = {<<id, s>>} THEN "check" ELSE "read"

Continue(id, s) ==
  /\ current' = {<<id, s>>}
  /\ UNCHANGED <<reading, pc>>

(* read() finds the pipe empty with a writer left: EAGAIN.                 *)
ReadWouldBlock(id, s) ==
  /\ Reading(id, s)
  /\ pipe[id][s] = 0 /\ writers[id][s] # {}
  /\ Break(id, s)
  /\ UNCHANGED <<execVars, wake_at, to_remove, kernVars, userVars>>

(* read() returns 0: every writer is gone and the pipe is drained.         *)
ReadEof(id, s) ==
  /\ Reading(id, s)
  /\ pipe[id][s] = 0 /\ writers[id][s] = {}
  /\ closed' = [closed EXCEPT ![id][s] = TRUE]
  /\ Break(id, s)
  /\ UNCHANGED <<next_id, sandboxes, deadline, output, pidfd_ready, stdin_fd,
                 wake_at, to_remove, kernVars, userVars>>

read_len(id, s) == Min({pipe[id][s], BufLen})

\* Mutant: one read() per event, as a level-triggered loop could afford.
AfterRead_once(id, s, over) == Break(id, s)
\* Mutant: the loop is left only when the pipe is empty.
AfterRead_on(id, s, over) == Continue(id, s)
AfterRead(id, s, over) == IF over THEN Break(id, s) ELSE Continue(id, s)

(* read() returns data; past the limit the child is killed and the loop    *)
(* is left without draining the pipe.                                      *)
ReadData(id, s) ==
  LET n    == read_len(id, s)
      over == over_limit([output[id] EXCEPT ![s] = @ + n])
  IN /\ Reading(id, s)
     /\ pipe[id][s] > 0
     /\ pipe' = [pipe EXCEPT ![id][s] = @ - n]
     /\ output' = [output EXCEPT ![id][s] = @ + n]
     /\ SendKill(IF over THEN {id} ELSE {}, "output")
     /\ AfterRead(id, s, over)
     /\ UNCHANGED <<next_id, sandboxes, deadline, pidfd_ready, closed, stdin_fd,
                    wake_at, to_remove, now, epoll, proc, cause, writers, written, userVars>>

read_pipe(id, s) == ReadWouldBlock(id, s) \/ ReadEof(id, s) \/ ReadData(id, s)

(* check_completions, first loop: one sample of the clock, SIGKILL for     *)
(* every sandbox past its deadline, and the list of finished sandboxes.    *)
CheckDeadlines ==
  LET late  == {id \in sandboxes : expired(id)}
      ready == [id \in Id |-> pidfd_ready[id] \/ id \in late]
      done  == {id \in sandboxes : is_done(ready[id], closed[id])}
  IN /\ pc = "check"
     /\ SendKill(late, "deadline")
     /\ pidfd_ready' = ready
     /\ to_remove' = done
     /\ pc' = IF done = {} THEN "idle" ELSE "complete"
     /\ UNCHANGED <<next_id, sandboxes, deadline, output, closed, stdin_fd, wake_at,
                    reading, current, now, epoll, proc, cause, writers, pipe, written, userVars>>

\* Mutant: the signal is looked at before the deadline.
exit_status_signal_first(id) ==
  IF cause[id] = "signal" THEN "Signaled"
  ELSE IF now >= deadline[id] THEN "Timeout"
  ELSE IF over_limit(output[id]) THEN "OutputLimitExceeded"
  ELSE "Exited"

(* The status of the terminal event; the clock is sampled again.           *)
exit_status(id) ==
  IF now >= deadline[id] THEN "Timeout"
  ELSE IF cause[id] = "signal" THEN "Signaled"
  ELSE IF over_limit(output[id]) THEN "OutputLimitExceeded"
  ELSE "Exited"

\* Mutant: the sandbox is looked up instead of removed.
Remove_kept(id) ==
  /\ stdin_fd' = [stdin_fd EXCEPT ![id] = FALSE]
  /\ stdin_closes' = [stdin_closes EXCEPT ![id] = IF stdin_fd[id] THEN @ + 1 ELSE @]
  /\ tmpdirs' = tmpdirs \ {id}
  /\ UNCHANGED <<sandboxes, epoll>>
(* Leaving the map: deregister the three fds, then drop the sandbox, which *)
(* closes what is open and removes the workspace directory.                *)
Remove(id) ==
  /\ sandboxes' = sandboxes \ {id}
  /\ epoll' = epoll \ TokensOf(id)
  /\ stdin_fd' = [stdin_fd EXCEPT ![id] = FALSE]
  /\ stdin_closes' = [stdin_closes EXCEPT ![id] = IF stdin_fd[id] THEN @ + 1 ELSE @]
  /\ tmpdirs' = tmpdirs \ {id}

(* waitid(P_PIDFD) blocks until the child is dead, and reaps it.           *)
wait_for_exit(id) ==
  /\ proc[id] = "zombie"
  /\ proc' = [proc EXCEPT ![id] = "reaped"]

(* check_completions, second loop.                                         *)
Complete(id) ==
  /\ pc = "complete" /\ id \in to_remove
  /\ wait_for_exit(id)
  /\ Remove(id)
  /\ report' = [report EXCEPT ![id] = exit_status(id)]
  /\ to_remove' = to_remove \ {id}
  /\ pc' = IF to_remove = {id} THEN "idle" ELSE "complete"
  /\ UNCHANGED <<next_id, deadline, output, pidfd_ready, closed, wake_at, reading,
                 current, now, cause, kills, writers, pipe, written>>

(* waitid, blocked on a live child, is interrupted: poll returns the error *)
(* with the sandbox already out of the map, and the rest of to_remove is   *)
(* left for the next poll.                                                 *)
CompleteInterrupted(id) ==
  /\ Signals
  /\ pc = "complete" /\ id \in to_remove
  /\ proc[id] = "running"
  /\ Remove(id)
  /\ proc' = [proc EXCEPT ![id] = "lost"]
  /\ to_remove' = {}
  /\ pc' = "idle"
  /\ UNCHANGED <<next_id, deadline, output, pidfd_ready, closed, wake_at, reading,
                 current, now, cause, kills, writers, pipe, written, report>>

-----------------------------------------------------------------------------
(* The children, their descendants, the kernel and the clock.              *)

(* An edge puts a registered fd on the ready list.                         *)
Edge(id, tokens) == epoll' = IF id \in sandboxes THEN epoll \cup tokens ELSE epoll

(* A write is an edge of the pipe.                                         *)
Write(id, s) ==
  /\ proc[id] \in {"running", "zombie"} /\ writers[id][s] # {}
  /\ pipe[id][s] < PipeCap /\ written[id][s] < MaxWrite[s]
  /\ pipe' = [pipe EXCEPT ![id][s] = @ + 1]
  /\ written' = [written EXCEPT ![id][s] = @ + 1]
  /\ Edge(id, {PipeToken(id, s)})
  /\ UNCHANGED <<execVars, callVars, now, proc, cause, kills, writers, userVars>>

(* A process closes a stream; the last writer's close is an edge (EPOLLHUP).*)
Close(id, p, s) ==
  /\ p \in writers[id][s]
  /\ writers' = [writers EXCEPT ![id][s] = @ \ {p}]
  /\ Edge(id, IF writers[id][s] = {p} THEN {PipeToken(id, s)} ELSE {})
  /\ UNCHANGED <<execVars, callVars, now, proc, cause, kills, pipe, written, userVars>>

(* The child forks a process that inherits its streams.                    *)
Fork(id, d) ==
  /\ proc[id] = "running"
  /\ \A s \in Stream : d \notin writers[id][s]
  /\ \E s \in Stream : "child" \in writers[id][s]
  /\ writers' = [writers EXCEPT ![id] =
        [s \in Stream |-> IF "child" \in writers[id][s] THEN writers[id][s] \cup {d}
                                                        ELSE writers[id][s]]]
  /\ UNCHANGED <<execVars, callVars, now, epoll, proc, cause, kills, pipe, written, userVars>>

(* The child exits or dies of a signal: its streams are closed and its     *)
(* pidfd becomes readable.                                                 *)
ChildEnd(id, how) ==
  /\ proc[id] = "running"
  /\ proc' = [proc EXCEPT ![id] = "zombie"]
  /\ cause' = [cause EXCEPT ![id] = how]
  /\ writers' = [writers EXCEPT ![id] = [s \in Stream |-> writers[id][s] \ {"child"}]]
  /\ Edge(id, {PidfdToken(id)} \cup
              {PipeToken(id, s) : s \in {t \in Stream : writers[id][t] = {"child"}}})
  /\ UNCHANGED <<execVars, callVars, now, kills, pipe, written, userVars>>

(* SIGKILL reaches the child.  It reaches none of the child's descendants. *)
ChildKilled(id) == kills[id] # {} /\ ChildEnd(id, "signal")

Tick ==
  /\ now < MaxNow
  /\ now' = now + 1
  /\ UNCHANGED <<execVars, callVars, epoll, proc, cause, kills, writers, pipe, written, userVars>>

-----------------------------------------------------------------------------

User ==
  \/ SpawnStart
  \/ SpawnReturn
  \/ \E id \in Id : Kill(id)
  \/ \E id \in Id : WriteStdinBlock(id)
  \/ \E id \in Id : CloseStdin(id)
  \/ PollEmpty
  \/ PollStart

(* The steps the Executor takes inside poll.                               *)
Loop ==
  \/ \E batch \in SUBSET epoll : PollReturn(batch)
  \/ \E id \in Id, s \in Stream : read_pipe(id, s)
  \/ CheckDeadlines
  \/ \E id \in Id : Complete(id)

Environment ==
  \/ WriteStdinReturn
  \/ PollInterrupted
  \/ \E id \in Id : CompleteInterrupted(id)
  \/ \E id \in Id, s \in Stream : Write(id, s)
  \/ \E id \in Id, p \in Process, s \in Stream : Close(id, p, s)
  \/ \E id \in Id, d \in Descendants : Fork(id, d)
  \/ \E id \in Id, how \in {"exit", "signal"} : ChildEnd(id, how)
  \/ Tick

Next == User \/ Loop \/ Environment

Spec == Init /\ [][Next]_vars
-----------------------------------------------------------------------------
(* Fairness.  The user keeps polling (the documented loop calls poll while *)
(* active_count() > 0) and, between polls, may spawn and write to stdin as *)
(* often as it likes; the Executor's thread is scheduled, a handshake ends *)
(* (after 30 seconds at the latest), time passes and the kernel delivers   *)
(* SIGKILL.  Nothing is assumed of a child that is not killed, nor of what *)
(* a child leaves behind, nor that a write to stdin ever returns.          *)
Fairness ==
  /\ SF_vars(PollStart)
  /\ WF_vars(Loop)
  /\ WF_vars(pc = "spawn" /\ SpawnReturn)
  /\ WF_vars(Tick)
  /\ \A id \in Id : WF_vars(ChildKilled(id))

FairSpec == Spec /\ Fairness

-----------------------------------------------------------------------------
(* Every variable has its type.                                            *)
TypeOK ==
  /\ next_id \in 0..MaxId
  /\ sandboxes \in SUBSET Id
  /\ deadline \in [Id -> Nat]
  /\ output \in [Id -> [Stream -> Nat]]
  /\ pidfd_ready \in [Id -> BOOLEAN]
  /\ closed \in [Id -> [Stream -> BOOLEAN]]
  /\ stdin_fd \in [Id -> BOOLEAN]
  /\ pc \in {"idle", "spawn", "feed", "stdin", "wait", "read", "check", "complete"}
  /\ wake_at \in Nat
  /\ reading \in SUBSET (sandboxes \X Stream)
  /\ current \in SUBSET reading
  /\ to_remove \in SUBSET sandboxes
  /\ now \in 0..MaxNow
  /\ epoll \in SUBSET Nat
  /\ proc \in [Id -> {"none", "orphan", "running", "zombie", "reaped", "lost"}]
  /\ cause \in [Id -> {"none", "exit", "signal"}]
  /\ kills \in [Id -> SUBSET Reason]
  /\ writers \in [Id -> [Stream -> SUBSET Process]]
  /\ pipe \in [Id -> [Stream -> 0..PipeCap]]
  /\ written \in [Id -> [Stream -> Nat]]
  /\ report \in [Id -> Status \cup {"none"}]
  /\ stdin_closes \in [Id -> Nat]
  /\ tmpdirs \in SUBSET Id

(* A pipe that has data or has lost its last writer is, until the Executor *)
(* has seen its end, on the ready list or among the reads of the poll in   *)
(* progress; and the same for a dead child's pidfd.  mio is edge-triggered,*)
(* so an fd that is neither is never looked at again.  The one exception   *)
(* is a sandbox past its output limit, whose read_pipe stops early.        *)
PipeWakeup(id, s) ==
  (~closed[id][s] /\ (pipe[id][s] > 0 \/ writers[id][s] = {}))
     => \/ PipeToken(id, s) \in epoll
        \/ <<id, s>> \in reading
        \/ over_limit(output[id])

PidfdWakeup(id) ==
  (proc[id] = "zombie" /\ ~pidfd_ready[id]) => PidfdToken(id) \in epoll

NoLostWakeup ==
  \A id \in sandboxes : PidfdWakeup(id) /\ \A s \in Stream : PipeWakeup(id, s)

(* The Output in a terminal event is everything the sandbox ever wrote, to *)
(* the last unit, and nobody can write any more: is_done waits for the end *)
(* of both pipes, so neither the deadline's kill nor a process that        *)
(* outlives its parent truncates the output.                               *)
OutputComplete ==
  \A id \in Id : report[id] # "none" =>
     \A s \in Stream : output[id][s] = written[id][s] /\ writers[id][s] = {}

(* A sandbox whose collected output is past max_output has been sent       *)
(* SIGKILL for it, whichever stream crossed the limit; and none is killed  *)
(* for its output while it is within the limit.                            *)
OverLimitKilled ==
  \A id \in Id : "output" \in kills[id] <=> over_limit(output[id])

(* check_completions blocks in waitid for a child, and with it the whole   *)
(* event loop, only if the child is already dead or was sent SIGKILL.      *)
WaitIsBounded ==
  \A id \in to_remove : proc[id] # "zombie" => "deadline" \in kills[id]

(* Resources follow the sandbox.  While it is in the map the child is not  *)
(* reaped, its workspace exists and its stdin fd was closed exactly when   *)
(* the Executor says it is closed.  Once it is out of the map the child is *)
(* neither running nor a zombie (except through an error path of spawn or  *)
(* poll), the workspace is gone and stdin was closed exactly once: close() *)
(* of a reused fd number would hit another sandbox.                        *)
LifecycleOf(id) ==
  /\ id \in sandboxes =>
       /\ proc[id] \in {"running", "zombie"} /\ report[id] = "none"
       /\ id \in tmpdirs /\ id < next_id
       /\ stdin_closes[id] = IF stdin_fd[id] THEN 0 ELSE 1
  /\ id \notin sandboxes =>
       /\ proc[id] \in {"none", "orphan", "reaped", "lost"}
       /\ id \notin tmpdirs
       /\ proc[id] \in {"reaped", "lost"} => stdin_closes[id] = 1
       /\ proc[id] = "reaped" <=> report[id] # "none"

Lifecycle == \A id \in Id : LifecycleOf(id)

(* The error path of waitid, which drops a sandbox without any terminal    *)
(* event, is confined to sandboxes past their deadline whose child closed  *)
(* both pipes and outlived them.                                           *)
LostOnlyAfterDeadline ==
  \A id \in Id : proc[id] = "lost" =>
     /\ "deadline" \in kills[id] /\ now >= deadline[id]
     /\ \A s \in Stream : closed[id][s]

(* The terminal event tells what happened: a sandbox killed at its         *)
(* deadline is reported as a timeout although the clock is sampled again   *)
(* after waitid; a timeout is never reported early; and the other statuses *)
(* agree with the way the child ended and with its output.                 *)
ReportTruthful ==
  \A id \in Id : report[id] # "none" =>
     /\ "deadline" \in kills[id] => report[id] = "Timeout"
     /\ report[id] = "Timeout" => now >= deadline[id]
     /\ report[id] = "Signaled" => cause[id] = "signal"
     /\ report[id] = "Exited" => cause[id] = "exit" /\ ~over_limit(output[id])
     /\ report[id] = "OutputLimitExceeded" => cause[id] = "exit" /\ over_limit(output[id])

(* epoll_wait never sleeps past the deadline of a sandbox in the map.      *)
PollWakesForDeadline ==
  pc = "wait" => \A id \in sandboxes : wake_at <= now \/ wake_at <= deadline[id]

(* A poll stays in the kernel no longer than it has to: its epoll_wait     *)
(* sleeps past no deadline, and its waitid meets only children that are    *)
(* dead or were killed, so one sandbox never stalls another's timeout.     *)
PollIsBounded == WaitIsBounded /\ PollWakesForDeadline

(* What a terminal event reported is final: no later step revives the id,  *)
(* changes its collected output or sends it another event, and a sandbox   *)
(* leaves the map only with its event, except on waitid's error path.      *)
ReportIsFinal ==
  [][\A id \in Id :
       /\ report[id] # "none" =>
            /\ report'[id] = report[id] /\ output'[id] = output[id]
            /\ id \notin sandboxes'
       /\ id \in sandboxes \ sandboxes' => report'[id] # "none" \/ proc'[id] = "lost"]_vars

(* A poll has a bounded amount of work, however fast children write and    *)
(* whatever they do meanwhile: each of its steps goes on to a later part   *)
(* of the call, leaves fewer pipes to read or sandboxes to complete, or    *)
(* collects output of a sandbox that stays within its limit.  A child that *)
(* refills its pipe as fast as it is read thus keeps no deadline waiting.  *)
Polling == pc \in {"wait", "read", "check", "complete"}

Part == [wait |-> 1, read |-> 2, check |-> 3, complete |-> 4, idle |-> 5]

Collects(id) ==
  /\ total(output[id]) < total(output'[id]) /\ total(output'[id]) <= MaxOutput
  /\ \A other \in Id \ {id} : output'[other] = output[other]

Advances ==
  \/ UNCHANGED <<callVars, output>>
  \/ Part[pc] < Part[pc']
  \/ /\ pc' = pc /\ reading' \subseteq reading /\ to_remove' \subseteq to_remove
     /\ reading' # reading \/ to_remove' # to_remove
  \/ UNCHANGED <<pc, reading, to_remove>> /\ \E id \in Id : Collects(id)

PollAdvances ==
  [][Polling => Advances /\ \A id \in Id : total(output[id]) <= total(output'[id])]_vars

(* Every sandbox leaves the map: the documented loop                       *)
(* `while executor.active_count() > 0 { executor.poll(..)? }` ends.        *)
Completion ==
  \A id \in Id : id \in sandboxes ~> id \notin sandboxes

(* What a sandbox can wait for when its child is dead: a process the child *)
(* left behind holds a pipe, or the Executor stopped reading one.  The     *)
(* deadline ends neither, though ARCHITECTURE.md says of the parent        *)
(* `Enforce timeout (kill if exceeded)`.                                   *)
HeldOpen(id) ==
  /\ proc[id] = "zombie"
  /\ \/ \E s \in Stream : writers[id][s] # {}
     \/ over_limit(output[id])

(* Two things alone keep a sandbox in the map for ever.  A write to stdin, *)
(* of this sandbox or another's, in write_stdin or in spawn, that waits    *)
(* for a reader to the end of time stops the whole Executor; and a sandbox *)
(* whose dead child left its pipes to a process that never gives them up,  *)
(* or that passed its output limit, stays, and stops nobody else.          *)
CompletionUnlessHeld ==
  \/ <>[](pc \in {"stdin", "feed"})
  \/ \A id \in Id : <>[]HeldOpen(id) \/ (id \in sandboxes ~> id \notin sandboxes)

(* Every call of poll returns.                                             *)
PollReturns == Polling ~> pc = "idle"

-----------------------------------------------------------------------------
(* The inductive invariant behind the safety properties.                   *)

(* An id that was not handed out yet has left no trace.                    *)
Fresh ==
  \A id \in Id : id >= next_id =>
    /\ proc[id] = "none" /\ cause[id] = "none" /\ kills[id] = {}
    /\ ~pidfd_ready[id] /\ report[id] = "none"
    /\ \A s \in Stream : /\ writers[id][s] = {} /\ ~closed[id][s]
                          /\ pipe[id][s] = 0 /\ output[id][s] = 0 /\ written[id][s] = 0

(* The lists a call works on are empty outside the part that uses them.    *)
CallState ==
  /\ pc # "read" => reading = {}
  /\ pc # "complete" => to_remove = {}
  /\ \A id \in to_remove : pidfd_ready[id] /\ \A s \in Stream : closed[id][s]

(* No unit is lost between a writer and the Executor, and a stream is seen *)
(* closed only when it is empty and nobody can write to it.                *)
Conservation ==
  \A id \in Id, s \in Stream :
    /\ output[id][s] + pipe[id][s] = written[id][s]
    /\ closed[id][s] => pipe[id][s] = 0 /\ writers[id][s] = {}
    /\ report[id] # "none" => closed[id][s]

(* pidfd_ready is set for a child that is dead or was killed at its        *)
(* deadline; the ready list never says that a live child is dead.          *)
PidfdSound ==
  \A id \in Id :
    /\ PidfdToken(id) \in epoll => id \in sandboxes /\ proc[id] = "zombie"
    /\ id \in sandboxes /\ pidfd_ready[id] => proc[id] = "zombie" \/ "deadline" \in kills[id]
    /\ "deadline" \in kills[id] => now >= deadline[id]
    /\ proc[id] \in {"zombie", "reaped"} => cause[id] # "none"

Inductive ==
  /\ TypeOK /\ Fresh /\ CallState /\ Conservation /\ PidfdSound
  /\ NoLostWakeup /\ OverLimitKilled /\ Lifecycle
  /\ LostOnlyAfterDeadline /\ ReportTruthful
=============================================================================
