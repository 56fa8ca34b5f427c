------------------------------ MODULE Monitor -------------------------------
(***************************************************************************)
(* The blocking half of the Executor, from the end of the handshake with   *)
(* the child to the return of Executor::run: blocking_parent               *)
(* (executor.rs) writes the plan's stdin, runs the poll(2) loop of monitor *)
(* (monitor.rs), drains the pipes and cleans up.  The child, the           *)
(* processes it leaves behind and the clock run concurrently.              *)
(*                                                                         *)
(* The n-th unit written to a stream is represented by the number n, so    *)
(* that a collected buffer tells which units it holds.                     *)
(***************************************************************************)
EXTENDS Integers, Sequences, SequencesExt

CONSTANTS
  MaxNow,        \* bound on the clock
  Timeout,       \* plan.timeout
  MaxWrite,      \* bound on the units ever written to one stream
  MaxOutput,     \* plan.max_output, in units
  BufLen,        \* units one read() returns at most (4096 bytes)
  PipeCap,       \* capacity of a pipe, in units
  StdinLen,      \* units of plan.stdin
  Descendants,   \* processes the child may leave behind, holding its pipes
  ChildCloses,   \* TRUE iff a child may close its streams before it ends
  Signals        \* TRUE iff the host handles signals, so calls can see EINTR

ASSUME MonitorAssumption ==
  /\ MaxNow \in Nat /\ Timeout \in 0..MaxNow /\ MaxWrite \in Nat /\ MaxOutput \in Nat
  /\ BufLen \in Nat \ {0} /\ PipeCap \in Nat \ {0} /\ StdinLen \in Nat
  /\ "child" \notin Descendants
  /\ ChildCloses \in BOOLEAN /\ Signals \in BOOLEAN

Stream  == {"stdout", "stderr"}
Process == {"child"} \cup Descendants

VARIABLES
  \* blocking_parent and monitor
  pc,          \* where the caller's thread stands
  stdin_left,  \* units of plan.stdin not written yet
  deadline,    \* deadline, set when monitor starts
  revents,     \* what the last poll() reported
  buf,         \* stdout_buf and stderr_buf
  status,      \* status; "Err" once an error is returned
  exit_seen,   \* exit_code or signal was recorded
  workspace,   \* TRUE while the temp directory exists
  \* the kernel, as the code uses it
  now,         \* Instant::now()
  proc,        \* life cycle of the child
  cause,       \* how the child ended
  killed,      \* SIGKILL was sent to the child
  stdin_pipe,  \* units in the stdin pipe
  readers,     \* processes holding the read end of the stdin pipe
  writers,     \* processes holding the write end of a pipe
  written,     \* units written to a pipe
  taken,       \* units read from a pipe
  at_end       \* history: units written when the child ended

callVars == <<pc, stdin_left, deadline, revents, buf, status, exit_seen, workspace>>
kernVars == <<now, proc, cause, killed, stdin_pipe, readers, writers, written, taken, at_end>>
vars     == <<callVars, kernVars>>

Quiet == [in |-> {}, hup |-> {}, pidfd |-> FALSE]

Init ==
  /\ pc = "stdin" /\ stdin_left = StdinLen
  /\ deadline = 0 /\ revents = Quiet
  /\ buf = [s \in Stream |-> <<>>]
  /\ status = "Exited" /\ exit_seen = FALSE /\ workspace = TRUE
  /\ now = 0
  /\ proc = "running" /\ cause = "none" /\ killed = FALSE
  /\ stdin_pipe = 0 /\ readers = {"child"}
  /\ writers = [s \in Stream |-> {"child"}]
  /\ written = [s \in Stream |-> 0]
  /\ taken = [s \in Stream |-> 0]
  /\ at_end = [s \in Stream |-> 0]

-----------------------------------------------------------------------------
(* write_stdin: a loop of blocking write()s.                               *)
WriteStdin ==
  LET n == Min({stdin_left, PipeCap - stdin_pipe})
  IN /\ pc = "stdin" /\ readers # {} /\ n > 0
     /\ stdin_left' = stdin_left - n
     /\ stdin_pipe' = stdin_pipe + n
     /\ UNCHANGED <<pc, deadline, revents, buf, status, exit_seen, workspace,
                    now, proc, cause, killed, readers, writers, written, taken, at_end>>

(* The pipe is full, more of plan.stdin is to come, and somebody could     *)
(* read: the child, or a process it left behind.                           *)
StdinFull == pc = "stdin" /\ readers # {} /\ stdin_left > 0 /\ stdin_pipe = PipeCap

(* blocking_parent returns an error of write() at once with ?, its         *)
(* workspace in a ManuallyDrop: EPIPE without a reader, EINTR in a wait.   *)
WriteStdinFails ==
  /\ pc = "stdin" /\ stdin_left > 0
  /\ readers = {} \/ (Signals /\ StdinFull)
  /\ status' = "Err"
  /\ pc' = "done"
  /\ UNCHANGED <<stdin_left, deadline, revents, buf, exit_seen, workspace, kernVars>>

(* Everything is written: close stdin and enter monitor.  What becomes of  *)
(* the stdin pipe now is no concern of the code, nor of the model.         *)
StartMonitor ==
  /\ pc = "stdin" /\ stdin_left = 0
  /\ deadline' = now + Timeout
  /\ pc' = "loop"
  /\ stdin_pipe' = 0 /\ readers' = {}
  /\ UNCHANGED <<stdin_left, revents, buf, status, exit_seen, workspace,
                 now, proc, cause, killed, writers, written, taken, at_end>>

-----------------------------------------------------------------------------
(* The loop of monitor.                                                    *)

\* Mutant: the deadline is never looked at.
timed_out_never == FALSE
timed_out == now >= deadline

(* Deadline: kill, and wait for the child without asking how it ended.     *)
LoopTimeout ==
  /\ pc = "loop" /\ timed_out
  /\ killed' = TRUE
  /\ status' = "Timeout"
  /\ pc' = "wait_killed"
  /\ UNCHANGED <<stdin_left, deadline, revents, buf, exit_seen, workspace,
                 now, proc, cause, stdin_pipe, readers, writers, written, taken, at_end>>

(* poll() for at most 100 ms, which is below one tick of the clock here:   *)
(* it may return with nothing to report, and reports nothing when a signal *)
(* interrupts it, where the code goes round the loop again.                *)
LoopPoll ==
  /\ pc = "loop" /\ ~timed_out
  /\ \/ revents' = [in    |-> {s \in Stream : written[s] > taken[s]},
                    hup   |-> {s \in Stream : writers[s] = {}},
                    pidfd |-> proc = "zombie"]
     \/ Signals /\ revents' = Quiet
  /\ pc' = "stdout"
  /\ UNCHANGED <<stdin_left, deadline, buf, status, exit_seen, workspace, kernVars>>

After(s) == IF s = "stdout" THEN "stderr" ELSE "pidfd"

\* Mutant: the buffer is always taken to be full.
Chunk_full(s) == [k \in 1..BufLen |-> taken[s] + k]
(* What one read() of the pipe returns.                                    *)
Chunk(s) == [k \in 1..Min({BufLen, written[s] - taken[s]}) |-> taken[s] + k]

ReadNothing(s) ==
  /\ pc = s /\ s \notin revents.in
  /\ pc' = After(s)
  /\ UNCHANGED <<stdin_left, deadline, revents, buf, status, exit_seen, workspace, kernVars>>

exceeds(s) == Len(buf[s]) + Len(Chunk(s)) > MaxOutput

ReadData(s) ==
  /\ pc = s /\ s \in revents.in /\ ~exceeds(s)
  /\ buf' = [buf EXCEPT ![s] = @ \o Chunk(s)]
  /\ taken' = [taken EXCEPT ![s] = @ + Len(Chunk(s))]
  /\ pc' = After(s)
  /\ UNCHANGED <<stdin_left, deadline, revents, status, exit_seen, workspace,
                 now, proc, cause, killed, stdin_pipe, readers, writers, written, at_end>>

(* The chunk that would pass the limit is dropped and the child killed.    *)
ReadOverLimit(s) ==
  /\ pc = s /\ s \in revents.in /\ exceeds(s)
  /\ taken' = [taken EXCEPT ![s] = @ + Len(Chunk(s))]
  /\ status' = "OutputLimitExceeded"
  /\ killed' = TRUE
  /\ pc' = "wait_killed"
  /\ UNCHANGED <<stdin_left, deadline, revents, buf, exit_seen, workspace,
                 now, proc, cause, stdin_pipe, readers, writers, written, at_end>>

(* The pidfd is readable, or both pipes are hung up: wait for the child.   *)
CheckExit ==
  /\ pc = "pidfd"
  /\ pc' = IF revents.pidfd \/ revents.hup = Stream THEN "wait_exit" ELSE "loop"
  /\ UNCHANGED <<stdin_left, deadline, revents, buf, status, exit_seen, workspace, kernVars>>

\* Mutant: a signal is reported like an exit.
exit_status_exited == "Exited"
exit_status == IF cause = "signal" THEN "Signaled" ELSE "Exited"

(* waitid after a kill ignores how the child ended; after an exit it       *)
(* records it.  Neither has a timeout.                                     *)
WaitKilled ==
  /\ pc = "wait_killed" /\ proc = "zombie"
  /\ proc' = "reaped"
  /\ pc' = "drain_stdout"
  /\ UNCHANGED <<stdin_left, deadline, revents, buf, status, exit_seen, workspace,
                 now, cause, killed, stdin_pipe, readers, writers, written, taken, at_end>>

WaitExit ==
  /\ pc = "wait_exit" /\ proc = "zombie"
  /\ proc' = "reaped"
  /\ status' = exit_status
  /\ exit_seen' = TRUE
  /\ pc' = "drain_stdout"
  /\ UNCHANGED <<stdin_left, deadline, revents, buf, workspace,
                 now, cause, killed, stdin_pipe, readers, writers, written, taken, at_end>>

(* waitid interrupted: monitor returns the error without draining.         *)
WaitInterrupted ==
  /\ Signals
  /\ pc \in {"wait_killed", "wait_exit"} /\ proc = "running"
  /\ status' = "Err"
  /\ pc' = "cleanup"
  /\ UNCHANGED <<stdin_left, deadline, revents, buf, exit_seen, workspace, kernVars>>

-----------------------------------------------------------------------------
(* drain_remaining, first for stdout, then for stderr.                     *)
DrainState(s) == IF s = "stdout" THEN "drain_stdout" ELSE "drain_stderr"

\* Mutant: the drain stops as soon as it read one chunk.
DrainMore_once(s) == Len(buf[s]) < MaxOutput /\ written[s] > taken[s] /\ buf[s] = <<>>
(* Whether the next turn of drain_remaining's loop reads data.             *)
DrainMore(s) == Len(buf[s]) < MaxOutput /\ written[s] > taken[s]

Fitting(s) == SubSeq(Chunk(s), 1, Min({Len(Chunk(s)), MaxOutput - Len(buf[s])}))

Drain(s) ==
  /\ pc = DrainState(s) /\ DrainMore(s)
  /\ buf' = [buf EXCEPT ![s] = @ \o Fitting(s)]
  /\ taken' = [taken EXCEPT ![s] = @ + Len(Chunk(s))]
  /\ UNCHANGED <<pc, stdin_left, deadline, revents, status, exit_seen, workspace,
                 now, proc, cause, killed, stdin_pipe, readers, writers, written, at_end>>

DrainDone(s) ==
  /\ pc = DrainState(s) /\ ~DrainMore(s)
  /\ pc' = IF s = "stdout" THEN "drain_stderr" ELSE "cleanup"
  /\ UNCHANGED <<stdin_left, deadline, revents, buf, status, exit_seen, workspace, kernVars>>

(* blocking_parent closes the pipes and removes the directory.             *)
Cleanup ==
  /\ pc = "cleanup"
  /\ workspace' = FALSE
  /\ pc' = "done"
  /\ UNCHANGED <<stdin_left, deadline, revents, buf, status, exit_seen, kernVars>>

-----------------------------------------------------------------------------
(* The child, its descendants and the clock.                               *)

ReadStdin ==
  /\ readers # {} /\ stdin_pipe > 0
  /\ stdin_pipe' = stdin_pipe - 1
  /\ UNCHANGED <<callVars, now, proc, cause, killed, readers, writers, written, taken, at_end>>

CloseStdin(p) ==
  /\ p \in readers /\ (p = "child" => ChildCloses)
  /\ readers' = readers \ {p}
  /\ UNCHANGED <<callVars, now, proc, cause, killed, stdin_pipe, writers, written, taken, at_end>>

Write(s) ==
  /\ writers[s] # {} /\ pc # "done"
  /\ written[s] < MaxWrite /\ written[s] - taken[s] < PipeCap
  /\ written' = [written EXCEPT ![s] = @ + 1]
  /\ UNCHANGED <<callVars, now, proc, cause, killed, stdin_pipe, readers, writers, taken, at_end>>

Close(p, s) ==
  /\ p \in writers[s] /\ (p = "child" => ChildCloses)
  /\ writers' = [writers EXCEPT ![s] = @ \ {p}]
  /\ UNCHANGED <<callVars, now, proc, cause, killed, stdin_pipe, readers, written, taken, at_end>>

(* What the child forks has the streams that the child has.                *)
Fork(d) ==
  /\ proc = "running"
  /\ d \notin readers /\ \A s \in Stream : d \notin writers[s]
  /\ writers' = [s \in Stream |-> writers[s] \cup (IF "child" \in writers[s] THEN {d} ELSE {})]
  /\ readers' = readers \cup (IF "child" \in readers THEN {d} ELSE {})
  /\ UNCHANGED <<callVars, now, proc, cause, killed, stdin_pipe, written, taken, at_end>>

ChildEnd(how) ==
  /\ proc = "running"
  /\ proc' = "zombie"
  /\ cause' = how
  /\ writers' = [s \in Stream |-> writers[s] \ {"child"}]
  /\ readers' = readers \ {"child"}
  /\ at_end' = written
  /\ UNCHANGED <<callVars, now, killed, stdin_pipe, written, taken>>

ChildKilled == killed /\ ChildEnd("signal")

(* The clock is bounded, and leaves room for a whole timeout after stdin.  *)
Tick ==
  /\ pc # "done"
  /\ now < IF pc = "stdin" THEN MaxNow - Timeout ELSE MaxNow
  /\ now' = now + 1
  /\ UNCHANGED <<callVars, proc, cause, killed, stdin_pipe, readers, writers, written, taken, at_end>>

(* The call has returned.                                                  *)
Done == pc = "done" /\ UNCHANGED vars

Parent ==
  \/ WriteStdin \/ WriteStdinFails \/ StartMonitor
  \/ LoopTimeout \/ LoopPoll
  \/ \E s \in Stream : ReadNothing(s) \/ ReadData(s) \/ ReadOverLimit(s)
  \/ CheckExit \/ WaitKilled \/ WaitExit
  \/ \E s \in Stream : Drain(s) \/ DrainDone(s)
  \/ Cleanup

Environment ==
  \/ WaitInterrupted
  \/ ReadStdin
  \/ \E p \in Process : CloseStdin(p)
  \/ \E s \in Stream : Write(s)
  \/ \E p \in Process, s \in Stream : Close(p, s)
  \/ \E d \in Descendants : Fork(d)
  \/ \E how \in {"exit", "signal"} : ChildEnd(how)
  \/ Tick

Next == Parent \/ Environment \/ Done

Spec == Init /\ [][Next]_vars

(* The caller's thread runs, time passes and SIGKILL takes effect; nothing *)
(* is assumed of a child that was not killed, nor of what it leaves.       *)
FairSpec == Spec /\ WF_vars(Parent) /\ WF_vars(Tick) /\ WF_vars(ChildKilled)

-----------------------------------------------------------------------------
Statuses == {"Exited", "Signaled", "Timeout", "OutputLimitExceeded", "Err"}

(* Every variable has its type; a collected buffer never passes the limit. *)
TypeOK ==
  /\ pc \in {"stdin", "loop", "stdout", "stderr", "pidfd", "wait_killed", "wait_exit",
             "drain_stdout", "drain_stderr", "cleanup", "done"}
  /\ stdin_left \in 0..StdinLen /\ deadline \in Nat
  /\ revents \in [in : SUBSET Stream, hup : SUBSET Stream, pidfd : BOOLEAN]
  /\ \A s \in Stream : buf[s] \in Seq(1..MaxWrite)
  /\ status \in Statuses
  /\ exit_seen \in BOOLEAN /\ workspace \in BOOLEAN /\ killed \in BOOLEAN
  /\ now \in 0..MaxNow
  /\ proc \in {"running", "zombie", "reaped"} /\ cause \in {"none", "exit", "signal"}
  /\ stdin_pipe \in 0..PipeCap /\ readers \in SUBSET Process
  /\ writers \in [Stream -> SUBSET Process]
  /\ written \in [Stream -> 0..MaxWrite] /\ at_end \in [Stream -> 0..MaxWrite]
  /\ \A s \in Stream : taken[s] \in 0..written[s]

(* max_output bounds each collected stream, drained output included.       *)
LimitRespected == \A s \in Stream : Len(buf[s]) <= MaxOutput

Returned == pc = "done" /\ status # "Err"

(* Everything written before the child ended is in the Output, up to the   *)
(* limit, in order and without a gap - although the loop leaves on the     *)
(* pidfd without having read the pipes empty - unless the limit was hit,   *)
(* when the offending chunk is dropped.                                    *)
OutputKept ==
  (Returned /\ status # "OutputLimitExceeded") =>
     \A s \in Stream :
       /\ buf[s] = [k \in 1..Len(buf[s]) |-> k]
       /\ Len(buf[s]) >= Min({at_end[s], MaxOutput})

(* Bytes are never repeated or reordered, and a gap in the output is only  *)
(* ever the one chunk that broke the limit.                                *)
GapOnlyAtLimit ==
  \A s \in Stream :
    /\ \A k \in 1..(Len(buf[s]) - 1) :
         buf[s][k] < buf[s][k + 1] /\ buf[s][k + 1] - buf[s][k] <= BufLen + 1
    /\ status # "OutputLimitExceeded" => IsPrefix(buf[s], [k \in 1..MaxWrite |-> k])

(* The Output tells how the child ended: no exit code or signal is made up *)
(* for a killed child, a timeout is never early, and the child is reaped   *)
(* and its directory removed.                                              *)
ResultTruthful ==
  Returned =>
    /\ proc = "reaped" /\ ~workspace
    /\ status = "Exited" => cause = "exit" /\ exit_seen
    /\ status = "Signaled" => cause = "signal" /\ exit_seen
    /\ status = "Timeout" => killed /\ ~exit_seen /\ now >= deadline
    /\ status = "OutputLimitExceeded" =>
         killed /\ ~exit_seen /\ \E s \in Stream : written[s] > MaxOutput

(* What collects the output loses nothing within the limit, invents        *)
(* nothing and passes the limit never: the three parts above.              *)
OutputFaithful == LimitRespected /\ OutputKept /\ GapOnlyAtLimit

(* The only places where the call may stay for ever are a full stdin pipe  *)
(* that the child, or after its death a process it left behind, holds and  *)
(* reads no more - it may itself be waiting for its full stdout pipe to be *)
(* read - and waitid after both streams were hung up: everywhere else it   *)
(* comes back, by the deadline if need be, even if a descendant keeps the  *)
(* output pipes and whatever the child writes.  Data that fits the pipe    *)
(* never stalls it.                                                        *)
ReturnsUnlessStalled ==
  []<>( \/ pc = "done"
        \/ StdinFull
        \/ pc = "wait_exit" /\ proc = "running" /\ revents.hup = Stream )

(* "timeout - Kills child if deadline exceeded": a child without stdin     *)
(* does not outlive its deadline, so the call returns.                     *)
Returns == <>(pc = "done")
=============================================================================
