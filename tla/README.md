# evalbox in TLA+

evalbox runs a command in a sandbox: it forks a child, lets the child lock itself down with
Landlock, rlimits and seccomp, feeds its stdin, collects its output up to a limit and kills it at
a deadline. This directory holds a model of the parts of evalbox where processes, threads, the
kernel and the clock interleave, the configurations that check it with TLC, and proofs checked by
TLAPS. Paths of source files below are relative to `crates/`, documents are in `docs/` beside it.

    tlc -workers 2 -config ExecutorOne.cfg MCExecutor     # a run: PROJECT.json names its MC module
    tlapm ExecutorProofs.tla                              # proofs: every *Proofs.tla

## The system

| Part | State it keeps | Operations | What is hard about it |
|---|---|---|---|
| Executor, `evalbox-sandbox/src/executor.rs` | map of sandboxes (deadline, output, three flags, fds), a mio poll, an id counter | `spawn`, `poll`, `kill`, `write_stdin`, `close_stdin` | edge-triggered readiness; deadlines, exits and pipe ends in any order; waits inside the loop |
| Session, `evalbox/src/session.rs` | an Executor; the Vec of a poll | the Executor's calls | what a poll that fails takes with it |
| Blocking monitor, `monitor.rs` and `blocking_parent` | output buffers, status, deadline | `run`: stdin, poll loop, drain, wait, cleanup | what is in the pipes when the child ends; blocking calls without timeout |
| Launch, `executor.rs` (`run`, `spawn_sandbox`, `child_process`) | fds of parent and child, two eventfds, a socket pair, the workspace | fork, handshake, listener transfer, error returns | forks of several threads copy each other's fds; every call can fail half-way |
| Seccomp, `evalbox-sys/src/seccomp.rs`, `Syscalls` in `plan.rs` | the allow and deny sets, two BPF programs | `allow`, `deny`, `apply_seccomp`, the compilers | 8-bit jump offsets over lists of variable length |
| Supervisor, `notify/supervisor.rs`, `virtual_fs.rs` | the notification it handles, an fd | `handle_event` | the notified call can go away between any two steps |
| Lockdown, `isolation/`, `evalbox-sys/src/landlock.rs` | the Landlock ruleset, the rlimits and privileges of the child | `lockdown` | rules that nest and add up; a missing feature or a refused rule is no error |
| Check and resolve, `check.rs`, `resolve.rs`, `sysinfo.rs` | a cached verdict, cached system paths | `check`, `resolve_binary` | what they find out is relied on later, in the child |
| Go runtime, `evalbox/src/go`, `probe_cache.rs` | compiled programs on disk, a probe cache per process | `GoBuilder::exec`, `get_or_probe` | processes and threads share the files; a kill in the middle of a write; an upgrade of go |
| Python and shell runtimes | - | builders of a plan | - |

How they interact: a user's thread owns an `Executor`, alone or inside a `Session`. `run` and
`spawn` share the launch (fork and handshake over two eventfds, with the listener sent over a Unix
socket in a notify mode). `run` then monitors the one child with poll(2); `spawn` registers its
pidfd and two pipes with mio, and `poll` serves all of them. The child installs the filters
compiled by evalbox-sys before it signals that it is ready, so its own last calls go through them.
The supervisor is written to serve the listener; nothing in `run` or `spawn` starts one. The
runtimes make a plan, and use `Executor::run` for it and, in Go's case, for the compiler too.

What makes each part correct, and what could go wrong at which line, is listed under `hazards` in
PROJECT.json with the properties that cover it.

## Modules

| Module | Models | Runs | Proofs |
|---|---|---|---|
| `Sandbox` | what the Executor promises of a sandbox | - | - |
| `Executor` | the event loop | ExecutorOne, ExecutorOverLimit | `ExecutorProofs` |
| `ExecutorPromise` | the mapping from Executor to Sandbox | ExecutorOne | `ExecutorProofs` |
| `Session` | a Session over the Executor | SessionTwo | `SessionProofs` |
| `Monitor` | the blocking run, from the end of the handshake | MonitorAll, MonitorClosedStreams | `MonitorProofs` |
| `Launch` | fork, handshake, error paths | LaunchTwo | `LaunchProofs` |
| `Seccomp` | filter compilation and the kernel running it | SeccompFilters, SeccompDeny | `SeccompProofs` |
| `Supervisor` | handling of notifications | SupervisorAll | `SupervisorProofs` |
| `Lockdown` | check, resolution, lockdown, exec | LockdownAll, LockdownAbi | `LockdownProofs` |
| `GoCache` | exec of Go programs over the two caches | GoCacheAll | `GoCacheProofs` |

Each `MC*` module gives a module's structured constants their values. A definition whose name ends
like `is_done_no_stderr` and stands before `is_done` is a mutant: the code with one plausible
mistake, kept to show that the properties notice it. No specification uses a mutant.

### Executor

The user's calls are sequential, because `&mut self` is. Children, descendants, the kernel and the
clock act between any two steps of a call. `poll` is split where other processes can be observed:
`PollStart` (calculate_timeout and entering epoll_wait), `PollReturn` (a batch of at most
`EventCap` events), one `read_pipe` action per `read()`, `CheckDeadlines` (the first loop of
check_completions, one clock sample), and `Complete` per removed sandbox (deregister, waitid, a
second clock sample, the event, the drop). A `spawn` starts (`SpawnStart`) and returns (`Spawn`,
`SpawnError`) in two steps, and meanwhile nobody polls: it is in the handshake, whose own steps are in
`Launch`, or, with stdin data in the plan, also in the blocking write of all of it ("feed"), which
lasts as long as its readers please. The new child's own steps before its registration with epoll are
not told apart from those after it, since registration reports what happened before. A `write_stdin`
that finds the pipe full leaves the thread in "stdin" in the same way (`WriteStdinBlock`,
`WriteStdinReturn`). A read that fails with anything but EAGAIN, which a pipe's read end does not do,
would count as an end of file (executor.rs:490-495) and is left out.

`epoll` is the kernel's ready list. Edges are put on it by writes, the last close of a pipe and the
end of a child; `PollReturn` takes events off, as mio registers with EPOLLET. An edge of a pipe
that has been read empty in the meantime stays on the list, so the model has some wake-ups that a
kernel would skip, and none fewer. A signal interrupts epoll_wait only while nothing is ready and its
timeout has not passed, which is the order the kernel looks in. SIGKILL reaches the child and not what the child left
behind. Output is counted in units, of which one `read()` moves at most `BufLen`.

Properties. `NoLostWakeup`: edge-triggered readiness is never dropped, except past the output
limit. `OutputComplete`: the Output in a terminal event is all that was ever written.
`OverLimitKilled` (checked as a part of `Inductive`), `Lifecycle` (map, child, stdin fd and workspace go together),
`LostOnlyAfterDeadline`, `ReportTruthful`; `PollIsBounded`: neither epoll_wait nor waitid can keep a
poll past a deadline it has to act on; `PollAdvances`: every step of a poll goes on to a later part of
the call, leaves it less to read or to complete, or collects output of a sandbox within its limit, so
a child that writes as fast as poll reads cannot hold it; and for liveness `PollReturns` and
`CompletionUnlessHeld`. The latter lists all that can keep a sandbox in the map for ever. A write to
stdin that never ends, of this sandbox or of another's, in `write_stdin` or in `spawn`, stops the whole
Executor. A process that a dead child left behind with one of its pipes, or an output past the limit
(`HeldOpen`), keeps its own sandbox and no other. Nothing is assumed of such a process.

### Sandbox and ExecutorPromise

`Sandbox` says what a user relies on, with five variables and no pipe: an id is handed out once, a
sandbox writes, ends in one way and is past its deadline from some moment on, and then there is one
terminal event, with everything that was written and a status that is true; or none, if the
sandbox is past its deadline and was lost. `ExecutorPromise` maps the Executor to it: `stageOf`
reads the stage off the map and the child's state, `lateIds` the deadlines off the clock, and
`resultOf` takes what the Executor *collected*, so that a step of `Sandbox` only fits if that is what
was written. `ImplementsSandbox` is `Sandbox!Spec` under the mapping; ExecutorOne checks it.

### Session

`Session` runs the Executor's actions and keeps the Vec that `Session::poll` fills and hands over.
`EventsReachUser`: data and terminal events reach the user once, whatever the polls' boundaries.
`EmptyMeansDone`: the documented loop may stop when no sandbox is active. Both except a session that
lost a sandbox in waitid: the poll that returned the error dropped the events it had collected.

### Monitor

`blocking_parent` from `write_stdin` on: the loop with one `read()` per ready pipe and round, the
look at the pidfd, `wait_for_exit`, the drain and the cleanup. The n-th unit written to a stream
is the number n, so a buffer shows gaps, repetitions and order. `OutputFaithful` says what the Output
holds (`OutputKept`), where it may have a gap (`GapOnlyAtLimit`) and how much it holds
(`LimitRespected`); `ResultTruthful` what its status means; `ReturnsUnlessStalled` says that the call
comes back except from the two waits the code does not bound: the write of stdin into a full pipe,
and waitid after both streams hung up. `readers` holds the processes that have the read end of stdin
open: a descendant inherits it with the rest, so that the write blocks on after the child's death as
long as the descendant neither reads nor goes, and ends with EPIPE only when no reader is left.

### Launch

Several threads of one process launch sandboxes. `parent_fds` is what the process holds,
`child_fds[l]` what child l holds: a fork copies the whole of the former. Every call that returns
an error may fail (`Faults`), a child may die at any moment, and poll_or_kill may run out at any
moment (its 30 seconds are far above the steps of a handshake, and a signal ends it as well). A read or
write of an eventfd that fails (executor.rs:626-636) ends the launch as the timeout does. stdout
and stderr are one pipe, as the launch treats them alike. A descriptor that a process closes
although it had closed it before is recorded in `reclosed`: the code closes raw numbers that
`OwnedFd`s still own, and a number may have been reused.

`HandshakeOrdered`: no child passes its wait unless its parent released it, nor when its launch
reported a handshake error. `StdioOnly`: the command inherits its three streams. `FailureContained`
and `ClosedOnce`: what every exit leaves behind, with the exceptions the code has. `EofArrives`: the
forks of other threads do not keep an output pipe open for ever, except through a child stranded by
a failed launch. `HandshakeReturns`: every launch comes back.

### Seccomp

The filters are sequences of instructions built as the code builds them, offsets cut to
`JumpWidth`, and the kernel interprets them call by call: the whitelist filter, then the notify
filter, the stricter verdict winning. `VerdictUnlessDenied` compares the outcome with the
documented verdict of every call, but says nothing of a denied clone3, clone, socket or ioctl;
`DeniedIsKilled`, which the code breaks, says what plan.rs documents of a denied call (SeccompDeny).
`JumpsLand`: every jump stays inside its filter; `HandshakePasses` that the child's own calls between apply_seccomp and execve pass, in a notify
mode too. The kernel's instruction semantics, and that of `HashSet` (any order), are external.
`HandshakeAssumption` says that these calls are in the default list and not in that of the notify filter.
The verifier of the kernel, which rejects a filter with a jump outside, is left out, so that such a
jump would be seen.

### Supervisor

`handle_event` step by step (receive, read the path, check the id, translate and open, inject, or
continue), against the kernel's table of notifications: a signal or death removes a waiting
notification at any moment, and the thread may then make another call, which changes its memory.
The open is done as the code does it: with the call's flags but O_CLOEXEC, with mode 0666 whatever
the call's, with the mode of `creat` for flags, and with `..` as written, so that a path under `/work`
may leave the workspace (`Resolve`); flags are sets, and the mode of the file is not followed further.
The open of a FIFO waits for its other end ("blocked", `OpenReturns`).

`OpensForTheNotified` says that the supervisor opens a file only for the notified call: where its path,
as written, is mapped to, with its flags but O_CLOEXEC. That this is not always the file or the mode the
call asked for is the code's doing, and the property claims no more. `NothingForgotten` and
`EventTruthful` say that each received notification is answered once or gone; `RecvReturns` that the
blocking receive does not block. `CallsReturnIfServed`: if a caller serves the listener, every suspended
call is answered or goes away, unless the supervisor waits in the open of a FIFO. No code of the
repository is such a caller, so the condition stands in the property and not in the fairness: in a notify
mode the first intercepted call of a program waits until the deadline.

A program that rewrites the path of a call from another thread is not modelled, nor are errors of
notif_recv other than the call having gone. The host's files are a set of paths; what the kernel does
with a call that continues is not followed.

### Lockdown

One launch, followed from `check::check` to execve through the functions that decide what the
command may do: the host either passes the check or not; `resolve_binary` accepts a command and
brings the mounts of the kind of system; the child sets no_new_privs, builds the ruleset right by
right for the ABI, adds one rule at a time in the code's order, restricts itself, sets the rlimits,
the securebits and the bounding set, and executes. `HostRemoves` takes a directory away between two
steps. `LockdownAssumption` says what a tree of paths is: `Above[p]` holds p and what it lies in;
`TreeAssumption`, that what is there has what it lies in.
A symbolic link and its target are one path. The handshake and the filters, which lie between
lockdown and execve, are in `Launch` and `Seccomp`, where lockdown is one step that may fail.

`NeverUnconfined` computes what a running command may do with every path, from the union of the
rules on the directories above it: no more than what docs/SECURITY_MODEL.md lists (`Documented`) and
the rights that the code grants beyond that list (`Undocumented`, see "Runs and bounds"); and it asks
for the scopes, the network, the rlimits and no_new_privs too.
`ResolvedRuns`: a command found in a directory of the system, or in a read-only mount, can be
executed; resolution, the mounts and the rules agree. A command's interpreter and libraries, file
modes and ownership are left out. The kernel's part (`KernelKnows`, `KernelTakes`, `May`) is
written from the kernel's Landlock interface as the code uses it.

The following was seen on the way and is in the model as the code has it: a writable mount of a plan
gets no rule at all, not even to read; a mount's `target` is never used; a rule for a mount that
is a regular file is refused, since it contains READ_DIR, with no more than a warning; a command under
`/work/` is accepted without looking, though without pivot_root it does not exist when it is executed.
The cached list of sysinfo.rs:9 is computed anew for each launch in the model, where the code asks once
per process. A path is a member of a set here, so `/work` itself and what lies below it are accepted alike.

### GoCache

Calls of `GoBuilder::exec` on the threads of several processes. What they share is the probe cache of
their process, keyed by the go binary's path and mtime, and the compiled programs on disk, keyed by a
hash of the wrapped code, go.mod and the cgo setting. Code and go.mod are sequences of bytes, and what is
hashed is what the code feeds to the hash (`Hashed`): one after the other and a 1 for cgo, without
separators. `exists`, `read` and `write` on a cached file
are separate steps, and `fs::write` is one too many: it truncates the file and then writes block after
block at its own offset, so that two writers interleave, and one that is killed, or fails, leaves a
part (`Crash`, `Fail`; "cut" marks it). `Upgrade` replaces the go binary, perhaps with the same mtime.

`RunsOwnProgram`: a whole program that a call runs was compiled by a call with the same string of
hashed bytes (`Alike`), from that call's code, go.mod and files; under `no_cache` it is the call's own. `TornHasCause`: a file that is not one whole program has a write in progress, a
write cut off, or two different programs compiled for the same key. `ProbeFresh`: what the probe cache
hands out is not older than the call. The exceptions in these properties are what the code does:
two calls whose code and go.mod divide the same bytes differently share a program, and no property says
that a call runs its own code; files, environment and toolchain are no part of the key; a damaged file is used again by every later
call, as nothing checks what was read; a process that asks for both cgo settings gets the probe of the
first, whose CGO_ENABLED overwrites the one the plan had; an mtime that an upgrade keeps keeps the
old probe.

The hash itself is taken to be free of collisions, and a file has two blocks. What `Executor::run` makes of a plan
is an outcome only: the compiler writes to `/output`, which has neither a mount nor a rule in
`Lockdown`, and the program is started as `/work/main`, which does not exist without pivot_root. Both
are taken to work.

## Runs and bounds

| Run | Bounds | Why they are enough |
|---|---|---|
| ExecutorOne | one sandbox, a descendant, one unit per stream, limit 1, pipes and buffers of 1, event buffer of 2, deadline 1 of 2 ticks; with and without plan.stdin, `write_stdin` may block | output below, at and above the limit, which the two streams share; three fds and two places in a batch; a clock before, at and after the deadline; the refinement and the liveness |
| SessionTwo | two sandboxes fed by plan.stdin, deadlines 0 and 1, one unit on stdout, limit 0, event buffer of 1, signals | six tokens compete for one place; equal deadlines, and deadlines in either order; polls that fail with events in the Vec; the inductive invariant of `ExecutorProofs` is checked here |
| MonitorAll | 4 units per stream, limit 2, buffers and pipes of 2, one descendant, signals, three units of stdin | a chunk below, across and above the limit, the pipe full and refilled; stdin that does not fit its pipe |
| LaunchTwo | two launches, each of blocking / not, notify / not, stdin / not as in `MixedPlans`, all faults | a fork between any two steps of another launch |
| SeccompFilters | ten syscalls, default list of 5, at most 6, jump width 21, two edits, ascending and descending order | 6 and 21 stand for 200 and 256: the largest list fits and the next one wraps, as in the code; every syscall is first, last and in between |
| SupervisorAll | two threads, two notifications, six calls (exclusive creation, FIFO, `..`, two mappings, `creat`, no open), both modes | a thread repeats a call, or makes another, while the supervisor works on the first; the theorems hold for any number of notifications |
| LockdownAll | 15 hosts (each kind of system, each feature missing in turn, every ABI from 0 to 7), 224 plans (8 commands, 7 lists of mounts, network open or blocked, binary given or not), one removable directory | a file in each kind of place, so that every rule is the only one for some file; mounts nested in system directories and in one another, with and without execute |
| GoCacheAll | three calls in two processes, which differ in cgo, in files, in `no_cache` or in where the code ends and go.mod begins; one upgrade; errors and kills | two writers and a reader of one file; two settings in one process, and in two; symmetric calls c1 and c2 start from the same builders in the same process |

Every other run is a counterexample to something the repository states; `findings` in
PROJECT.json quotes it:

- ExecutorOverLimit: past `max_output` the pipe is not drained; with edge-triggered readiness the
  end of file is never seen and the sandbox stays in the map, so the documented loop does not end.
- MonitorClosedStreams: a child that closes both streams and runs on is waited for without limit.
- SeccompDeny: a plan that denies clone, which is the example plan.rs:147-149 gives, changes nothing, as
  the filter jumps to clone's handler before it looks at the list; socket, ioctl and clone3 likewise.
- LockdownAbi: on a host with the Landlock ABI that the check requires, 4, or with 5, lockdown asks for
  a right that this kernel does not know and fails.

Further divergences are documented as hazards and as exceptions of the properties:

- a child that exited before its deadline is reported as `Timeout` ("timed out and was killed") if it
  is polled later, and one the Executor killed for its output as `Signaled` (`ReportTruthful`);
- the drain of `monitor` cuts the output without setting `OutputLimitExceeded` (`OutputKept`);
- an error of `spawn_sandbox` after `close_parent_pipe_ends` closes the same numbers twice, which a
  comment in `blocking_parent` says must not happen (`ClosedOnce`);
- `poll_blocking` documents "blocking until at least one is available or timeout expires"
  (session.rs:81); it also returns an empty Vec earlier, after a wake-up for the end of one pipe, say;
- "Enforce timeout (kill if exceeded)" (docs/ARCHITECTURE.md:233): the deadline's SIGKILL reaches the
  child alone, and a sandbox whose child left a process behind with a pipe is reported, and leaves the
  map, when that process ends (`HeldOpen`);
- "Supervisor logs syscalls and returns `SECCOMP_USER_NOTIF_FLAG_CONTINUE`" (plan.rs:52): no Supervisor
  is ever run on the listener that spawn keeps (executor.rs:162 and 745; the condition of
  `CallsReturnIfServed`);
- docs/SECURITY_MODEL.md lists /etc as "Read-Only" where /usr is "Read-Only + Execute" (line 216), the
  workspace as "Read-Write" (209-211), /run as "Not Accessible" (229) and says "no access: everything
  else" (36); sysinfo.rs:145 says that /etc is not included at all. The code lets a command execute files
  in the workspace and in /etc, and read and execute in /sbin, /gnu/store and, on NixOS,
  /run/current-system (`Undocumented`);
- "Execute the Go code" (go/builder.rs:181), and the test that different programs have different keys
  (line 395): the key is a hash of undelimited bytes (`Alike`);
- `handle_event` returns an error where it documents `None` for a stale notification, and takes the
  mode of `creat` for open flags (supervisor.rs:143, `OpensForTheNotified`);
- the probe cache "automatically invalidates when the binary changes" (probe_cache.rs:3), unless the
  mtime is kept (`ProbeFresh`).

## Fairness

- Executor: the user calls `poll` again and again while there are sandboxes, as the module's
  documented loop does, and after an error too, though it may spawn and write to stdin in between (strong
  fairness of `PollStart`, which these calls disable); the loop's thread is scheduled; a handshake ends,
  after 30 seconds at the latest; time passes; the kernel delivers SIGKILL. Nothing is assumed of a child
  that was not killed, of what a child leaves behind, or of a write to stdin, in `spawn` or in
  `write_stdin`. A Session has the fairness of its Executor.
- Monitor and Launch: the caller's thread and, in Launch, the children that set themselves up run;
  time passes; SIGKILL takes effect. A write to stdin is not assumed to end.
- Supervisor: a handle_event that was called runs on to its end, unless it waits in the open of a FIFO.
  That somebody calls it whenever the listener is readable is a condition of `CallsReturnIfServed`, not a
  fairness of the specification.
- CHECK_DEADLOCK is never switched off: modules whose system may come to rest have an explicit
  stuttering action for it (`PollEmpty`, `Done`, `Idle`, `Over`, `Rest`).

## Proofs

Each theorem holds for every value of its module's constants that satisfies the named assumption of
that module, and nothing else. Every proof has the same shape: an inductive invariant; one lemma per
action, or per group of actions with the same effect (`SpawnInductive`, `WriteBlockKeeps`, ...), with a
step for each conjunct that the action can disturb; frame lemmas for what it leaves alone; and a
theorem per property that the invariant implies.

`ExecutorProofs`, for every number of sandboxes, every limit, capacity and timeout, and any set of
descendants, from `ConstantsAssumption`:

- `TokenRoundTrip`: decoding inverts encoding of tokens, for every id.
- `Invariance`: `Inductive` holds in every reachable state. `Inductive` is the conjunction of the
  types, what is true of unused ids (`Fresh`), which lists a call may be working on (`CallState`),
  conservation of output (collected + in the pipe = written, and a closed stream has no writer),
  the soundness of pidfd readiness (`PidfdSound`), and the safety properties themselves. These
  need each other: `OutputComplete` is only inductive with conservation, the bound on waitid with
  the fact that `pidfd_ready` implies a dead or a killed child, which in turn needs that a token on
  the ready list belongs to a sandbox of the map, hence `TokensDistinct`.
- From it `TypeCorrect`, `WakeupsKept`, `OutputIsComplete`, `LimitIsEnforced`, `WaitsAreBounded`,
  `ResourcesFollowSandbox`, `LossIsConfined`, `ReportsTellTheTruth`, the action properties
  `ReportsAreFinal` and `DeadlinesWakePoll`, and `PollsAreBounded`; and the action property
  `PollsAdvance`, from `ReadAdds`: a `read()` adds to one sandbox's output, and to no other's.

The last part of `ExecutorProofs` is `PromiseKept`: `Executor` implements `Sandbox` under the mapping of
`ExecutorPromise`. With `Inductive`, and `EndsOnce` (a child that was not heard to end has no cause),
`StagesOfInvariant` reads the abstract stage off the concrete state. Spawn, spawn errors, writes, ends,
ticks, completions and interrupted completions each map to the action of `Sandbox` named in their
lemma; the steps inside a poll change nothing `Visible` (`InvisibleStep`).

`SessionProofs`, for the same constants: `AllEventsArrive` (`EventsReachUser`) and `EmptySessionIsDone`
(`EmptyMeansDone`). Every step of a Session is one of its Executor (`SessionStep`), so a Session implements
the Executor (`SessionIsExecutor`) and with it `Sandbox` (`SessionKeepsPromise`), and `Inductive` comes
along; to it `SessionInv` adds that the books balance for each sandbox (`Booked`) and that the Vec is
empty outside a poll (`Handed`), which is why an interrupted epoll_wait loses nothing.

`MonitorProofs`, for every limit, buffer, pipe and amount of stdin, from `MonitorAssumption`:
`MonitorTyped`, `OutputIsFaithful`, `ResultIsTruthful`. `MonitorInv` describes each buffer by `Shape`:
the units up to the n-th are the stream's, the rest are those after a gap of g units, and the number
taken from the pipe is the length plus the gap, or more once the buffer is full. A gap needs a status
of `OutputLimitExceeded`, or an error after it; `Stage` and `Verdict` say when there can be one.

`LaunchProofs`, for any number of launches, any plans and failing calls: `LaunchTyped`,
`HandshakesAreOrdered`, `CommandsHoldStdioOnly`, `FailuresAreContained`, `EndsAreClosedOnce`. The
invariant `LaunchInv` gives the exact set of ends that the launching process holds at each place of a
launch (`HoldsExactly`), from which a double close and a leak are read off; `ReleaseSound`,
`ListenerHeld` and `PathsApart` tie the handshake to it, `ChildHolds` the child's end of it. A step of
one launch leaves the others alone (`OthersKeep`), but a fork copies what all of them hold.

`SeccompProofs`, for every list that passes the size check, every order of a set, any edits of the plan
and every call, from `SeccompAssumption`: `SeccompTyped`, `JumpsStayInside`, `VerdictsUnlessDenied`, `DenyHoldsOffHandlers`
(`deny` does what it says of every syscall without a handler of its own) and `FilterLengthBounded` (the
cast of a filter's length is safe, with 28 instructions beside the list, not "~20"); from
`HandshakeAssumption` too, `HandshakesPass`. The length of a program depends on the list, but no induction over the list is
needed: `WhitelistStage` and `NotifyStage` are the two programs with an assertion at each line, as one writes
them beside assembly code, and the stretch of the checks, however long, has a single one, that the
call is none of the syscalls already compared. `WhitelistTable` and `NotifyTable` say which instruction
stands at which distance from either end, and that no offset was cut: the farthest jump skips the whole list
and 14 instructions more, which is where `MAX_WHITELIST_SIZE + 14 < JumpWidth` comes from (200 and 256 in
the code). Each step then goes from one assertion to the next (`WhitelistStep`, `NotifyStep`), each
return gives what its assertion calls for (`WhitelistReturns`, `NotifyReturns`), and `PlanInv` says that the
list holds what the plan asked for, through the two sets and the HashSet. `BlockedFlags` checks the
mask of clone against the seven namespace flags, bit by bit.

`SupervisorProofs`, for any threads, calls, mappings and files: `SupervisorTyped`, `RecvNeverBlocks`,
`OpensForNoOther`, `NothingIsForgotten`, `EventsAreTruthful`. `SupInv` says that a suspended thread stands in
one notification (`Suspended`), that the table has no more pending calls than the semaphore has units
(`Counted`, by cardinality), that one call at a time is being handled (`Handled`), that only what was
replied to has an answer (`Answered`), and what path and file the supervisor holds (`PathKnown`, `FileHeld`).

`LockdownProofs`, for every tree of paths, set of hosts, list of mounts and set of failing calls that
satisfies `LockdownAssumption`: `LockdownTypes` (the types, which no run
needs to check) and `AlwaysConfined` (`NeverUnconfined`). The invariant, `LockdownInv`, adds two parts to the types: `Progress`, what each phase has behind it (after
the check an ABI of at least 4, hence all rights are handled; after the rules an enforced domain), and
`RulesCovered`, that each rule of the ruleset and each one still to be added grants what `Covered` says,
the list by rule, which `CoveredIsKnown` shows to be documented or one of the named exceptions. A rule is covered on its own, for every path below it, which is why their union is;
`MountRules`, `ExtraRules` and `FixedRules` show it for the three parts of the list.
`ResolvedAlwaysRuns` (`ResolvedRuns`) needs `TreeAssumption` too: a host's and a plan's files are trees, a
plan's files stay in the workspace, and nobody removes what `detect` goes by. Without the last, a host that
lost `/nix/store` after the resolution would count as another kind whose mounts the command never brought.
`HomesInv` follows the rule of each directory commands are found in: the mount is among `extra`
(`ExtraComplete`), then its rule is in the list, in the ruleset or refused with a warning
(`HomesCovered`), as long as the directory is there; and it is there if a file below it is
(`FilesAreTree`).

`GoCacheProofs`, for any calls, processes, builders and upgrades, from `GoCacheAssumption` and
`FileAssumption` (a hole is told from a program, no file from a file): `CacheTyped`, `ProgramsAreOwn`,
`ProbesAreFresh`, `TornFilesHaveCause`. `CacheInv` says what a call has at each place (`Staged`,
`Carried`, `Probed`), and of the disk that every block of a file was compiled for its key (`DiskInv`), and
that some call truncated the file last and every block up to its position was compiled since
(`LatestInv`): a file with no writer in progress or cut off is thus whole, or has blocks of two
programs.

Every safety invariant, action property and refinement that a run checks is thus proved. Only
model-checked is liveness (`CompletionUnlessHeld`, `PollReturns`, `ReturnsUnlessStalled`,
`EofArrives`, `HandshakeReturns`, `CallsReturnIfServed`), which needs ENABLED and is out of the prover's reach.

## Not modelled

- The Python and shell runtimes, which build a plan from paths and arguments; the text that `go/wrap.rs`
  puts around a program, and the search for its binary.
- `elf.rs` and `ldcache.rs`, parsers of bytes. `resolve_shared_libs` marks a library as resolved
  before it queues it and skips what is marked, so only the first level is ever followed; nothing
  reads the result.
- `validate.rs`: `validate_cmd` looks at the arguments and has no state; `validate_path` has no caller.
- The search of PATH (the `which` crate), and the values of the rlimits.
- Files written into the workspace, the layout of control messages, logging.
- `NotifyMode::Disabled` in the supervisor, an assertion; `VirtualFs::is_allowed`, which has no
  caller.

## What could follow

- Progress measures for the liveness properties, the half of their argument that needs no ENABLED: that
  every step of a handshake and of `handle_event` brings it nearer to its end, as `PollsAdvance` says of
  a poll.
- The Python builder's use of the probe cache, should its probe come to depend on the call.

PROJECT.json holds the machine-readable inventory: components, runs, the source lines behind each
definition, mutants, hazards, findings and theorems.
