------------------------------- MODULE Launch -------------------------------
(***************************************************************************)
(* Starting a sandbox: fork, the handshake between the parent and the      *)
(* child, stdin, and what every exit of Executor::run and Executor::spawn  *)
(* leaves behind (executor.rs, with the pipes of workspace.rs).  Several   *)
(* threads of one process launch sandboxes at the same time, so a fork     *)
(* hands the child every descriptor the process holds at that moment.      *)
(*                                                                         *)
(* A descriptor is represented by the end of the pipe, eventfd or socket   *)
(* it refers to; stdout and stderr are treated alike by this code and      *)
(* stand here as one pipe, "out".                                          *)
(***************************************************************************)
EXTENDS FiniteSets

CONSTANTS
  Launches,  \* the launches, each on a thread of its own
  Plans,     \* plans: blocking (run or spawn), notify_mode, stdin
  Faults     \* the calls that may fail

AllFaults == {"workspace", "fork", "pidfd", "recv", "setup", "exec", "fcntl", "register", "die"}

ASSUME LaunchAssumption ==
  /\ Plans \subseteq [blocking : BOOLEAN, notify : BOOLEAN, stdin : BOOLEAN]
  /\ Faults \subseteq AllFaults

WorkspaceEnd == {"stdin_r", "stdin_w", "out_r", "out_w", "child_ready", "parent_done"}
SocketEnd == {"sock_parent", "sock_child"}
End == WorkspaceEnd \cup SocketEnd

VARIABLES
  plan,        \* the plan of a launch
  parent,      \* where the launching thread stands
  error,       \* the ExecutorError it returned, or "none"
  child,       \* where the child stands
  parent_fds,  \* ends held by the launching process
  child_fds,   \* ends held by a child
  ready,       \* child_ready eventfds that are set
  done,        \* parent_done eventfds that are set
  in_flight,   \* listener fds sent and not received
  listeners,   \* notify_fd of the launches that received theirs
  killed,      \* children that were sent SIGKILL
  dirs,        \* workspace directories that exist
  reclosed     \* history: ends closed by a process that had closed them

parentVars == <<parent, error, parent_fds, listeners, killed, dirs, reclosed>>
childVars == <<child, child_fds>>
syncVars == <<ready, done, in_flight>>
vars == <<plan, parentVars, childVars, syncVars>>

EndsOf(l, ends) == {<<l, e>> : e \in ends}
Workspace(l) == EndsOf(l, WorkspaceEnd)
Sockets(l) == IF plan[l].notify THEN EndsOf(l, SocketEnd) ELSE {}
Stdio(l) == EndsOf(l, {"stdin_r", "out_w"})
Held(end) == end \in parent_fds \/ \E l \in Launches : end \in child_fds[l]
Alive(l) == child[l] \notin {"none", "dead", "reaped"}

Init ==
  /\ plan \in [Launches -> Plans]
  /\ parent = [l \in Launches |-> "new"]
  /\ error = [l \in Launches |-> "none"]
  /\ child = [l \in Launches |-> "none"]
  /\ parent_fds = {}
  /\ child_fds = [l \in Launches |-> {}]
  /\ ready = {} /\ done = {} /\ in_flight = {}
  /\ listeners = {} /\ killed = {} /\ dirs = {} /\ reclosed = {}

-----------------------------------------------------------------------------
(* The launching thread.                                                   *)

Goto(l, state) == parent' = [parent EXCEPT ![l] = state]

\* Mutant: the launch gives up without reporting it.
Error_dropped(l, e) == Goto(l, "failed") /\ UNCHANGED error
Error(l, e) == Goto(l, "failed") /\ error' = [error EXCEPT ![l] = e]

(* close(2) on a set of ends, and the same when locals go out of scope.    *)
Close(ends) ==
  /\ parent_fds' = parent_fds \ ends
  /\ reclosed' = reclosed \cup (ends \ parent_fds)

OpenSockets(l) == Sockets(l) \cap parent_fds

(* Drop of the workspace closes all its OwnedFds, whether or not            *)
(* libc::close closed them before, and removes the directory.              *)
DropAll(l) ==
  /\ Close(Workspace(l) \cup OpenSockets(l))
  /\ dirs' = dirs \ {l}

(* The workspace in a ManuallyDrop: nothing of it is closed or removed.    *)
Leak(l) == Close(OpenSockets(l)) /\ UNCHANGED dirs

\* Mutant: both entry points drop the workspace.
GiveUp_drop(l) == DropAll(l)
(* An error after blocking_parent took the workspace, or in spawn_sandbox. *)
GiveUp(l) == IF plan[l].blocking THEN Leak(l) ELSE DropAll(l)

\* Mutants: no time limit, and no kill.
poll_or_kill_forever(l, fds) == FALSE
poll_or_kill_no_kill(l, fds) == l \notin fds /\ UNCHANGED killed
(* poll_or_kill: 30 seconds, or a signal, pass without the fd becoming     *)
(* readable, and the child is killed.                                      *)
poll_or_kill(l, fds) == l \notin fds /\ killed' = killed \cup {l}

(* Everything before fork: directories, files, pipes, eventfds, sockets.   *)
Create(l) ==
  /\ parent[l] = "new"
  /\ parent_fds' = parent_fds \cup Workspace(l) \cup Sockets(l)
  /\ dirs' = dirs \cup {l}
  /\ Goto(l, "fork")
  /\ UNCHANGED <<plan, error, listeners, killed, reclosed, childVars, syncVars>>

CreateFails(l) ==
  /\ "workspace" \in Faults /\ parent[l] = "new"
  /\ Error(l, "Workspace")
  /\ UNCHANGED <<plan, parent_fds, listeners, killed, dirs, reclosed, childVars, syncVars>>

Fork(l) ==
  /\ parent[l] = "fork"
  /\ child' = [child EXCEPT ![l] = "close_ends"]
  /\ child_fds' = [child_fds EXCEPT ![l] = parent_fds]
  /\ Goto(l, "pidfd")
  /\ UNCHANGED <<plan, error, parent_fds, listeners, killed, dirs, reclosed, syncVars>>

ForkFails(l) ==
  /\ "fork" \in Faults /\ parent[l] = "fork"
  /\ Error(l, "Fork")
  /\ DropAll(l)
  /\ UNCHANGED <<plan, listeners, killed, childVars, syncVars>>

(* run receives the listener first, spawn_sandbox closes its ends first.   *)
AfterPidfd(l) == IF plan[l].blocking /\ plan[l].notify THEN "recv" ELSE "close_ends"
AfterClose(l) == IF ~plan[l].blocking /\ plan[l].notify THEN "recv" ELSE "sync"
AfterRecv(l) == IF plan[l].blocking THEN "close_ends" ELSE "sync"

OpenPidfd(l) ==
  /\ parent[l] = "pidfd"
  /\ Goto(l, AfterPidfd(l))
  /\ UNCHANGED <<plan, error, parent_fds, listeners, killed, dirs, reclosed, childVars, syncVars>>

OpenPidfdFails(l) ==
  /\ "pidfd" \in Faults /\ parent[l] = "pidfd"
  /\ Error(l, "Pidfd")
  /\ DropAll(l)
  /\ UNCHANGED <<plan, listeners, killed, childVars, syncVars>>

close_parent_pipe_ends(l) ==
  /\ parent[l] = "close_ends"
  /\ Close(Stdio(l))
  /\ Goto(l, AfterClose(l))
  /\ UNCHANGED <<plan, error, listeners, killed, dirs, childVars, syncVars>>

(* The listener arrives; the parent's socket goes out of scope.            *)
RecvFd(l) ==
  /\ parent[l] = "recv" /\ l \in in_flight
  /\ in_flight' = in_flight \ {l}
  /\ listeners' = listeners \cup {l}
  /\ Close({<<l, "sock_parent">>})
  /\ Goto(l, AfterRecv(l))
  /\ UNCHANGED <<plan, error, killed, dirs, childVars, ready, done>>

RecvFdFails(l) ==
  /\ "recv" \in Faults /\ parent[l] = "recv" /\ l \in in_flight
  /\ in_flight' = in_flight \ {l}
  /\ Error(l, "SeccompNotify")
  /\ DropAll(l)
  /\ UNCHANGED <<plan, listeners, killed, childVars, ready, done>>

(* The parent holds the child's socket itself, so it sees no hang-up.      *)
RecvTimeout(l) ==
  /\ parent[l] = "recv" /\ poll_or_kill(l, in_flight)
  /\ Error(l, "ChildSetup")
  /\ DropAll(l)
  /\ UNCHANGED <<plan, listeners, childVars, syncVars>>

(* sync_with_child: the child is ready; release it.                        *)
sync_with_child(l) ==
  /\ parent[l] = "sync" /\ l \in ready
  /\ ready' = ready \ {l}
  /\ done' = done \cup {l}
  /\ Goto(l, "stdin")
  /\ UNCHANGED <<plan, error, parent_fds, listeners, killed, dirs, reclosed, childVars, in_flight>>

SyncTimeout(l) ==
  /\ parent[l] = "sync" /\ poll_or_kill(l, ready)
  /\ Error(l, "ChildSetup")
  /\ GiveUp(l)
  /\ UNCHANGED <<plan, listeners, childVars, syncVars>>

(* write_stdin has written everything; spawn_sandbox keeps stdin open for  *)
(* the user if the plan has none, blocking_parent always closes it.        *)
WriteStdin(l) ==
  /\ parent[l] = "stdin"
  /\ plan[l].stdin => Held(<<l, "stdin_r">>)
  /\ IF plan[l].blocking \/ plan[l].stdin
     THEN Close({<<l, "stdin_w">>})
     ELSE UNCHANGED <<parent_fds, reclosed>>
  /\ Goto(l, IF plan[l].blocking THEN "monitor" ELSE "nonblock")
  /\ UNCHANGED <<plan, error, listeners, killed, dirs, childVars, syncVars>>

(* EPIPE: nobody reads the pipe any more.                                  *)
WriteStdinFails(l) ==
  /\ parent[l] = "stdin" /\ plan[l].stdin /\ ~Held(<<l, "stdin_r">>)
  /\ Error(l, "Monitor")
  /\ GiveUp(l)
  /\ UNCHANGED <<plan, listeners, killed, childVars, syncVars>>

(* The rest of spawn_sandbox; the child's socket goes out of scope.        *)
SetNonblocking(l) ==
  /\ parent[l] = "nonblock"
  /\ Close(EndsOf(l, {"child_ready", "parent_done"}) \cup OpenSockets(l))
  /\ Goto(l, "register")
  /\ UNCHANGED <<plan, error, listeners, killed, dirs, childVars, syncVars>>

SetNonblockingFails(l) ==
  /\ "fcntl" \in Faults /\ parent[l] = "nonblock"
  /\ Error(l, "Monitor")
  /\ GiveUp(l)
  /\ UNCHANGED <<plan, listeners, killed, childVars, syncVars>>

(* Executor::spawn registers the fds with mio.                             *)
Register(l) ==
  /\ parent[l] = "register"
  /\ Goto(l, "monitor")
  /\ UNCHANGED <<plan, error, parent_fds, listeners, killed, dirs, reclosed, childVars, syncVars>>

(* Drop of a SpawnedSandbox closes the pipes it still records as open.     *)
DropSpawned(l) ==
  /\ Close(EndsOf(l, {"out_r"} \cup IF plan[l].stdin THEN {} ELSE {"stdin_w"}))
  /\ dirs' = dirs \ {l}

RegisterFails(l) ==
  /\ "register" \in Faults /\ parent[l] = "register"
  /\ Error(l, "Io")
  /\ DropSpawned(l)
  /\ UNCHANGED <<plan, listeners, killed, childVars, syncVars>>

(* The sandbox is over: monitor waits for the child only, the event loop   *)
(* also for the end of its output.  The child is reaped.                   *)
Finish(l) ==
  /\ parent[l] = "monitor" /\ child[l] = "dead"
  /\ \/ /\ plan[l].blocking
        /\ Close(EndsOf(l, {"out_r", "child_ready", "parent_done"}) \cup OpenSockets(l))
        /\ dirs' = dirs \ {l}
     \/ /\ ~plan[l].blocking /\ ~Held(<<l, "out_w">>)
        /\ DropSpawned(l)
  /\ child' = [child EXCEPT ![l] = "reaped"]
  /\ Goto(l, "finished")
  /\ UNCHANGED <<plan, error, listeners, killed, child_fds, syncVars>>

-----------------------------------------------------------------------------
(* The child.                                                              *)

ChildGoto(l, state) == child' = [child EXCEPT ![l] = state]

(* Any end of the child closes all its descriptors.                        *)
Exit(l) ==
  /\ ChildGoto(l, "dead")
  /\ child_fds' = [child_fds EXCEPT ![l] = {}]

(* The parent's ends, and the parent's socket that came with the fork.     *)
CloseChildEnds(l) ==
  /\ child[l] = "close_ends"
  /\ child_fds' = [child_fds EXCEPT ![l] = @ \ EndsOf(l, {"stdin_w", "out_r", "sock_parent"})]
  /\ ChildGoto(l, "setup")
  /\ UNCHANGED <<plan, parentVars, syncVars>>

(* setup_stdio, chdir and lockdown.                                        *)
Setup(l) ==
  /\ child[l] = "setup"
  /\ ChildGoto(l, IF plan[l].notify THEN "notify" ELSE "seccomp")
  /\ UNCHANGED <<plan, parentVars, child_fds, syncVars>>

(* The notify filter is installed and its listener sent to the parent.     *)
SendListener(l) ==
  /\ child[l] = "notify" /\ Held(<<l, "sock_parent">>)
  /\ in_flight' = in_flight \cup {l}
  /\ ChildGoto(l, "seccomp")
  /\ UNCHANGED <<plan, parentVars, child_fds, ready, done>>

SendListenerFails(l) ==
  /\ child[l] = "notify" /\ ~Held(<<l, "sock_parent">>)
  /\ Exit(l)
  /\ UNCHANGED <<plan, parentVars, syncVars>>

SetupFails(l) ==
  /\ "setup" \in Faults /\ child[l] \in {"setup", "notify", "seccomp"}
  /\ Exit(l)
  /\ UNCHANGED <<plan, parentVars, syncVars>>

(* apply_seccomp, then the eventfd.                                        *)
SignalReady(l) ==
  /\ child[l] = "seccomp"
  /\ ready' = ready \cup {l}
  /\ ChildGoto(l, "wait")
  /\ UNCHANGED <<plan, parentVars, child_fds, done, in_flight>>

\* Mutant: the child goes on without its release.
WaitParent_skipped(l) ==
  /\ child[l] = "wait"
  /\ ChildGoto(l, "close_fds")
  /\ UNCHANGED <<plan, parentVars, child_fds, syncVars>>
(* A read of the eventfd without a timeout.                                *)
WaitParent(l) ==
  /\ child[l] = "wait" /\ l \in done
  /\ done' = done \ {l}
  /\ ChildGoto(l, "close_fds")
  /\ UNCHANGED <<plan, parentVars, child_fds, ready, in_flight>>

\* Mutant: nothing but the sandbox's own ends is closed.
close_extra_fds_own(l) ==
  child_fds' = [child_fds EXCEPT ![l] = @ \ (Workspace(l) \ Stdio(l))]
(* close_range(3, MAX): stdin, stdout and stderr remain.                   *)
close_extra_fds(l) == child_fds' = [child_fds EXCEPT ![l] = @ \cap Stdio(l)]

CloseExtraFds(l) ==
  /\ child[l] = "close_fds"
  /\ close_extra_fds(l)
  /\ ChildGoto(l, "execve")
  /\ UNCHANGED <<plan, parentVars, syncVars>>

Exec(l) ==
  /\ child[l] = "execve"
  /\ ChildGoto(l, "running")
  /\ UNCHANGED <<plan, parentVars, child_fds, syncVars>>

ExecFails(l) ==
  /\ "exec" \in Faults /\ child[l] = "execve"
  /\ Exit(l)
  /\ UNCHANGED <<plan, parentVars, syncVars>>

(* The program ends, or SIGKILL reaches the child, or the host ends it.    *)
ProgramEnds(l) == child[l] = "running" /\ Exit(l) /\ UNCHANGED <<plan, parentVars, syncVars>>
ChildKilled(l) == l \in killed /\ Alive(l) /\ Exit(l) /\ UNCHANGED <<plan, parentVars, syncVars>>
ChildDies(l) == "die" \in Faults /\ Alive(l) /\ Exit(l) /\ UNCHANGED <<plan, parentVars, syncVars>>

-----------------------------------------------------------------------------
Parent(l) ==
  \/ Create(l) \/ CreateFails(l) \/ Fork(l) \/ ForkFails(l)
  \/ OpenPidfd(l) \/ OpenPidfdFails(l) \/ close_parent_pipe_ends(l)
  \/ RecvFd(l) \/ RecvFdFails(l) \/ RecvTimeout(l)
  \/ sync_with_child(l) \/ SyncTimeout(l)
  \/ WriteStdinFails(l) \/ SetNonblocking(l) \/ SetNonblockingFails(l)
  \/ Register(l) \/ RegisterFails(l) \/ Finish(l)

Setting(l) ==
  \/ CloseChildEnds(l) \/ Setup(l) \/ SendListener(l) \/ SendListenerFails(l)
  \/ SetupFails(l) \/ SignalReady(l) \/ WaitParent(l)
  \/ CloseExtraFds(l) \/ Exec(l) \/ ExecFails(l)

Ending(l) == ProgramEnds(l) \/ ChildDies(l)

(* Time passes while every thread has returned or waits in poll.           *)
Idle ==
  /\ \A l \in Launches : parent[l] \in {"failed", "finished", "recv", "sync"}
  /\ UNCHANGED vars

Next ==
  \/ \E l \in Launches : Parent(l) \/ WriteStdin(l) \/ Setting(l) \/ Ending(l) \/ ChildKilled(l)
  \/ Idle

Spec == Init /\ [][Next]_vars

(* Threads and children run, and SIGKILL takes effect.  Nothing is assumed *)
(* of the program, nor of a write to stdin, which may block.               *)
FairSpec ==
  /\ Spec
  /\ \A l \in Launches :
       WF_vars(Parent(l)) /\ WF_vars(Setting(l)) /\ WF_vars(ChildKilled(l))

-----------------------------------------------------------------------------
(* Types; and a launch has an error exactly when it failed.                *)
TypeOK ==
  /\ \A l \in Launches : error[l] # "none" <=> parent[l] = "failed"
  /\ plan \in [Launches -> Plans]
  /\ parent \in [Launches -> {"new", "fork", "pidfd", "close_ends", "recv", "sync", "stdin",
                              "nonblock", "register", "monitor", "finished", "failed"}]
  /\ error \in [Launches -> {"none", "Workspace", "Fork", "Pidfd", "SeccompNotify",
                             "ChildSetup", "Monitor", "Io"}]
  /\ child \in [Launches -> {"none", "close_ends", "setup", "notify", "seccomp", "wait",
                             "close_fds", "execve", "running", "dead", "reaped"}]
  /\ parent_fds \subseteq Launches \X End /\ reclosed \subseteq Launches \X End
  /\ child_fds \in [Launches -> SUBSET (Launches \X End)]
  /\ ready \subseteq Launches /\ done \subseteq Launches /\ in_flight \subseteq Launches
  /\ listeners \subseteq Launches /\ killed \subseteq Launches /\ dirs \subseteq Launches

Released(l) == child[l] \in {"close_fds", "execve", "running"}
Refused(l) == error[l] \in {"Workspace", "Fork", "Pidfd", "SeccompNotify", "ChildSetup"}

(* The handshake.  A child gets past its wait only when its parent passed  *)
(* sync_with_child with it, holding the listener if there is one; and the  *)
(* child of a launch that reported a handshake error never runs the        *)
(* command, even if it became ready as the parent gave up.                 *)
HandshakeOrdered ==
  \A l \in Launches : Released(l) =>
     /\ parent[l] \notin {"new", "fork", "pidfd", "close_ends", "recv", "sync"}
     /\ ~Refused(l)
     /\ plan[l].notify => l \in listeners

(* The command holds its stdio and nothing else: no other sandbox's pipe,  *)
(* eventfd or socket that the fork happened to hand down.                  *)
StdioOnly ==
  \A l \in Launches : child[l] \in {"execve", "running"} => child_fds[l] = Stdio(l)

(* A failed launch leaves no child behind that was not killed, with these  *)
(* exceptions: pidfd_open or recv_fd failed, when the child waits for ever *)
(* for its release, or the error came after the release.                   *)
FailureContained ==
  \A l \in Launches : (parent[l] = "failed" /\ Alive(l)) =>
     l \in killed \/ error[l] \in {"Pidfd", "SeccompNotify", "Monitor", "Io"}

(* A descriptor is closed once.  When a launch has returned, all its ends  *)
(* are closed and its directory is gone, except after an error inside      *)
(* blocking_parent, where the workspace is never dropped; and none is      *)
(* closed a second time - by number, when another thread may hold it -     *)
(* except on the error paths of spawn_sandbox that run the workspace's     *)
(* Drop after close_parent_pipe_ends, although "OwnedFd::Drop must not run *)
(* again on those same fds" (blocking_parent).                             *)
ClosedOnce ==
  /\ \A l \in Launches : parent[l] \in {"failed", "finished"} =>
       \/ l \notin dirs /\ \A end \in Workspace(l) \cup Sockets(l) : end \notin parent_fds
       \/ plan[l].blocking /\ error[l] \in {"ChildSetup", "Monitor"}
  /\ \A end \in reclosed :
       ~plan[end[1]].blocking /\ error[end[1]] \in {"ChildSetup", "SeccompNotify", "Monitor"}

(* The launches whose child waits for a release that will not come.        *)
Stranded == {l \in Launches : error[l] \in {"Pidfd", "SeccompNotify"} /\ child[l] = "wait"}

(* The end of a dead sandbox's output reaches its reader, although forks   *)
(* of other threads hand the write end to other children: they all close   *)
(* it, except those of a failed launch that wait for ever.                 *)
EofArrives ==
  \A l \in Launches :
    (parent[l] = "monitor" /\ child[l] = "dead")
      ~> (Held(<<l, "out_w">>) =>
            /\ <<l, "out_w">> \notin parent_fds
            /\ \A m \in Launches : <<l, "out_w">> \in child_fds[m] => m \in Stranded)

(* A launch comes back from its handshake, whatever happens to the child.  *)
HandshakeReturns ==
  \A l \in Launches :
    parent[l] = "new" ~> parent[l] \in {"stdin", "failed"}
=============================================================================
