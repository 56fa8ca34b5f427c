---------------------------- MODULE LaunchProofs ----------------------------
(* Proofs about Launch, for any number of launches, any plans and faults.  *)
EXTENDS Launch, TLAPS

-----------------------------------------------------------------------------
(* The inductive invariant.                                                *)

Early == {"new", "fork", "pidfd", "close_ends", "recv", "sync"}
Late == {"stdin", "nonblock", "register", "monitor", "finished"}

Refusals == {"Workspace", "Fork", "Pidfd", "SeccompNotify", "ChildSetup"}

(* A child is released only by a parent that is done with the handshake.   *)
ReleaseSound(l) == (l \in done \/ Released(l)) => parent[l] \notin Early /\ ~Refused(l)

(* The parent has its listener before sync_with_child, on either path.     *)
ListenerHeld(l) ==
  plan[l].notify =>
    /\ parent[l] \in Late \cup {"sync"} => l \in listeners
    /\ error[l] \in {"Monitor", "Io"} => l \in listeners
    /\ parent[l] = "close_ends" /\ plan[l].blocking => l \in listeners

(* Which states belong to which entry point.                               *)
PathsApart(l) ==
  /\ parent[l] = "recv" => plan[l].notify
  /\ parent[l] \in {"nonblock", "register"} => ~plan[l].blocking

(* Whether the launching process holds an end of a launch, by the place it *)
(* stands at.                                                              *)
Holds(l, e) ==
  /\ e \in SocketEnd => plan[l].notify
  /\ parent[l] # "new"
  /\ e \in {"stdin_r", "out_w"} =>
       \/ parent[l] \in {"fork", "pidfd", "close_ends"}
       \/ parent[l] = "recv" /\ plan[l].blocking
  /\ e = "stdin_w" =>
       ~(parent[l] \in {"nonblock", "register", "monitor"} /\ (plan[l].blocking \/ plan[l].stdin))
  /\ e = "sock_parent" =>
       \/ parent[l] \in {"fork", "pidfd", "recv"}
       \/ parent[l] = "close_ends" /\ ~plan[l].blocking
  /\ e \in {"child_ready", "parent_done", "sock_child"} =>
       ~(parent[l] = "register" \/ (parent[l] = "monitor" /\ ~plan[l].blocking))

Returned(l) == parent[l] \in {"failed", "finished"}

(* The process holds exactly these, until the launch returns.              *)
HoldsExactly(l) ==
  ~Returned(l) => /\ \A e \in End : <<l, e>> \in parent_fds <=> Holds(l, e)
                  /\ parent[l] = "new" => l \notin dirs

(* ClosedOnce, for one launch.                                             *)
ClosedOnceOf(l) ==
  /\ Returned(l) =>
       \/ l \notin dirs /\ \A e \in End : <<l, e>> \notin parent_fds
       \/ plan[l].blocking /\ error[l] \in {"ChildSetup", "Monitor"}
  /\ \A e \in End : <<l, e>> \in reclosed =>
       ~plan[l].blocking /\ error[l] \in {"ChildSetup", "SeccompNotify", "Monitor"}

(* FailureContained, and that there is no child before the fork.           *)
Contained(l) ==
  /\ parent[l] \in {"new", "fork"} \/ error[l] \in {"Workspace", "Fork"} => child[l] = "none"
  /\ error[l] = "ChildSetup" => l \in killed

ParentInv(l) ==
  /\ ReleaseSound(l) /\ ListenerHeld(l) /\ PathsApart(l)
  /\ HoldsExactly(l) /\ ClosedOnceOf(l) /\ Contained(l)

(* A child has its stdio from the fork on, and after close_range only that.*)
ChildHolds(l) ==
  /\ child[l] \in {"close_ends", "setup", "notify", "seccomp", "wait", "close_fds"}
       => Stdio(l) \subseteq child_fds[l]
  /\ child[l] \in {"execve", "running"} => child_fds[l] = Stdio(l)

LaunchInv == TypeOK /\ \A l \in Launches : ParentInv(l) /\ ChildHolds(l)

-----------------------------------------------------------------------------
(* What the operators on descriptors do.                                   *)

(* A set of ends of one launch. *)
LEMMA EndsOfPairs ==
  \A l, m, e, names : <<m, e>> \in EndsOf(l, names) <=> m = l /\ e \in names
BY DEF EndsOf

(* The ends of a launch named by Workspace, Stdio and Sockets. *)
LEMMA NamedEnds ==
  \A l, m, e :
    /\ <<m, e>> \in Workspace(l) <=> m = l /\ e \in WorkspaceEnd
    /\ <<m, e>> \in Stdio(l) <=> m = l /\ e \in {"stdin_r", "out_w"}
    /\ <<m, e>> \in Sockets(l) <=> m = l /\ e \in SocketEnd /\ plan[l].notify
BY EndsOfPairs DEF Workspace, Stdio, Sockets

(* close(2) on the ends of launch l with a name in names.                  *)
Closes(l, names) ==
  \A m \in Launches, e \in End :
    /\ <<m, e>> \in parent_fds' <=> <<m, e>> \in parent_fds /\ ~(m = l /\ e \in names)
    /\ <<m, e>> \in reclosed' <=>
         \/ <<m, e>> \in reclosed
         \/ m = l /\ e \in names /\ <<m, e>> \notin parent_fds

(* Close does what it says, name by name. *)
LEMMA CloseNames ==
  ASSUME NEW l, NEW names, Close(EndsOf(l, names))
  PROVE  Closes(l, names)
BY EndsOfPairs DEF Close, Closes

OpenSocketNames(l) == {e \in SocketEnd : plan[l].notify /\ <<l, e>> \in parent_fds}

(* The sockets that go out of scope are the ones still open. *)
LEMMA OpenSocketsNames ==
  ASSUME NEW l, NEW m, NEW e
  PROVE  <<m, e>> \in OpenSockets(l) <=> m = l /\ e \in OpenSocketNames(l)
BY NamedEnds DEF OpenSockets, OpenSocketNames

(* Dropping the workspace closes all of it and the open sockets. *)
LEMMA DropAllNames ==
  ASSUME NEW l, DropAll(l)
  PROVE  Closes(l, WorkspaceEnd \cup OpenSocketNames(l)) /\ dirs' = dirs \ {l}
BY NamedEnds, OpenSocketsNames DEF DropAll, Close, Closes

(* Leaking it closes the open sockets only. *)
LEMMA LeakNames ==
  ASSUME NEW l, Leak(l)
  PROVE  Closes(l, OpenSocketNames(l)) /\ dirs' = dirs
BY OpenSocketsNames DEF Leak, Close, Closes

(* Closing keeps the types. *)
LEMMA CloseTypes ==
  ASSUME TypeOK, NEW l \in Launches, NEW ends \in SUBSET (Launches \X End), Close(ends)
  PROVE  parent_fds' \subseteq Launches \X End /\ reclosed' \subseteq Launches \X End
BY DEF Close, TypeOK

-----------------------------------------------------------------------------
(* A step of the parent of one launch leaves the others alone.             *)

Others(l) ==
  \A m \in Launches : m # l =>
    /\ parent'[m] = parent[m] /\ error'[m] = error[m]
    /\ m \in listeners' <=> m \in listeners
    /\ m \in dirs' <=> m \in dirs
    /\ m \in done' <=> m \in done
    /\ m \in killed => m \in killed'
    /\ \A e \in End : /\ <<m, e>> \in parent_fds' <=> <<m, e>> \in parent_fds
                      /\ <<m, e>> \in reclosed' <=> <<m, e>> \in reclosed

(* Their part of the invariant remains. *)
LEMMA OthersKeep ==
  ASSUME LaunchInv, NEW l \in Launches, Others(l), plan' = plan,
         NEW m \in Launches, m # l, child'[m] = child[m]
  PROVE  ParentInv(m)'
<1>1. ReleaseSound(m)'
  BY DEF Others, LaunchInv, ParentInv, ReleaseSound, Released, Refused
<1>2. ListenerHeld(m)' /\ PathsApart(m)'
  BY DEF Others, LaunchInv, ParentInv, ListenerHeld, PathsApart
<1>3. HoldsExactly(m)'
  BY DEF Others, LaunchInv, ParentInv, HoldsExactly, Returned, Holds
<1>4. ClosedOnceOf(m)'
  BY DEF Others, LaunchInv, ParentInv, ClosedOnceOf, Returned
<1>5. Contained(m)'
  BY DEF Others, LaunchInv, ParentInv, Contained
<1>6. QED BY <1>1, <1>2, <1>3, <1>4, <1>5 DEF ParentInv

(* What a step of the parent must show: the types, the invariant of its    *)
(* own launch, and that the rest is as it was.                             *)
LEMMA ParentStep ==
  ASSUME LaunchInv, NEW l \in Launches, TypeOK', ParentInv(l)', Others(l), plan' = plan,
         child_fds' = child_fds,
         child' = child \/ (child' = [child EXCEPT ![l] = "reaped"])
  PROVE  LaunchInv'
<1>1. \A m \in Launches : m # l => child'[m] = child[m]
  BY DEF LaunchInv, TypeOK
<1>2. \A m \in Launches : ParentInv(m)'
  BY <1>1, OthersKeep
<1>3. \A m \in Launches : ChildHolds(m)'
  <2> SUFFICES ASSUME NEW m \in Launches PROVE ChildHolds(m)'
    OBVIOUS
  <2>1. Stdio(m)' = Stdio(m)
    BY DEF Stdio, EndsOf
  <2>2. child'[m] = child[m] \/ child'[m] = "reaped"
    BY DEF LaunchInv, TypeOK
  <2>3. ChildHolds(m)
    BY DEF LaunchInv
  <2>4. QED BY <2>1, <2>2, <2>3 DEF ChildHolds
<1>4. QED BY <1>2, <1>3 DEF LaunchInv

-----------------------------------------------------------------------------
(* The launch gives up.                                                    *)

(* Types, when a launch fails and closes ends. *)
LEMMA FailureTypes ==
  ASSUME LaunchInv, NEW l \in Launches, NEW e \in Refusals \cup {"Monitor", "Io"},
         Error(l, e), NEW names \in SUBSET End, Closes(l, names),
         parent_fds' \subseteq Launches \X End, reclosed' \subseteq Launches \X End,
         UNCHANGED <<plan, child, child_fds, ready, done, listeners>>,
         in_flight' \subseteq in_flight, killed' \subseteq killed \cup {l}, dirs' \subseteq dirs
  PROVE  TypeOK'
BY DEF LaunchInv, TypeOK, Error, Goto, Refusals

(* A failure keeps the invariant when the child was not released, or the   *)
(* error admits that it was; when all was held that is closed now, or the  *)
(* error is one of those that close twice or leak; and when the child is   *)
(* killed if the error says so.                                            *)
LEMMA FailureStep ==
  ASSUME LaunchInv, NEW l \in Launches, NEW e \in Refusals \cup {"Monitor", "Io"},
         Error(l, e), NEW names \in SUBSET End, Closes(l, names), TypeOK',
         UNCHANGED <<plan, child, child_fds, done, listeners>>,
         killed \subseteq killed', \A m \in Launches : m # l => (m \in dirs' <=> m \in dirs),
         e \in Refusals => parent[l] \in Early,
         e \in {"Monitor", "Io"} => parent[l] \in Late,
         \/ l \notin dirs' /\ \A f \in End : <<l, f>> \notin parent_fds'
         \/ plan[l].blocking /\ e \in {"ChildSetup", "Monitor"},
         \/ \A f \in names : <<l, f>> \in parent_fds
         \/ ~plan[l].blocking /\ e \in {"ChildSetup", "SeccompNotify", "Monitor"},
         e \in {"Workspace", "Fork"} => child[l] = "none",
         e = "ChildSetup" => l \in killed'
  PROVE  LaunchInv'
<1>1. parent'[l] = "failed" /\ error'[l] = e
  BY DEF LaunchInv, TypeOK, Error, Goto
<1>2. Others(l)
  BY DEF LaunchInv, TypeOK, Error, Goto, Closes, Others
<1>3. ReleaseSound(l)'
  BY <1>1 DEF LaunchInv, ParentInv, ReleaseSound, Released, Refused, Refusals, Early
<1>4. ListenerHeld(l)' /\ PathsApart(l)'
  BY <1>1 DEF LaunchInv, ParentInv, ListenerHeld, PathsApart, Refusals, Late
<1>5. HoldsExactly(l)'
  BY <1>1 DEF HoldsExactly, Returned
<1>6. ClosedOnceOf(l)'
  <2>1. error[l] = "none"
    BY DEF LaunchInv, TypeOK, Refusals, Early, Late
  <2>2. \A f \in End : <<l, f>> \notin reclosed
    BY <2>1 DEF LaunchInv, ParentInv, ClosedOnceOf
  <2>3. QED BY <1>1, <2>2 DEF ClosedOnceOf, Returned, Closes
<1>7. Contained(l)'
  BY <1>1 DEF Contained, Refusals
<1>8. ParentInv(l)'
  BY <1>3, <1>4, <1>5, <1>6, <1>7 DEF ParentInv
<1>9. QED BY <1>2, <1>8, ParentStep

(* What DropAll leaves of the launch, and that only what was closed before *)
(* is closed twice.                                                        *)
LEMMA DropAllLeaves ==
  ASSUME LaunchInv, NEW l \in Launches, DropAll(l), ~Returned(l)
  PROVE  /\ parent_fds' \subseteq Launches \X End /\ reclosed' \subseteq Launches \X End
         /\ \E names \in SUBSET End :
              /\ Closes(l, names)
              /\ \A f \in End : <<l, f>> \notin parent_fds'
              /\ (\A f \in WorkspaceEnd : <<l, f>> \in parent_fds)
                   => \A f \in names : <<l, f>> \in parent_fds
         /\ l \notin dirs' /\ dirs' \subseteq dirs
         /\ \A m \in Launches : m # l => (m \in dirs' <=> m \in dirs)
<1>1. Closes(l, WorkspaceEnd \cup OpenSocketNames(l)) /\ dirs' = dirs \ {l}
  BY DropAllNames
<1>2. WorkspaceEnd \cup OpenSocketNames(l) \in SUBSET End
  BY DEF OpenSocketNames, End
<1>3. ~Returned(l) => \A f \in SocketEnd : <<l, f>> \in parent_fds => plan[l].notify
  BY DEF LaunchInv, ParentInv, HoldsExactly, Holds, End
<1>4. Workspace(l) \cup OpenSockets(l) \in SUBSET (Launches \X End)
  BY DEF Workspace, EndsOf, OpenSockets, Sockets, End
<1>5. parent_fds' \subseteq Launches \X End /\ reclosed' \subseteq Launches \X End
  BY <1>4, CloseTypes DEF DropAll, LaunchInv
<1>6. \A f \in End : <<l, f>> \notin parent_fds'
  BY <1>1, <1>3 DEF Closes, OpenSocketNames, End
<1>7. (\A f \in WorkspaceEnd : <<l, f>> \in parent_fds)
        => \A f \in WorkspaceEnd \cup OpenSocketNames(l) : <<l, f>> \in parent_fds
  BY DEF OpenSocketNames
<1>8. QED BY <1>1, <1>2, <1>5, <1>6, <1>7

(* And what Leak leaves. *)
LEMMA LeakCloses ==
  ASSUME LaunchInv, NEW l \in Launches, Leak(l)
  PROVE  /\ parent_fds' \subseteq Launches \X End /\ reclosed' \subseteq Launches \X End
         /\ \E names \in SUBSET End :
              Closes(l, names) /\ \A f \in names : <<l, f>> \in parent_fds
         /\ dirs' = dirs
<1>1. Closes(l, OpenSocketNames(l)) /\ dirs' = dirs
  BY LeakNames
<1>2. OpenSocketNames(l) \in SUBSET End /\ \A f \in OpenSocketNames(l) : <<l, f>> \in parent_fds
  BY DEF OpenSocketNames, End
<1>3. OpenSockets(l) \in SUBSET (Launches \X End)
  BY DEF EndsOf, OpenSockets, Sockets, End
<1>4. parent_fds' \subseteq Launches \X End /\ reclosed' \subseteq Launches \X End
  BY <1>3, CloseTypes DEF Leak, LaunchInv
<1>5. QED BY <1>1, <1>2, <1>4

(* A failure that drops the workspace. *)
LEMMA DroppedFailure ==
  ASSUME LaunchInv, NEW l \in Launches, NEW e \in Refusals \cup {"Monitor", "Io"},
         Error(l, e), DropAll(l),
         UNCHANGED <<plan, child, child_fds, ready, done, listeners>>,
         in_flight' \subseteq in_flight, killed \subseteq killed', killed' \subseteq killed \cup {l},
         e \in Refusals => parent[l] \in Early,
         e \in {"Monitor", "Io"} => parent[l] \in Late,
         ~Returned(l),
         \/ parent[l] \in {"fork", "pidfd"}
         \/ parent[l] = "recv" /\ plan[l].blocking
         \/ ~plan[l].blocking /\ e \in {"ChildSetup", "SeccompNotify", "Monitor"},
         e \in {"Workspace", "Fork"} => child[l] = "none",
         e = "ChildSetup" => l \in killed'
  PROVE  LaunchInv'
<1>1. PICK names \in SUBSET End :
        /\ Closes(l, names)
        /\ \A f \in End : <<l, f>> \notin parent_fds'
        /\ (\A f \in WorkspaceEnd : <<l, f>> \in parent_fds)
             => \A f \in names : <<l, f>> \in parent_fds
  BY DropAllLeaves
<1>2. (parent[l] \in {"fork", "pidfd"} \/ (parent[l] = "recv" /\ plan[l].blocking))
        => \A f \in WorkspaceEnd : <<l, f>> \in parent_fds
  BY DEF LaunchInv, ParentInv, HoldsExactly, Holds, Returned, End, WorkspaceEnd, SocketEnd
<1>3. TypeOK'
  <2>1. /\ parent_fds' \subseteq Launches \X End /\ reclosed' \subseteq Launches \X End
        /\ dirs' \subseteq dirs
    BY DropAllLeaves
  <2>2. Closes(l, names)
    BY <1>1
  <2>3. QED BY <2>1, <2>2, FailureTypes
<1>4. l \notin dirs' /\ \A m \in Launches : m # l => (m \in dirs' <=> m \in dirs)
  BY DropAllLeaves
<1>5. QED BY <1>1, <1>2, <1>3, <1>4, FailureStep

(* A failure that leaks it. *)
LEMMA LeakedFailure ==
  ASSUME LaunchInv, NEW l \in Launches, NEW e \in {"ChildSetup", "Monitor"},
         Error(l, e), Leak(l), plan[l].blocking,
         UNCHANGED <<plan, child, child_fds, ready, done, in_flight, listeners>>,
         killed \subseteq killed', killed' \subseteq killed \cup {l},
         e = "ChildSetup" => parent[l] \in Early,
         e = "Monitor" => parent[l] \in Late,
         e = "ChildSetup" => l \in killed'
  PROVE  LaunchInv'
<1>1. PICK names \in SUBSET End : Closes(l, names) /\ \A f \in names : <<l, f>> \in parent_fds
  BY LeakCloses
<1>2. e \in Refusals \cup {"Monitor", "Io"}
  BY DEF Refusals
<1>3. TypeOK'
  BY <1>1, <1>2, LeakCloses, FailureTypes
<1>4. \A m \in Launches : m # l => (m \in dirs' <=> m \in dirs)
  BY LeakCloses
<1>5. QED BY <1>1, <1>2, <1>3, <1>4, FailureStep DEF Refusals

(* One lemma per way to fail. *)
LEMMA CreateFailsKeeps ==
  ASSUME LaunchInv, NEW l \in Launches, CreateFails(l)
  PROVE  LaunchInv'
<1>1. Closes(l, {})
  BY DEF CreateFails, Closes
<1>2. l \notin dirs /\ \A f \in End : <<l, f>> \notin parent_fds
  BY DEF CreateFails, LaunchInv, ParentInv, HoldsExactly, Holds, Returned
<1>3. "Workspace" \in Refusals \cup {"Monitor", "Io"} /\ {} \in SUBSET End
  BY DEF Refusals
<1>4. TypeOK'
  BY <1>1, <1>3, FailureTypes DEF CreateFails, syncVars, childVars, LaunchInv, TypeOK
<1>5. child[l] = "none" /\ parent[l] \in Early
  BY DEF CreateFails, LaunchInv, ParentInv, Contained, Early
<1>6. QED BY <1>1, <1>2, <1>3, <1>4, <1>5, FailureStep DEF CreateFails, syncVars, childVars

LEMMA BeforeHandshakeFailsKeeps ==
  ASSUME LaunchInv, NEW l \in Launches,
         ForkFails(l) \/ OpenPidfdFails(l) \/ RecvFdFails(l) \/ RecvTimeout(l)
  PROVE  LaunchInv'
<1>1. CASE ForkFails(l)
  <2>1. child[l] = "none"
    BY <1>1 DEF ForkFails, LaunchInv, ParentInv, Contained
  <2>2. QED
    BY <1>1, <2>1, DroppedFailure DEF ForkFails, Refusals, Early, Returned, syncVars, childVars
<1>2. CASE OpenPidfdFails(l)
  BY <1>2, DroppedFailure DEF OpenPidfdFails, Refusals, Early, Returned, syncVars, childVars
<1>3. CASE RecvFdFails(l)
  BY <1>3, DroppedFailure DEF RecvFdFails, Refusals, Early, Returned, childVars
<1>4. CASE RecvTimeout(l)
  BY <1>4, DroppedFailure
  DEF RecvTimeout, poll_or_kill, Refusals, Early, Returned, syncVars, childVars
<1>5. QED BY <1>1, <1>2, <1>3, <1>4

LEMMA LaterFailsKeeps ==
  ASSUME LaunchInv, NEW l \in Launches,
         SyncTimeout(l) \/ WriteStdinFails(l) \/ SetNonblockingFails(l)
  PROVE  LaunchInv'
<1>1. CASE SyncTimeout(l) /\ plan[l].blocking
  BY <1>1, LeakedFailure
  DEF SyncTimeout, GiveUp, poll_or_kill, Early, syncVars, childVars
<1>2. CASE SyncTimeout(l) /\ ~plan[l].blocking
  BY <1>2, DroppedFailure
  DEF SyncTimeout, GiveUp, poll_or_kill, Refusals, Early, Returned, syncVars, childVars
<1>3. CASE WriteStdinFails(l) /\ plan[l].blocking
  BY <1>3, LeakedFailure
  DEF WriteStdinFails, GiveUp, Late, syncVars, childVars
<1>4. CASE WriteStdinFails(l) /\ ~plan[l].blocking
  BY <1>4, DroppedFailure
  DEF WriteStdinFails, GiveUp, Refusals, Late, Returned, syncVars, childVars
<1>5. CASE SetNonblockingFails(l)
  <2>1. ~plan[l].blocking
    BY <1>5 DEF SetNonblockingFails, LaunchInv, ParentInv, PathsApart
  <2>2. QED
    BY <1>5, <2>1, DroppedFailure
    DEF SetNonblockingFails, GiveUp, Refusals, Late, Returned, syncVars, childVars
<1>6. QED BY <1>1, <1>2, <1>3, <1>4, <1>5

(* DropSpawned closes what a SpawnedSandbox holds, all of it open. *)
SpawnedNames(l) == {"out_r"} \cup IF plan[l].stdin THEN {} ELSE {"stdin_w"}

LEMMA DropSpawnedLeaves ==
  ASSUME LaunchInv, NEW l \in Launches, DropSpawned(l), ~plan[l].blocking,
         parent[l] \in {"register", "monitor"}
  PROVE  /\ parent_fds' \subseteq Launches \X End /\ reclosed' \subseteq Launches \X End
         /\ SpawnedNames(l) \in SUBSET End /\ Closes(l, SpawnedNames(l))
         /\ \A f \in SpawnedNames(l) : <<l, f>> \in parent_fds
         /\ \A f \in End : <<l, f>> \notin parent_fds'
         /\ dirs' = dirs \ {l}
<1>1. Closes(l, SpawnedNames(l)) /\ dirs' = dirs \ {l}
  BY CloseNames DEF DropSpawned, SpawnedNames
<1>2. SpawnedNames(l) \in SUBSET End
  BY DEF SpawnedNames, End, WorkspaceEnd
<1>3. EndsOf(l, SpawnedNames(l)) \in SUBSET (Launches \X End)
  BY <1>2 DEF EndsOf
<1>4. parent_fds' \subseteq Launches \X End /\ reclosed' \subseteq Launches \X End
  BY <1>3, CloseTypes DEF DropSpawned, SpawnedNames, LaunchInv
<1>5. \A f \in End : <<l, f>> \in parent_fds <=> f \in SpawnedNames(l)
  BY DEF LaunchInv, ParentInv, HoldsExactly, Holds, Returned, SpawnedNames,
         End, WorkspaceEnd, SocketEnd
<1>6. QED BY <1>1, <1>2, <1>4, <1>5 DEF Closes

LEMMA RegisterFailsKeeps ==
  ASSUME LaunchInv, NEW l \in Launches, RegisterFails(l)
  PROVE  LaunchInv'
<1>1. ~plan[l].blocking
  BY DEF RegisterFails, LaunchInv, ParentInv, PathsApart
<1>2. "Io" \in Refusals \cup {"Monitor", "Io"}
  OBVIOUS
<1>3. /\ parent_fds' \subseteq Launches \X End /\ reclosed' \subseteq Launches \X End
      /\ SpawnedNames(l) \in SUBSET End /\ Closes(l, SpawnedNames(l))
      /\ \A f \in SpawnedNames(l) : <<l, f>> \in parent_fds
      /\ \A f \in End : <<l, f>> \notin parent_fds'
      /\ dirs' = dirs \ {l}
  BY <1>1, DropSpawnedLeaves DEF RegisterFails
<1>4. TypeOK'
  BY <1>2, <1>3, FailureTypes DEF RegisterFails, syncVars, childVars
<1>5. \A m \in Launches : m # l => (m \in dirs' <=> m \in dirs)
  BY <1>3
<1>6. QED
  BY <1>1, <1>2, <1>3, <1>4, <1>5, FailureStep
  DEF RegisterFails, Refusals, Late, syncVars, childVars

-----------------------------------------------------------------------------
(* The launch goes on.                                                     *)

Places == {"new", "fork", "pidfd", "close_ends", "recv", "sync", "stdin",
           "nonblock", "register", "monitor"}

(* Types, when it closes ends and goes to its next place. *)
LEMMA MoveTypes ==
  ASSUME LaunchInv, NEW l \in Launches, NEW s \in Places, Goto(l, s), parent[l] \in Places,
         NEW ends \in SUBSET (Launches \X End), Close(ends),
         UNCHANGED <<plan, error, child, child_fds, killed, dirs>>,
         ready' \subseteq ready, done' \subseteq done \cup {l},
         in_flight' \subseteq in_flight, listeners' \subseteq listeners \cup {l}
  PROVE  TypeOK' /\ parent'[l] = s
<1>1. parent_fds' \subseteq Launches \X End /\ reclosed' \subseteq Launches \X End
  BY CloseTypes DEF LaunchInv
<1>2. QED BY <1>1 DEF LaunchInv, TypeOK, Goto, Places

(* Closing what is held, on the way to a later place. *)
LEMMA MoveStep ==
  ASSUME LaunchInv, NEW l \in Launches, NEW s \in Places \ {"new", "fork"}, Goto(l, s),
         TypeOK', NEW names \in SUBSET End, Closes(l, names),
         \A f \in names : <<l, f>> \in parent_fds,
         parent[l] \in Places,
         UNCHANGED <<plan, error, child, child_fds, killed, dirs>>,
         \A m \in Launches : m # l =>
            (m \in listeners' <=> m \in listeners) /\ (m \in done' <=> m \in done),
         l \in listeners => l \in listeners',
         s \in Early => parent[l] \in Early /\ done' = done,
         ListenerHeld(l)', PathsApart(l)', HoldsExactly(l)'
  PROVE  LaunchInv'
<1>1. parent'[l] = s
  BY DEF LaunchInv, TypeOK, Goto
<1>2. Others(l)
  BY DEF LaunchInv, TypeOK, Goto, Closes, Others
<1>3. error[l] = "none"
  BY DEF LaunchInv, TypeOK, Places
<1>4. ReleaseSound(l)'
  BY <1>1, <1>3 DEF LaunchInv, ParentInv, ReleaseSound, Released, Refused
<1>5. ClosedOnceOf(l)'
  BY <1>1, <1>3 DEF LaunchInv, ParentInv, ClosedOnceOf, Returned, Closes, Places
<1>6. Contained(l)'
  BY <1>1, <1>3 DEF Contained
<1>7. ParentInv(l)'
  BY <1>4, <1>5, <1>6 DEF ParentInv
<1>8. QED BY <1>2, <1>7, ParentStep

LEMMA OpenPidfdKeeps ==
  ASSUME LaunchInv, NEW l \in Launches, OpenPidfd(l)
  PROVE  LaunchInv'
<1>1. AfterPidfd(l) \in Places \ {"new", "fork"} /\ {} \in SUBSET End
  BY DEF AfterPidfd, Places
<1>2. Close({}) /\ Closes(l, {})
  BY DEF OpenPidfd, Close, Closes
<1>3. parent[l] \in Places /\ parent[l] \in Early
  BY DEF OpenPidfd, Places, Early
<1>4. TypeOK' /\ parent'[l] = AfterPidfd(l)
  BY <1>1, <1>2, <1>3, MoveTypes DEF OpenPidfd, syncVars, childVars
<1>5. ListenerHeld(l)' /\ PathsApart(l)'
  <2>1. error'[l] = "none"
    BY <1>3 DEF OpenPidfd, LaunchInv, TypeOK, Places
  <2>2. QED BY <1>4, <2>1 DEF OpenPidfd, AfterPidfd, ListenerHeld, PathsApart, Late
<1>6. HoldsExactly(l)'
  BY <1>4
  DEF LaunchInv, ParentInv, OpenPidfd, AfterPidfd, HoldsExactly, Holds, Returned, SocketEnd
<1>7. QED
  BY <1>1, <1>2, <1>3, <1>4, <1>5, <1>6, MoveStep DEF OpenPidfd, syncVars, childVars

LEMMA ClosePipeEndsKeeps ==
  ASSUME LaunchInv, NEW l \in Launches, close_parent_pipe_ends(l)
  PROVE  LaunchInv'
<1> DEFINE names == {"stdin_r", "out_w"}
<1>1. AfterClose(l) \in Places \ {"new", "fork"} /\ names \in SUBSET End
  BY DEF AfterClose, Places, End, WorkspaceEnd
<1>2. Close(Stdio(l)) /\ Closes(l, names)
  BY CloseNames DEF close_parent_pipe_ends, Stdio
<1>3. Stdio(l) \in SUBSET (Launches \X End)
  BY <1>1 DEF Stdio, EndsOf
<1>4. parent[l] \in Places /\ parent[l] \in Early
  BY DEF close_parent_pipe_ends, Places, Early
<1>5. TypeOK' /\ parent'[l] = AfterClose(l)
  BY <1>1, <1>2, <1>3, <1>4, MoveTypes DEF close_parent_pipe_ends, syncVars, childVars
<1>6. \A f \in names : <<l, f>> \in parent_fds
  BY <1>1 DEF close_parent_pipe_ends, LaunchInv, ParentInv, HoldsExactly, Holds, Returned, SocketEnd
<1>7. ListenerHeld(l)' /\ PathsApart(l)'
  <2>1. error'[l] = "none"
    BY <1>4 DEF close_parent_pipe_ends, LaunchInv, TypeOK, Places
  <2>2. QED
    BY <1>5, <2>1
    DEF close_parent_pipe_ends, AfterClose, LaunchInv, ParentInv, ListenerHeld, PathsApart, Late
<1>8. HoldsExactly(l)'
  BY <1>2, <1>5
  DEF LaunchInv, ParentInv, close_parent_pipe_ends, AfterClose, HoldsExactly, Holds, Returned,
      Closes, SocketEnd
<1>9. QED
  BY <1>1, <1>2, <1>4, <1>5, <1>6, <1>7, <1>8, MoveStep
  DEF close_parent_pipe_ends, syncVars, childVars

LEMMA RecvFdKeeps ==
  ASSUME LaunchInv, NEW l \in Launches, RecvFd(l)
  PROVE  LaunchInv'
<1> DEFINE names == {"sock_parent"}
<1>1. AfterRecv(l) \in Places \ {"new", "fork"} /\ names \in SUBSET End
  BY DEF AfterRecv, Places, End, SocketEnd
<1>2. Close({<<l, "sock_parent">>}) /\ Closes(l, names)
  BY DEF RecvFd, Close, Closes
<1>3. {<<l, "sock_parent">>} \in SUBSET (Launches \X End)
  BY <1>1
<1>4. parent[l] \in Places /\ parent[l] \in Early
  BY DEF RecvFd, Places, Early
<1>5. TypeOK' /\ parent'[l] = AfterRecv(l)
  BY <1>1, <1>2, <1>3, <1>4, MoveTypes DEF RecvFd, childVars
<1>6. \A f \in names : <<l, f>> \in parent_fds
  BY <1>1
  DEF RecvFd, LaunchInv, ParentInv, HoldsExactly, Holds, Returned, PathsApart
<1>7. ListenerHeld(l)' /\ PathsApart(l)'
  BY <1>5 DEF RecvFd, AfterRecv, ListenerHeld, PathsApart
<1>8. HoldsExactly(l)'
  BY <1>2, <1>5
  DEF LaunchInv, ParentInv, RecvFd, AfterRecv, HoldsExactly, Holds, Returned, Closes, SocketEnd
<1>9. QED
  BY <1>1, <1>2, <1>4, <1>5, <1>6, <1>7, <1>8, MoveStep DEF RecvFd, childVars

LEMMA SyncKeeps ==
  ASSUME LaunchInv, NEW l \in Launches, sync_with_child(l)
  PROVE  LaunchInv'
<1>1. "stdin" \in Places \ {"new", "fork"} /\ "stdin" \notin Early /\ {} \in SUBSET End
  BY DEF Places, Early
<1>2. Close({}) /\ Closes(l, {})
  BY DEF sync_with_child, Close, Closes
<1>3. parent[l] \in Places
  BY DEF sync_with_child, Places
<1>4. TypeOK' /\ parent'[l] = "stdin"
  BY <1>1, <1>2, <1>3, MoveTypes DEF sync_with_child, childVars
<1>5. ListenerHeld(l)' /\ PathsApart(l)'
  BY <1>4 DEF sync_with_child, LaunchInv, ParentInv, ListenerHeld, PathsApart
<1>6. HoldsExactly(l)'
  BY <1>4 DEF LaunchInv, ParentInv, sync_with_child, HoldsExactly, Holds, Returned
<1>7. QED
  BY <1>1, <1>2, <1>3, <1>4, <1>5, <1>6, MoveStep DEF sync_with_child, childVars

LEMMA WriteStdinKeeps ==
  ASSUME LaunchInv, NEW l \in Launches, WriteStdin(l)
  PROVE  LaunchInv'
<1> DEFINE names == IF plan[l].blocking \/ plan[l].stdin THEN {"stdin_w"} ELSE {}
           s == IF plan[l].blocking THEN "monitor" ELSE "nonblock"
<1>1. s \in Places \ {"new", "fork"} /\ s \notin Early /\ names \in SUBSET End
  BY DEF Places, Early, End, WorkspaceEnd
<1>2. Close(EndsOf(l, names))
  BY DEF WriteStdin, Close, EndsOf
<1>3. EndsOf(l, names) \in SUBSET (Launches \X End)
  BY <1>1 DEF EndsOf
<1>4. Goto(l, s) /\ parent[l] \in Places /\ parent[l] = "stdin"
  BY DEF WriteStdin, Places
<1>5. TypeOK' /\ parent'[l] = s
  <2> HIDE DEF names, s
  <2>1. s \in Places
    BY <1>1
  <2>2. QED BY <1>2, <1>3, <1>4, <2>1, MoveTypes DEF WriteStdin, syncVars, childVars
<1>6. Closes(l, names)
  BY <1>2, CloseNames
<1>7. \A f \in names : <<l, f>> \in parent_fds
  <2>1. "stdin_w" \in End /\ (<<l, "stdin_w">> \in parent_fds <=> Holds(l, "stdin_w"))
    BY <1>4 DEF LaunchInv, ParentInv, HoldsExactly, Returned, End, WorkspaceEnd
  <2>2. QED BY <1>4, <2>1 DEF Holds, SocketEnd
<1>8. ListenerHeld(l)' /\ PathsApart(l)'
  BY <1>4, <1>5 DEF WriteStdin, LaunchInv, ParentInv, ListenerHeld, PathsApart, Late
<1>9. HoldsExactly(l)'
  BY <1>4, <1>5, <1>6
  DEF LaunchInv, ParentInv, WriteStdin, HoldsExactly, Holds, Returned, Closes, SocketEnd
<1>10. QED
  <2> HIDE DEF names, s
  <2>1. QED
    BY <1>1, <1>4, <1>5, <1>6, <1>7, <1>8, <1>9, MoveStep
    DEF WriteStdin, syncVars, childVars

LEMMA SetNonblockingKeeps ==
  ASSUME LaunchInv, NEW l \in Launches, SetNonblocking(l)
  PROVE  LaunchInv'
<1> DEFINE names == {"child_ready", "parent_done"} \cup OpenSocketNames(l)
<1>1. "register" \in Places \ {"new", "fork"} /\ "register" \notin Early /\ names \in SUBSET End
  BY DEF Places, Early, End, WorkspaceEnd, OpenSocketNames
<1>2. EndsOf(l, {"child_ready", "parent_done"}) \cup OpenSockets(l) = EndsOf(l, names)
  BY DEF EndsOf, OpenSockets, OpenSocketNames, Sockets
<1>3. Close(EndsOf(l, names)) /\ EndsOf(l, names) \in SUBSET (Launches \X End)
  BY <1>1, <1>2 DEF SetNonblocking, EndsOf
<1>4. parent[l] \in Places /\ parent[l] = "nonblock"
  BY DEF SetNonblocking, Places
<1>5. TypeOK' /\ parent'[l] = "register"
  <2>1. "register" \in Places
    BY <1>1
  <2>2. QED BY <1>3, <1>4, <2>1, MoveTypes DEF SetNonblocking, syncVars, childVars
<1>6. Closes(l, names)
  BY <1>3, CloseNames
<1>7. ~plan[l].blocking
  BY <1>4 DEF LaunchInv, ParentInv, PathsApart
<1>8. \A f \in names : <<l, f>> \in parent_fds
  BY <1>1, <1>4, <1>7
  DEF LaunchInv, ParentInv, HoldsExactly, Holds, Returned, SocketEnd, OpenSocketNames
<1>9. ListenerHeld(l)' /\ PathsApart(l)'
  BY <1>4, <1>5, <1>7 DEF SetNonblocking, LaunchInv, ParentInv, ListenerHeld, PathsApart, Late
<1>10. HoldsExactly(l)'
  BY <1>4, <1>5, <1>6, <1>7
  DEF LaunchInv, ParentInv, SetNonblocking, HoldsExactly, Holds, Returned, Closes, SocketEnd,
      OpenSocketNames
<1>11. QED
  BY <1>1, <1>4, <1>5, <1>6, <1>8, <1>9, <1>10, MoveStep
  DEF SetNonblocking, syncVars, childVars

LEMMA RegisterKeeps ==
  ASSUME LaunchInv, NEW l \in Launches, Register(l)
  PROVE  LaunchInv'
<1>1. "monitor" \in Places \ {"new", "fork"} /\ "monitor" \notin Early /\ {} \in SUBSET End
  BY DEF Places, Early
<1>2. Close({}) /\ Closes(l, {})
  BY DEF Register, Close, Closes
<1>3. parent[l] \in Places
  BY DEF Register, Places
<1>4. TypeOK' /\ parent'[l] = "monitor"
  BY <1>1, <1>2, <1>3, MoveTypes DEF Register, syncVars, childVars
<1>5. ListenerHeld(l)' /\ PathsApart(l)'
  BY <1>4 DEF Register, LaunchInv, ParentInv, ListenerHeld, PathsApart, Late
<1>6. HoldsExactly(l)'
  BY <1>4
  DEF LaunchInv, ParentInv, Register, HoldsExactly, Holds, Returned, PathsApart, SocketEnd
<1>7. QED
  BY <1>1, <1>2, <1>3, <1>4, <1>5, <1>6, MoveStep DEF Register, syncVars, childVars

-----------------------------------------------------------------------------
(* The steps that do more than close: opening, forking, reaping.           *)

LEMMA CreateKeeps ==
  ASSUME LaunchInv, NEW l \in Launches, Create(l)
  PROVE  LaunchInv'
<1>1. parent'[l] = "fork" /\ error' = error /\ error[l] = "none" /\ child[l] = "none"
  BY DEF Create, Goto, LaunchInv, TypeOK, ParentInv, Contained
<1>2. Workspace(l) \cup Sockets(l) \subseteq Launches \X End
  BY DEF Workspace, Sockets, EndsOf, End
<1>3. TypeOK'
  BY <1>2 DEF Create, Goto, LaunchInv, TypeOK, syncVars, childVars
<1>4. \A m \in Launches, e \in End :
        <<m, e>> \in parent_fds' <=>
          \/ <<m, e>> \in parent_fds
          \/ m = l /\ (e \in SocketEnd => plan[l].notify)
  <2>1. WorkspaceEnd \cap SocketEnd = {}
    BY DEF WorkspaceEnd, SocketEnd
  <2>2. QED BY <2>1, NamedEnds DEF Create, End
<1>5. Others(l)
  BY <1>4 DEF Create, Goto, LaunchInv, TypeOK, Others, syncVars
<1>6. ReleaseSound(l)' /\ ListenerHeld(l)' /\ PathsApart(l)' /\ Contained(l)'
  <2>1. ReleaseSound(l)'
    BY <1>1
    DEF Create, LaunchInv, ParentInv, ReleaseSound, Released, Refused, Early, syncVars, childVars
  <2>2. ListenerHeld(l)' /\ PathsApart(l)' /\ Contained(l)'
    BY <1>1 DEF Create, ListenerHeld, PathsApart, Contained, Late, childVars
  <2>3. QED BY <2>1, <2>2
<1>7. HoldsExactly(l)'
  BY <1>1, <1>4 DEF Create, LaunchInv, ParentInv, HoldsExactly, Holds, Returned
<1>8. ClosedOnceOf(l)'
  BY <1>1 DEF Create, LaunchInv, ParentInv, ClosedOnceOf, Returned
<1>9. ParentInv(l)'
  BY <1>6, <1>7, <1>8 DEF ParentInv
<1>10. QED BY <1>3, <1>5, <1>9, ParentStep DEF Create, childVars

LEMMA FinishKeeps ==
  ASSUME LaunchInv, NEW l \in Launches, Finish(l)
  PROVE  LaunchInv'
<1>1. /\ parent'[l] = "finished" /\ error[l] = "none" /\ child'[l] = "reaped"
      /\ UNCHANGED <<plan, error, listeners, killed, child_fds, ready, done, in_flight>>
  BY DEF Finish, Goto, LaunchInv, TypeOK, syncVars
<1>2. \E names \in SUBSET End :
        /\ Closes(l, names)
        /\ \A f \in names : <<l, f>> \in parent_fds
        /\ \A f \in End : <<l, f>> \notin parent_fds'
        /\ parent_fds' \subseteq Launches \X End /\ reclosed' \subseteq Launches \X End
        /\ dirs' = dirs \ {l}
  <2>1. CASE ~plan[l].blocking
    BY <2>1, DropSpawnedLeaves DEF Finish
  <2>2. CASE plan[l].blocking
    <3> DEFINE names == {"out_r", "child_ready", "parent_done"} \cup OpenSocketNames(l)
    <3>1. names \in SUBSET End
      BY DEF End, WorkspaceEnd, OpenSocketNames
    <3>2. EndsOf(l, {"out_r", "child_ready", "parent_done"}) \cup OpenSockets(l)
            = EndsOf(l, names)
      BY DEF EndsOf, OpenSockets, OpenSocketNames, Sockets
    <3>3. Close(EndsOf(l, names)) /\ EndsOf(l, names) \in SUBSET (Launches \X End)
      <4> HIDE DEF names
      <4>1. EndsOf(l, names) \in SUBSET (Launches \X End)
        BY <3>1 DEF EndsOf
      <4>2. Close(EndsOf(l, {"out_r", "child_ready", "parent_done"}) \cup OpenSockets(l))
        BY <2>2 DEF Finish
      <4>3. QED BY <3>2, <4>1, <4>2
    <3>4. parent_fds' \subseteq Launches \X End /\ reclosed' \subseteq Launches \X End
      BY <3>3, CloseTypes DEF LaunchInv
    <3>5. Closes(l, names)
      BY <3>3, CloseNames
    <3>6. \A f \in End : <<l, f>> \in parent_fds <=> f \in names
      BY <2>2
      DEF Finish, LaunchInv, ParentInv, HoldsExactly, Holds, Returned, OpenSocketNames,
          End, WorkspaceEnd, SocketEnd
    <3>7. \A f \in End : <<l, f>> \notin parent_fds'
      BY <3>5, <3>6 DEF Closes
    <3>8. QED BY <2>2, <3>1, <3>4, <3>5, <3>6, <3>7 DEF Finish
  <2>3. QED BY <2>1, <2>2
<1>3. PICK names \in SUBSET End :
        /\ Closes(l, names)
        /\ \A f \in names : <<l, f>> \in parent_fds
        /\ \A f \in End : <<l, f>> \notin parent_fds'
        /\ parent_fds' \subseteq Launches \X End /\ reclosed' \subseteq Launches \X End
        /\ dirs' = dirs \ {l}
  BY <1>2
<1>4. TypeOK'
  BY <1>1, <1>3 DEF Finish, Goto, LaunchInv, TypeOK
<1>5. Others(l)
  BY <1>1, <1>3 DEF Finish, Goto, LaunchInv, TypeOK, Others, Closes
<1>6. ReleaseSound(l)'
  BY <1>1 DEF LaunchInv, ReleaseSound, Released, Refused, Early
<1>7. ListenerHeld(l)' /\ PathsApart(l)' /\ Contained(l)'
  BY <1>1
  DEF Finish, LaunchInv, ParentInv, ListenerHeld, PathsApart, Contained, Late
<1>8. HoldsExactly(l)'
  BY <1>1 DEF HoldsExactly, Returned
<1>9. ClosedOnceOf(l)'
  BY <1>1, <1>3 DEF LaunchInv, ParentInv, ClosedOnceOf, Returned, Closes
<1>10. ParentInv(l)'
  BY <1>6, <1>7, <1>8, <1>9 DEF ParentInv
<1>11. QED BY <1>1, <1>4, <1>5, <1>10, ParentStep DEF Finish

LEMMA ForkKeeps ==
  ASSUME LaunchInv, NEW l \in Launches, Fork(l)
  PROVE  LaunchInv'
<1>1. /\ parent[l] = "fork" /\ parent'[l] = "pidfd" /\ error[l] = "none"
      /\ child'[l] = "close_ends" /\ child_fds'[l] = parent_fds
      /\ \A m \in Launches : m # l =>
           parent'[m] = parent[m] /\ child'[m] = child[m] /\ child_fds'[m] = child_fds[m]
      /\ UNCHANGED <<plan, error, parent_fds, listeners, killed, dirs, reclosed,
                     ready, done, in_flight>>
  BY DEF Fork, Goto, LaunchInv, TypeOK, syncVars
<1>2. TypeOK'
  BY DEF Fork, Goto, LaunchInv, TypeOK, syncVars
<1>3. Others(l)
  BY <1>1 DEF Others
<1>4. \A m \in Launches : m # l => ParentInv(m)'
  BY <1>1, <1>3, OthersKeep
<1>5. ReleaseSound(l)'
  BY <1>1 DEF LaunchInv, ParentInv, ReleaseSound, Released, Refused, Early
<1>6. ListenerHeld(l)' /\ PathsApart(l)' /\ Contained(l)'
  BY <1>1 DEF ListenerHeld, PathsApart, Contained, Late
<1>7. HoldsExactly(l)'
  BY <1>1 DEF LaunchInv, ParentInv, HoldsExactly, Holds, Returned
<1>8. ClosedOnceOf(l)'
  BY <1>1 DEF LaunchInv, ParentInv, ClosedOnceOf, Returned
<1>9. ParentInv(l)'
  BY <1>5, <1>6, <1>7, <1>8 DEF ParentInv
<1>10. ASSUME NEW m \in Launches PROVE ChildHolds(m)'
  <2>1. Stdio(m)' = Stdio(m)
    BY DEF Stdio, EndsOf
  <2>2. CASE m # l
    BY <1>1, <2>1, <2>2 DEF LaunchInv, ChildHolds
  <2>3. CASE m = l
    <3>1. \A e \in {"stdin_r", "out_w"} : <<l, e>> \in parent_fds
      BY <1>1
      DEF LaunchInv, ParentInv, HoldsExactly, Holds, Returned, End, WorkspaceEnd, SocketEnd
    <3>2. Stdio(l) \subseteq parent_fds
      BY <3>1 DEF Stdio, EndsOf
    <3>3. QED BY <1>1, <2>1, <2>3, <3>2 DEF ChildHolds
  <2>4. QED BY <2>2, <2>3
<1>11. QED BY <1>2, <1>4, <1>9, <1>10 DEF LaunchInv

-----------------------------------------------------------------------------
(* The steps of the children.                                              *)

(* A child on its way: it keeps its stdio until close_range, and has       *)
(* nothing else afterwards; and it is released only by its parent.         *)
LEMMA ChildStep ==
  ASSUME LaunchInv, NEW l \in Launches, TypeOK', UNCHANGED <<plan, parentVars>>,
         child[l] # "none", ChildHolds(l)',
         done' \subseteq done,
         Released(l)' => Released(l) \/ l \in done,
         \A m \in Launches : m # l => child'[m] = child[m] /\ child_fds'[m] = child_fds[m]
  PROVE  LaunchInv'
<1>1. ASSUME NEW m \in Launches PROVE ReleaseSound(m)'
  <2>1. Released(m)' => Released(m) \/ m \in done
    BY DEF Released
  <2>2. QED BY <2>1 DEF LaunchInv, ParentInv, ReleaseSound, Refused, parentVars
<1>2. ASSUME NEW m \in Launches PROVE ListenerHeld(m)' /\ PathsApart(m)'
  BY DEF LaunchInv, ParentInv, ListenerHeld, PathsApart, parentVars
<1>3. ASSUME NEW m \in Launches PROVE HoldsExactly(m)' /\ ClosedOnceOf(m)'
  BY DEF LaunchInv, ParentInv, HoldsExactly, ClosedOnceOf, Returned, Holds, parentVars
<1>4. ASSUME NEW m \in Launches PROVE Contained(m)'
  BY DEF LaunchInv, ParentInv, Contained, parentVars
<1>5. ASSUME NEW m \in Launches PROVE ChildHolds(m)'
  <2>1. Stdio(m)' = Stdio(m)
    BY DEF Stdio, EndsOf
  <2>2. QED BY <2>1 DEF LaunchInv, ChildHolds
<1>6. QED BY <1>1, <1>2, <1>3, <1>4, <1>5 DEF LaunchInv, ParentInv

(* A child that ends. *)
LEMMA ExitKeeps ==
  ASSUME LaunchInv, NEW l \in Launches, Exit(l), child[l] # "none",
         UNCHANGED <<plan, parentVars, syncVars>>
  PROVE  LaunchInv'
<1>1. TypeOK'
  BY DEF Exit, ChildGoto, LaunchInv, TypeOK, parentVars, syncVars
<1>2. child'[l] = "dead"
  BY DEF Exit, ChildGoto, LaunchInv, TypeOK
<1>3. \A m \in Launches : m # l => child'[m] = child[m] /\ child_fds'[m] = child_fds[m]
  BY DEF Exit, ChildGoto, LaunchInv, TypeOK
<1>4. ChildHolds(l)' /\ ~Released(l)'
  BY <1>2 DEF ChildHolds, Released
<1>5. QED BY <1>1, <1>3, <1>4, ChildStep DEF syncVars

LEMMA EndingsKeep ==
  ASSUME LaunchInv, NEW l \in Launches,
         \/ SendListenerFails(l) \/ SetupFails(l) \/ ExecFails(l)
         \/ ProgramEnds(l) \/ ChildKilled(l) \/ ChildDies(l)
  PROVE  LaunchInv'
BY ExitKeeps
DEF SendListenerFails, SetupFails, ExecFails, ProgramEnds, ChildKilled, ChildDies, Alive

LEMMA SettingKeeps ==
  ASSUME LaunchInv, NEW l \in Launches, Setting(l)
  PROVE  LaunchInv'
<1>0. Stdio(l)' = Stdio(l) \/ plan' # plan
  BY DEF Stdio, EndsOf
<1>1. CASE CloseChildEnds(l)
  <2>1. child'[l] = "setup"
    BY <1>1 DEF CloseChildEnds, ChildGoto, LaunchInv, TypeOK
  <2>2. Stdio(l) \subseteq child_fds'[l]
    BY <1>1 DEF CloseChildEnds, LaunchInv, TypeOK, ChildHolds, Stdio, EndsOf
  <2>3. TypeOK' /\ \A m \in Launches :
          m # l => child'[m] = child[m] /\ child_fds'[m] = child_fds[m]
    BY <1>1 DEF CloseChildEnds, ChildGoto, LaunchInv, TypeOK, parentVars, syncVars
  <2>4. QED
    BY <1>0, <1>1, <2>1, <2>2, <2>3, ChildStep DEF CloseChildEnds, ChildHolds, Released, syncVars
<1>2. CASE Setup(l) \/ SendListener(l) \/ SignalReady(l)
  <2>1. child[l] \in {"setup", "notify", "seccomp"} /\ child'[l] \in {"notify", "seccomp", "wait"}
    BY <1>2 DEF Setup, SendListener, SignalReady, ChildGoto, LaunchInv, TypeOK
  <2>2. TypeOK' /\ \A m \in Launches : m # l => child'[m] = child[m]
    BY <1>2
    DEF Setup, SendListener, SignalReady, ChildGoto, LaunchInv, TypeOK, parentVars, syncVars
  <2>3. UNCHANGED <<plan, parentVars, child_fds, done>>
    BY <1>2 DEF Setup, SendListener, SignalReady, syncVars
  <2>4. ChildHolds(l)'
    BY <1>0, <2>1, <2>3 DEF LaunchInv, ChildHolds
  <2>5. ~Released(l)'
    BY <2>1 DEF Released
  <2>6. QED BY <2>1, <2>2, <2>3, <2>4, <2>5, ChildStep
<1>3. CASE WaitParent(l)
  <2>1. child'[l] = "close_fds" /\ child[l] = "wait" /\ l \in done
    BY <1>3 DEF WaitParent, ChildGoto, LaunchInv, TypeOK
  <2>2. TypeOK' /\ \A m \in Launches : m # l => child'[m] = child[m]
    BY <1>3 DEF WaitParent, ChildGoto, LaunchInv, TypeOK, parentVars
  <2>3. UNCHANGED <<plan, parentVars, child_fds>> /\ done' \subseteq done
    BY <1>3 DEF WaitParent
  <2>4. ChildHolds(l)'
    BY <1>0, <2>1, <2>3 DEF LaunchInv, ChildHolds
  <2>5. QED BY <2>1, <2>2, <2>3, <2>4, ChildStep
<1>4. CASE CloseExtraFds(l)
  <2>1. child'[l] = "execve" /\ child[l] = "close_fds" /\ child_fds'[l] = child_fds[l] \cap Stdio(l)
    BY <1>4 DEF CloseExtraFds, close_extra_fds, ChildGoto, LaunchInv, TypeOK
  <2>2. child_fds'[l] = Stdio(l)
    BY <2>1 DEF LaunchInv, ChildHolds
  <2>3. TypeOK' /\ \A m \in Launches :
          m # l => child'[m] = child[m] /\ child_fds'[m] = child_fds[m]
    BY <1>4 DEF CloseExtraFds, close_extra_fds, ChildGoto, LaunchInv, TypeOK, parentVars, syncVars
  <2>4. ChildHolds(l)'
    BY <1>0, <1>4, <2>1, <2>2 DEF CloseExtraFds, ChildHolds
  <2>5. QED
    BY <1>4, <2>1, <2>3, <2>4, ChildStep DEF CloseExtraFds, Released, syncVars
<1>5. CASE Exec(l)
  <2>1. child'[l] = "running" /\ child[l] = "execve"
    BY <1>5 DEF Exec, ChildGoto, LaunchInv, TypeOK
  <2>2. TypeOK' /\ \A m \in Launches : m # l => child'[m] = child[m]
    BY <1>5 DEF Exec, ChildGoto, LaunchInv, TypeOK, parentVars, syncVars
  <2>3. ChildHolds(l)'
    BY <1>0, <1>5, <2>1 DEF Exec, LaunchInv, ChildHolds
  <2>4. QED
    BY <1>5, <2>1, <2>2, <2>3, ChildStep DEF Exec, Released, syncVars
<1>6. CASE SendListenerFails(l) \/ SetupFails(l) \/ ExecFails(l)
  BY <1>6, EndingsKeep
<1>7. QED BY <1>1, <1>2, <1>3, <1>4, <1>5, <1>6 DEF Setting

-----------------------------------------------------------------------------
(* The invariant.                                                          *)

LEMMA InitHolds == Init => LaunchInv
<1> SUFFICES ASSUME Init PROVE LaunchInv
  OBVIOUS
<1>1. TypeOK
  BY DEF Init, TypeOK
<1>2. ASSUME NEW l \in Launches PROVE ParentInv(l) /\ ChildHolds(l)
  <2>1. parent[l] = "new" /\ error[l] = "none" /\ child[l] = "none"
    BY DEF Init
  <2>2. ReleaseSound(l) /\ ListenerHeld(l) /\ PathsApart(l)
    BY <2>1 DEF Init, ReleaseSound, Released, ListenerHeld, PathsApart, Late
  <2>3. HoldsExactly(l) /\ ClosedOnceOf(l) /\ Contained(l) /\ ChildHolds(l)
    BY <2>1 DEF Init, HoldsExactly, Holds, ClosedOnceOf, Returned, Contained, ChildHolds
  <2>4. QED BY <2>2, <2>3 DEF ParentInv
<1>3. QED BY <1>1, <1>2 DEF LaunchInv

LEMMA StutterKeeps == LaunchInv /\ UNCHANGED vars => LaunchInv'
BY DEF LaunchInv, TypeOK, ParentInv, ReleaseSound, Released, Refused, ListenerHeld, PathsApart,
       HoldsExactly, Holds, ClosedOnceOf, Returned, Contained, ChildHolds, Stdio, EndsOf,
       vars, parentVars, childVars, syncVars

LEMMA NextKeeps == LaunchInv /\ [Next]_vars => LaunchInv'
<1> SUFFICES ASSUME LaunchInv, [Next]_vars PROVE LaunchInv'
  OBVIOUS
<1>1. ASSUME NEW l \in Launches, Parent(l) PROVE LaunchInv'
  BY <1>1, CreateKeeps, CreateFailsKeeps, ForkKeeps, BeforeHandshakeFailsKeeps, OpenPidfdKeeps,
     ClosePipeEndsKeeps, RecvFdKeeps, SyncKeeps, LaterFailsKeeps, SetNonblockingKeeps,
     RegisterKeeps, RegisterFailsKeeps, FinishKeeps
  DEF Parent
<1>2. ASSUME NEW l \in Launches, Ending(l) \/ ChildKilled(l) PROVE LaunchInv'
  BY <1>2, EndingsKeep DEF Ending
<1>3. QED
  BY <1>1, <1>2, WriteStdinKeeps, SettingKeeps, StutterKeeps DEF Next, Idle

(* LaunchInv holds of every behaviour of Executor::run and Executor::spawn. *)
THEOREM LaunchInvariant == Spec => []LaunchInv
BY InitHolds, NextKeeps, PTL DEF Spec

-----------------------------------------------------------------------------
(* What it implies.                                                        *)

(* The variables of Launch keep their types, and a launch has an error     *)
(* exactly when it failed (Executor::run, Executor::spawn).                *)
THEOREM LaunchTyped == Spec => []TypeOK
<1>1. LaunchInv => TypeOK
  BY DEF LaunchInv
<1>2. QED BY <1>1, LaunchInvariant, PTL

(* No child gets past its wait (wait_for_parent) before its parent has     *)
(* passed sync_with_child with the listener in hand, nor after the parent  *)
(* has reported that the handshake failed.                                 *)
THEOREM HandshakesAreOrdered == Spec => []HandshakeOrdered
<1>1. LaunchInv => HandshakeOrdered
  <2> SUFFICES ASSUME LaunchInv, NEW l \in Launches, Released(l)
               PROVE  /\ parent[l] \notin Early /\ ~Refused(l)
                      /\ plan[l].notify => l \in listeners
    BY DEF HandshakeOrdered, Early
  <2>1. parent[l] \notin Early /\ ~Refused(l)
    BY DEF LaunchInv, ParentInv, ReleaseSound
  <2>2. parent[l] \in Late \/ error[l] \in {"Monitor", "Io"}
    BY <2>1 DEF LaunchInv, TypeOK, Early, Late, Refused
  <2>3. QED BY <2>1, <2>2 DEF LaunchInv, ParentInv, ListenerHeld
<1>2. QED BY <1>1, LaunchInvariant, PTL

(* After close_extra_fds a child holds its stdio and nothing of what other *)
(* threads had open when it was forked, and its own stdio is still there.  *)
THEOREM CommandsHoldStdioOnly == Spec => []StdioOnly
<1>1. LaunchInv => StdioOnly
  BY DEF LaunchInv, ChildHolds, StdioOnly
<1>2. QED BY <1>1, LaunchInvariant, PTL

(* A failed launch has killed its child, or there is none, but for the     *)
(* errors FailureContained names.                                          *)
THEOREM FailuresAreContained == Spec => []FailureContained
<1>1. LaunchInv => FailureContained
  BY DEF LaunchInv, TypeOK, ParentInv, Contained, FailureContained, Alive
<1>2. QED BY <1>1, LaunchInvariant, PTL

(* Every exit of Executor::run and Executor::spawn closes what it opened,  *)
(* once, but for the errors ClosedOnce names.                              *)
THEOREM EndsAreClosedOnce == Spec => []ClosedOnce
<1>1. LaunchInv => ClosedOnce
  <2> SUFFICES ASSUME LaunchInv PROVE ClosedOnce
    OBVIOUS
  <2>1. ASSUME NEW l \in Launches, Returned(l)
        PROVE  \/ l \notin dirs /\ \A end \in Workspace(l) \cup Sockets(l) : end \notin parent_fds
               \/ plan[l].blocking /\ error[l] \in {"ChildSetup", "Monitor"}
    <3>1. Workspace(l) \cup Sockets(l) \subseteq {<<l, e>> : e \in End}
      BY DEF Workspace, Sockets, EndsOf, End
    <3>2. QED BY <2>1, <3>1 DEF LaunchInv, ParentInv, ClosedOnceOf
  <2>2. ASSUME NEW end \in reclosed
        PROVE  /\ ~plan[end[1]].blocking
               /\ error[end[1]] \in {"ChildSetup", "SeccompNotify", "Monitor"}
    <3>1. PICK l \in Launches, e \in End : end = <<l, e>>
      BY DEF LaunchInv, TypeOK
    <3>2. QED BY <3>1 DEF LaunchInv, ParentInv, ClosedOnceOf
  <2>3. QED BY <2>1, <2>2 DEF ClosedOnce, Returned
<1>2. QED BY <1>1, LaunchInvariant, PTL
=============================================================================
