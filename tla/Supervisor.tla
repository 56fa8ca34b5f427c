----------------------------- MODULE Supervisor -----------------------------
(***************************************************************************)
(* The supervisor of a sandbox in a notify mode (notify/supervisor.rs,     *)
(* notify/virtual_fs.rs): it takes the file system calls of the sandboxed  *)
(* program from the seccomp listener and lets each continue or answers it  *)
(* with a file it opened at the translated path.  The threads of the       *)
(* program run, are interrupted and die between any two of its steps.      *)
(*                                                                         *)
(* The kernel keeps one notification per suspended call, and a semaphore   *)
(* of arrivals that notif_recv takes from.  A signal takes the             *)
(* notification of a suspended call away; the program may repeat the call, *)
(* under a new id.                                                         *)
(***************************************************************************)
EXTENDS Naturals, Sequences, SequencesExt

CONSTANTS
  Threads,   \* threads of the sandboxed program
  Calls,     \* the calls it may make, an integer argument as the set of its bits
  mappings,  \* VirtualFs.mappings, in their order: [virtual, real] prefixes
  Existing,  \* files of the host to begin with
  Fifos,     \* those that are FIFOs: an open waits for the other end
  Modes,     \* NotifyMode of the plan
  MaxId      \* bound on the notifications

ASSUME SupervisorAssumption ==
  /\ \A c \in Calls : /\ DOMAIN c = {"nr", "path", "arg1", "arg2", "arg3"}
                     /\ c.arg1 \cup c.arg2 \cup c.arg3 \subseteq Nat
  /\ Calls # {} /\ Modes \subseteq {"Monitor", "Virtualize"}
  /\ MaxId \in Nat

\* The bits of the flags of open(2).
O_WRONLY  == 1
O_CREAT   == 64
O_EXCL    == 128
O_CLOEXEC == 524288

None == "none"
Id == 1..MaxId

VARIABLES
  mode,     \* the mode of the plan
  thread,   \* what a thread does
  call,     \* the call in its registers and memory, the last one once it is over
  notif,    \* the notifications of the listener so far
  request,  \* the listener's semaphore
  pc,       \* where handle_event stands
  cur,      \* the notification it handles
  path,     \* the path it read
  fd,       \* the file it holds open, and the flags and mode of the open, or <<>>
  event,    \* what it returned last
  files,    \* files of the host
  answer    \* history: how a notification was answered

kernVars == <<thread, call, notif, request>>
supVars  == <<pc, cur, path, fd, event, files>>
vars     == <<mode, kernVars, supVars, answer>>

Init ==
  /\ mode \in Modes
  /\ thread = [t \in Threads |-> "user"]
  /\ call = [t \in Threads |-> CHOOSE c \in Calls : TRUE]
  /\ notif = <<>> /\ request = 0
  /\ pc = "poll" /\ cur = 0 /\ path = <<>> /\ fd = <<>> /\ event = None
  /\ files = Existing /\ answer = [id \in Id |-> None]

Pending == {id \in DOMAIN notif : notif[id].state = "init"}
Oldest  == CHOOSE id \in Pending : \A other \in Pending : id <= other
\* The listener still knows the notification and waits for its answer.
Valid(id) == notif[id].state = "sent"

-----------------------------------------------------------------------------
(* The program.                                                            *)

(* A call the notify filter intercepts.                                    *)
Notify(t, c) ==
  /\ thread[t] = "user" /\ Len(notif) < MaxId
  /\ thread' = [thread EXCEPT ![t] = "waiting"]
  /\ call' = [call EXCEPT ![t] = c]
  /\ notif' = Append(notif, [thread |-> t, call |-> c, state |-> "init"])
  /\ request' = request + 1
  /\ UNCHANGED <<mode, supVars, answer>>

(* A signal, or death, ends the wait: the id is no longer valid.           *)
Leave(t, state) ==
  /\ thread[t] = "waiting"
  /\ thread' = [thread EXCEPT ![t] = state]
  /\ notif' = [id \in DOMAIN notif |->
                 IF notif[id].thread = t /\ notif[id].state \in {"init", "sent"}
                 THEN [notif[id] EXCEPT !.state = "gone"] ELSE notif[id]]
  /\ UNCHANGED <<mode, call, request, supVars, answer>>
Interrupt(t) == Leave(t, "user")
Die(t) == Leave(t, "dead")

(* The thread has its answer: a file, or the kernel performs the call.     *)
Reply(id, how) ==
  /\ notif' = [notif EXCEPT ![id].state = "replied"]
  /\ thread' = [thread EXCEPT ![notif[id].thread] = "user"]
  /\ answer' = [answer EXCEPT ![id] = how]
  /\ UNCHANGED <<mode, call, request>>

-----------------------------------------------------------------------------
(* VirtualFs::translate: the first mapping whose prefix the path has, as   *)
(* it is written: `..` is a component like another.                        *)
Matching(p) == {i \in DOMAIN mappings : IsPrefix(mappings[i].virtual, p)}
translate(p) ==
  LET i == CHOOSE j \in Matching(p) : \A k \in Matching(p) : j <= k
  IN  mappings[i].real \o SubSeq(p, Len(mappings[i].virtual) + 1, Len(p))

(* The file a path leads to on the host.                                   *)
Resolve(p) ==
  FoldLeft(LAMBDA dir, name : IF name = ".." THEN SubSeq(dir, 1, Len(dir) - 1) ELSE Append(dir, name),
           <<>>, p)

is_open_syscall(nr) == nr \in {"open", "openat", "creat"}

(* The argument handle_virtualize takes for the flags of open(2); that of  *)
(* creat is its mode.                                                      *)
open_flags(c) == IF c.nr = "openat" THEN c.arg2 ELSE c.arg1

(* libc::open on the host: whether it can succeed.                         *)
CanOpen(file, flags) ==
  IF file \in files THEN ~({O_CREAT, O_EXCL} \subseteq flags) ELSE O_CREAT \in flags

(* libc::open(real_path, flags & !O_CLOEXEC, 0o666).                       *)
opened(c) ==
  <<Resolve(translate(path)), open_flags(c) \ {O_CLOEXEC}, {2, 4, 16, 32, 128, 256}>>

(* handle_event returns.                                                   *)
Return(e) == pc' = "poll" /\ event' = e /\ path' = <<>>

\* Mutants: the answer goes to the thread whatever it waits for; none is sent.
respond_continue_stale(e) == Reply(cur, "continue") /\ Return(e)
respond_continue_dropped(e) ==
  /\ Return(e)
  /\ UNCHANGED <<mode, kernVars, answer>>
(* respond_continue: ENOENT for a notification that is gone is an error.   *)
respond_continue(e) ==
  IF Valid(cur)
  THEN Reply(cur, "continue") /\ Return(e)
  ELSE Return("Err") /\ UNCHANGED <<mode, kernVars, answer>>

\* Mutant: the listener is not looked at before.
HandleEvent_unpolled ==
  /\ pc = "poll"
  /\ pc' = "recv"
  /\ UNCHANGED <<mode, kernVars, cur, path, fd, event, files, answer>>
(* The listener is readable: the caller calls handle_event.                *)
HandleEvent ==
  /\ pc = "poll" /\ Pending # {}
  /\ pc' = "recv"
  /\ UNCHANGED <<mode, kernVars, cur, path, fd, event, files, answer>>

(* notif_recv; the call it was woken for may be gone.                      *)
Recv ==
  /\ pc = "recv" /\ request > 0
  /\ request' = request - 1
  /\ \/ /\ Pending = {}
        /\ Return("None")
        /\ UNCHANGED <<notif, cur>>
     \/ /\ Pending # {}
        /\ cur' = Oldest
        /\ notif' = [notif EXCEPT ![Oldest].state = "sent"]
        /\ pc' = IF mode = "Monitor" THEN "monitor" ELSE "read"
        /\ UNCHANGED <<event, path>>
  /\ UNCHANGED <<mode, thread, call, fd, files, answer>>

handle_monitor ==
  /\ pc = "monitor"
  /\ respond_continue("Some")
  /\ UNCHANGED <<cur, fd, files>>

(* read_child_string: what is in the memory of the thread by now.          *)
ReadPath ==
  /\ pc = "read"
  /\ \/ /\ thread[notif[cur].thread] # "dead"
        /\ path' = call[notif[cur].thread].path
        /\ pc' = "check"
     \/ pc' = "unread" /\ UNCHANGED path
  /\ UNCHANGED <<mode, kernVars, cur, fd, event, files, answer>>

ReadFailed ==
  /\ pc = "unread"
  /\ respond_continue("None")
  /\ UNCHANGED <<cur, fd, files>>

\* Mutant: the id is not checked after the path was read.
IdValid_skipped ==
  /\ pc = "check" /\ pc' = "translate"
  /\ UNCHANGED <<mode, kernVars, cur, path, fd, event, files, answer>>
IdValid ==
  /\ pc = "check"
  /\ IF Valid(cur) THEN pc' = "translate" /\ UNCHANGED <<event, path>> ELSE Return("None")
  /\ UNCHANGED <<mode, kernVars, cur, fd, files, answer>>

(* translate, and open_and_inject up to libc::open, which may also fail    *)
(* for reasons of its own.                                                 *)
Open ==
  /\ pc = "translate"
  /\ \/ LET new == opened(notif[cur].call)
        IN  /\ Matching(path) # {} /\ is_open_syscall(notif[cur].call.nr)
            /\ CanOpen(new[1], new[2])
            /\ IF new[1] \in Fifos
               THEN pc' = "blocked" /\ UNCHANGED <<fd, files>>
               ELSE pc' = "inject" /\ fd' = new /\ files' = files \cup {new[1]}
     \/ pc' = "proceed" /\ UNCHANGED <<fd, files>>
  /\ UNCHANGED <<mode, kernVars, cur, path, event, answer>>

(* The open of a FIFO ends when somebody opens its other end, or with a    *)
(* signal to the supervisor's thread.                                      *)
OpenReturns ==
  /\ pc = "blocked"
  /\ \/ pc' = "inject" /\ fd' = opened(notif[cur].call)
     \/ pc' = "proceed" /\ UNCHANGED fd
  /\ UNCHANGED <<mode, kernVars, cur, path, event, files, answer>>

\* Mutants: an error is taken for an answer; the fd is closed on success only.
AddFd_returns ==
  /\ pc = "inject"
  /\ IF Valid(cur) THEN Reply(cur, "fd") ELSE UNCHANGED <<mode, kernVars, answer>>
  /\ fd' = <<>>
  /\ Return("Some")
  /\ UNCHANGED <<cur, files>>
AddFd_unclosed ==
  /\ pc = "inject"
  /\ \/ Valid(cur) /\ Reply(cur, "fd") /\ Return("Some") /\ fd' = <<>>
     \/ pc' = "proceed" /\ UNCHANGED <<mode, kernVars, answer, event, path, fd>>
  /\ UNCHANGED <<cur, files>>
(* notif_addfd answers the call; it fails if the call is gone, or if the   *)
(* program has no descriptor left.  The supervisor's own fd is closed, and *)
(* the program's stays open over execve, as newfd_flags is 0.              *)
AddFd ==
  /\ pc = "inject"
  /\ \/ Valid(cur) /\ Reply(cur, "fd") /\ Return("Some")
     \/ pc' = "proceed" /\ UNCHANGED <<mode, kernVars, answer, event, path>>
  /\ fd' = <<>>
  /\ UNCHANGED <<cur, files>>

Proceed ==
  /\ pc = "proceed"
  /\ respond_continue("Some")
  /\ UNCHANGED <<cur, fd, files>>

-----------------------------------------------------------------------------
handle_event ==
  \/ HandleEvent \/ Recv \/ handle_monitor
  \/ ReadPath \/ ReadFailed \/ IdValid \/ Open \/ OpenReturns \/ AddFd \/ Proceed

(* The program makes no call any more.                                     *)
Over == pc = "poll" /\ Pending = {} /\ UNCHANGED vars

Next ==
  \/ \E t \in Threads : (\E c \in Calls : Notify(t, c)) \/ Interrupt(t) \/ Die(t)
  \/ handle_event
  \/ Over

Spec == Init /\ [][Next]_vars

(* Once called, handle_event runs on to its return; but an open may wait   *)
(* for ever, and nothing in the repository calls handle_event.             *)
FairSpec == Spec /\ WF_vars(pc \notin {"poll", "blocked"} /\ handle_event)

-----------------------------------------------------------------------------
(* Types; and a thread waits exactly while one notification of it does.    *)
TypeOK ==
  /\ \A t \in Threads : thread[t] = "waiting" <=>
       \E id \in DOMAIN notif : notif[id].thread = t /\ notif[id].state \in {"init", "sent"}
  /\ mode \in Modes /\ thread \in [Threads -> {"user", "waiting", "dead"}] /\ call \in [Threads -> Calls]
  /\ notif \in Seq([thread : Threads, call : Calls, state : {"init", "sent", "gone", "replied"}])
  /\ Len(notif) <= MaxId /\ request \in 0..MaxId /\ cur \in 0..Len(notif)
  /\ pc \in {"poll", "recv", "monitor", "read", "unread", "check", "translate", "blocked", "inject",
            "proceed"}
  /\ event \in {"none", "None", "Some", "Err"}

(* notif_recv has no timeout: it never blocks on a listener that poll      *)
(* found readable, even when the call has gone away in between.            *)
RecvReturns == pc = "recv" => request > 0

(* The flags a call opens its file with.                                   *)
Wanted(c) ==
  CASE c.nr = "openat" -> c.arg2 [] c.nr = "open" -> c.arg1 [] c.nr = "creat" -> {O_WRONLY, O_CREAT}

(* The supervisor opens, and may create, only for the call it was notified *)
(* of and not for what was in memory after that call had gone away: the    *)
(* file its path, as written, is mapped to, with its flags.  O_CLOEXEC is  *)
(* not among them, nor is its mode kept, and creat is opened with its mode *)
(* for flags.                                                              *)
OpensForTheNotified ==
  fd # <<>> =>
    LET asked == notif[cur].call
    IN  /\ Matching(asked.path) # {} /\ fd[1] = Resolve(translate(asked.path))
        /\ asked.nr # "creat" => fd[2] = Wanted(asked) \ {O_CLOEXEC}

(* Between two events nothing is held and no received call is forgotten:   *)
(* handle_event never returns with the call it took still suspended.       *)
NothingForgotten ==
  pc = "poll" => fd = <<>> /\ \A id \in DOMAIN notif : ~Valid(id)

(* The result says what happened.  `Some` is returned for an answered call *)
(* only, and an error only for a call that went away unanswered.           *)
EventTruthful ==
  /\ pc = "poll" /\ event = "Some" => answer[cur] # None
  /\ pc = "poll" /\ event = "Err"  => answer[cur] = None /\ notif[cur].state = "gone"

Unanswered(id) == id \in DOMAIN notif /\ notif[id].state = "init"
Settled(id)   == id \in DOMAIN notif /\ notif[id].state \in {"gone", "replied"}

(* A caller that does what handle_event documents ("Call when the listener *)
(* fd is readable") gets every suspended call answered or sees it gone,    *)
(* unless the supervisor waits in the open of a FIFO.  The condition is    *)
(* part of the property because no code of the repository is that caller:  *)
(* spawn stores the listener in notify_fd and leaves it there.             *)
CallsReturnIfServed ==
  WF_vars(HandleEvent) => \A id \in Id : Unanswered(id) ~> (Settled(id) \/ pc = "blocked")
=============================================================================
