------------------------------ MODULE Seccomp -------------------------------
(***************************************************************************)
(* The system calls of a sandboxed process under its seccomp filters: the  *)
(* whitelist a plan asks for (Syscalls in plan.rs, apply_seccomp in        *)
(* executor.rs), the BPF programs compiled from it (seccomp.rs), and the   *)
(* kernel that runs them on each call, first on the calls the child makes  *)
(* itself between the installation and execve, then on the program's.      *)
(*                                                                         *)
(* A register or an argument is its low 32-bit word, all the filters load. *)
(***************************************************************************)
EXTENDS Integers, Sequences, SequencesExt, FiniteSets

CONSTANTS
  Nr,                  \* syscall numbers
  Calls,               \* the system calls the program may make
  default_whitelist,   \* BASE_WHITELIST and LEGACY_WHITELIST, in their order
  notify_fs_syscalls,  \* the syscalls of the notify filter, in their order
  SYS_clone3, SYS_clone, SYS_socket, SYS_ioctl,
  Handshake,           \* the calls from signalling readiness to execve
  MAX_WHITELIST_SIZE,  \* 200
  JumpWidth,           \* 256: jump offsets are u8
  MaxEdits,            \* bound on the calls of allow and deny
  Orders               \* the orders a HashSet may be enumerated in

Special == {SYS_clone3, SYS_clone, SYS_socket, SYS_ioctl}

Enumerates(s, set) == /\ s \in Seq(set) /\ \A nr \in set : \E i \in 1..Len(s) : s[i] = nr
                      /\ Len(s) = Cardinality(set)

ASSUME SeccompAssumption ==
  /\ Nr \subseteq Nat /\ IsFiniteSet(Nr)
  /\ Calls \subseteq [arch : Nat, nr : Nr, arg0 : Nat, arg1 : Nat]
  /\ default_whitelist \in Seq(Nr) /\ notify_fs_syscalls \in Seq(Nr)
  /\ Special \subseteq Nr /\ Cardinality(Special) = 4
  /\ Handshake \in Seq(Nr)
  /\ MAX_WHITELIST_SIZE \in Nat /\ JumpWidth \in Nat /\ MaxEdits \in Nat
  /\ MAX_WHITELIST_SIZE + 14 < JumpWidth
  /\ Len(notify_fs_syscalls) < JumpWidth
  /\ \A set \in SUBSET Nr : \A s \in Orders[set] : Enumerates(s, set)

(* The calls of the handshake are in the default whitelist, and none of    *)
(* them is a call that the supervisor answers.                             *)
ASSUME HandshakeAssumption ==
  \A i \in 1..Len(Handshake) : Handshake[i] \in ToSet(default_whitelist) \ ToSet(notify_fs_syscalls)

AUDIT_ARCH == 1

-----------------------------------------------------------------------------
(* The BPF programs.                                                       *)

(* The bits of a word, but for the sign bit, which no mask here has.       *)
Bit == {1, 2, 4, 8, 16, 32, 64, 128, 256, 512, 1024, 2048, 4096, 8192, 16384, 32768,
        65536, 131072, 262144, 524288, 1048576, 2097152, 4194304, 8388608, 16777216,
        33554432, 67108864, 134217728, 268435456, 536870912, 1073741824}
HasBit(word, bit) == (word \div bit) % 2 = 1

\* CLONE_NEWNS, CGROUP, UTS, IPC, USER, PID and NET.
CloneNew == {131072, 33554432, 67108864, 134217728, 268435456, 536870912, 1073741824}
BLOCKED_CLONE_FLAGS == 2114060288  \* 0x7e020000, their union
AF_NETLINK == 16
SOCK_RAW == 3
TIOCSTI == 21522
TIOCSETD == 21539
TIOCLINUX == 21532

Verdicts == {"ALLOW", "NOTIFY", "ENOSYS", "KILL"}
Rank(v) == CASE v = "KILL" -> 0 [] v = "ENOSYS" -> 1 [] v = "NOTIFY" -> 2 [] v = "ALLOW" -> 3

stmt(op, k) == [op |-> op, k |-> k, jt |-> 0, jf |-> 0]
jump(op, k, jt, jf) == [op |-> op, k |-> k, jt |-> jt % JumpWidth, jf |-> jf]

clone3_errno_offset(n) == 3 + n + 2
clone_handler_offset(n) == 2 + n + 3
socket_handler_offset(n) == 1 + n + 3 + 4
ioctl_handler_offset(n) == n + 3 + 4 + 7
\* Mutant: the loop index is taken to start at one.
allow_offset_short(n, i) == n - i
allow_offset(n, i) == n - (i - 1)

Prologue(n) ==
  << stmt("ld", "arch"),
     jump("jeq", AUDIT_ARCH, 1, 0),
     stmt("ret", "KILL"),
     stmt("ld", "nr"),
     jump("jeq", SYS_clone3, clone3_errno_offset(n), 0),
     jump("jeq", SYS_clone, clone_handler_offset(n), 0),
     jump("jeq", SYS_socket, socket_handler_offset(n), 0),
     jump("jeq", SYS_ioctl, ioctl_handler_offset(n), 0) >>

Checks(s) == [i \in 1..Len(s) |-> jump("jeq", s[i], allow_offset(Len(s), i), 0)]

Handlers ==
  << stmt("ret", "KILL"),
     stmt("ret", "ALLOW"),
     stmt("ret", "ENOSYS"),
     stmt("ld", "arg0"),                             \* clone
     jump("jset", BLOCKED_CLONE_FLAGS, 1, 0),
     stmt("ret", "ALLOW"),
     stmt("ret", "KILL"),
     stmt("ld", "arg0"),                             \* socket
     jump("jeq", AF_NETLINK, 4, 0),
     stmt("ld", "arg1"),
     stmt("and", 15),
     jump("jeq", SOCK_RAW, 1, 0),
     stmt("ret", "ALLOW"),
     stmt("ret", "KILL"),
     stmt("ld", "arg1"),                             \* ioctl
     jump("jeq", TIOCSTI, 3, 0),
     jump("jeq", TIOCSETD, 2, 0),
     jump("jeq", TIOCLINUX, 1, 0),
     stmt("ret", "ALLOW"),
     stmt("ret", "KILL") >>

build_whitelist_filter(s) == Prologue(Len(s)) \o Checks(s) \o Handlers

NotifyPrologue ==
  << stmt("ld", "arch"), jump("jeq", AUDIT_ARCH, 1, 0), stmt("ret", "ALLOW"), stmt("ld", "nr") >>

\* Mutant: the jumps on a match go past the last instruction.
build_notify_filter_short(s) == NotifyPrologue \o Checks(s) \o <<stmt("ret", "ALLOW")>>
build_notify_filter(s) ==
  NotifyPrologue \o Checks(s) \o <<stmt("ret", "ALLOW"), stmt("ret", "NOTIFY")>>

-----------------------------------------------------------------------------
VARIABLES
  edits,      \* calls of allow and deny so far
  allowed,    \* Syscalls.allowed
  denied,     \* Syscalls.denied
  asked,      \* history: what the plan last asked for a syscall
  notify,     \* plan.notify_mode is not Disabled
  phase,      \* what the process does
  whitelist,  \* the list the filter was built from
  step,       \* calls of the handshake that passed
  call,       \* the system call being filtered
  filter,     \* the installed filter being run: "whitelist", then "notify"
  at,         \* its next instruction
  acc,        \* the accumulator
  verdict     \* the strictest verdict so far

planVars == <<edits, allowed, denied, asked>>
runVars  == <<call, filter, at, acc, verdict>>
vars     == <<planVars, notify, phase, whitelist, step, runVars>>

PlainCall(nr) == [arch |-> AUDIT_ARCH, nr |-> nr, arg0 |-> 0, arg1 |-> 0]

Init ==
  /\ edits = 0 /\ allowed = {} /\ denied = {}
  /\ asked = [nr \in Nr |-> "default"]
  /\ notify \in BOOLEAN
  /\ phase = "plan" /\ whitelist = <<>> /\ step = 0
  /\ call = PlainCall(SYS_clone3) /\ filter = "whitelist" /\ at = 1 /\ acc = 0 /\ verdict = "ALLOW"

(* Syscalls::allow and deny: the last call counts.                         *)
Allow(nr) ==
  /\ phase = "plan" /\ edits < MaxEdits
  /\ edits' = edits + 1
  /\ allowed' = allowed \cup {nr}
  /\ denied' = denied \ {nr}
  /\ asked' = [asked EXCEPT ![nr] = "allow"]
  /\ UNCHANGED <<notify, phase, whitelist, step, runVars>>

Deny(nr) ==
  /\ phase = "plan" /\ edits < MaxEdits
  /\ edits' = edits + 1
  /\ denied' = denied \cup {nr}
  /\ allowed' = allowed \ {nr}
  /\ asked' = [asked EXCEPT ![nr] = "deny"]
  /\ UNCHANGED <<notify, phase, whitelist, step, runVars>>

wl_set == (ToSet(default_whitelist) \ denied) \cup allowed

\* Mutant: the size of the list is not checked.
fits_any(s) == TRUE
fits(s) == Len(s) <= MAX_WHITELIST_SIZE

(* apply_seccomp.  Without a Syscalls in the plan the list is the default  *)
(* one; otherwise it went through a HashSet and has any order.  A list     *)
(* that is too long makes build_whitelist_filter panic, in the child.      *)
apply_seccomp ==
  /\ phase = "plan"
  /\ \E s \in IF edits = 0 THEN {default_whitelist} ELSE Orders[wl_set] :
       /\ whitelist' = s
       /\ phase' = IF fits(s) THEN "run" ELSE "panic"
  /\ UNCHANGED <<planVars, notify, step, runVars>>

-----------------------------------------------------------------------------
(* The kernel runs every installed filter, the last installed first.       *)

Program ==
  IF filter = "whitelist"
  THEN build_whitelist_filter(whitelist) ELSE build_notify_filter(notify_fs_syscalls)
Ins == Program[at]

(* A system call: the next one of the handshake, or any by the program.    *)
Possible == IF step < Len(Handshake) THEN {PlainCall(Handshake[step + 1])} ELSE Calls

Enter(c) ==
  /\ phase = "run"
  /\ phase' = "filter"
  /\ call' = c /\ filter' = "whitelist" /\ at' = 1 /\ acc' = 0 /\ verdict' = "ALLOW"
  /\ UNCHANGED <<planVars, notify, whitelist, step>>

Running(op) == phase = "filter" /\ at \in 1..Len(Program) /\ Ins.op = op

Load ==
  /\ Running("ld")
  /\ acc' = call[Ins.k]
  /\ at' = at + 1
  /\ UNCHANGED <<planVars, notify, phase, whitelist, step, call, filter, verdict>>

(* Every mask is one less than a power of two.                             *)
And ==
  /\ Running("and")
  /\ acc' = acc % (Ins.k + 1)
  /\ at' = at + 1
  /\ UNCHANGED <<planVars, notify, phase, whitelist, step, call, filter, verdict>>

Taken ==
  \/ Ins.op = "jeq" /\ acc = Ins.k
  \/ Ins.op = "jset" /\ \E bit \in Bit : HasBit(acc, bit) /\ HasBit(Ins.k, bit)

Jump ==
  /\ Running("jeq") \/ Running("jset")
  /\ at' = at + 1 + IF Taken THEN Ins.jt ELSE Ins.jf
  /\ UNCHANGED <<planVars, notify, phase, whitelist, step, call, filter, acc, verdict>>

(* A filter returns; the kernel keeps the stricter verdict.                *)
Return ==
  /\ Running("ret")
  /\ verdict' = IF Rank(Ins.k) < Rank(verdict) THEN Ins.k ELSE verdict
  /\ \/ /\ filter = "whitelist" /\ notify
        /\ filter' = "notify" /\ at' = 1 /\ acc' = 0
        /\ UNCHANGED phase
     \/ /\ filter = "notify" \/ ~notify
        /\ phase' = "judged"
        /\ UNCHANGED <<filter, at, acc>>
  /\ UNCHANGED <<planVars, notify, whitelist, step, call>>

(* The process is killed, waits for the supervisor, or goes on.            *)
Deliver ==
  /\ phase = "judged"
  /\ \/ verdict = "KILL" /\ phase' = "dead" /\ UNCHANGED step
     \/ verdict = "NOTIFY" /\ phase' = "suspended" /\ UNCHANGED step
     \/ /\ verdict \in {"ALLOW", "ENOSYS"}
        /\ phase' = "run"
        /\ step' = IF step < Len(Handshake) THEN step + 1 ELSE step
  /\ UNCHANGED <<planVars, notify, whitelist, runVars>>

Over == phase \in {"panic", "dead", "suspended"} /\ UNCHANGED vars

Next ==
  \/ \E nr \in Nr : Allow(nr) \/ Deny(nr)
  \/ apply_seccomp
  \/ \E c \in Possible : Enter(c)
  \/ Load \/ And \/ Jump \/ Return \/ Deliver
  \/ Over

Spec == Init /\ [][Next]_vars

-----------------------------------------------------------------------------
(* Every jump of a filter lands inside it, although offsets are cut to 8   *)
(* bits and every list gives others, and every path ends in a return.      *)
JumpsLand == phase = "filter" => at \in 1..Len(Program)

(* Every variable has its type; no syscall is both allowed and denied.     *)
TypeOK ==
  /\ JumpsLand
  /\ allowed \cap denied = {}
  /\ edits \in 0..MaxEdits /\ allowed \subseteq Nr /\ denied \subseteq Nr
  /\ asked \in [Nr -> {"default", "allow", "deny"}] /\ notify \in BOOLEAN
  /\ phase \in {"plan", "panic", "run", "filter", "judged", "dead", "suspended"}
  /\ whitelist \in Seq(Nr) /\ step \in 0..Len(Handshake)
  /\ call \in Calls \cup {PlainCall(nr) : nr \in Nr} /\ filter \in {"whitelist", "notify"}
  /\ at \in Nat /\ acc \in Nat /\ verdict \in Verdicts

(* What the documentation promises: seccomp.rs of the checks it makes on   *)
(* the arguments, Syscalls (plan.rs) of what is listed and what is denied. *)
Listed(nr) ==
  asked[nr] = "allow" \/ (asked[nr] = "default" /\ nr \in ToSet(default_whitelist))

Denied(nr) == asked[nr] = "deny"

Forbidden(c) ==
  \/ c.arch # AUDIT_ARCH
  \/ c.nr = SYS_clone /\ \E flag \in CloneNew : HasBit(c.arg0, flag)
  \/ c.nr = SYS_socket /\ (c.arg0 = AF_NETLINK \/ c.arg1 % 16 = SOCK_RAW)
  \/ c.nr = SYS_ioctl /\ c.arg1 \in {TIOCSTI, TIOCSETD, TIOCLINUX}
  \/ c.nr \notin Special /\ ~Listed(c.nr)
  \/ Denied(c.nr)

Notified(c) == notify /\ c.nr \in ToSet(notify_fs_syscalls)

(* The verdict on every call is the one documented, whatever the order of  *)
(* the list and its length: a forbidden call kills, clone3 gets ENOSYS,    *)
(* the calls of the notify filter go to the supervisor, the rest pass.     *)
(* Nothing is said here of the special syscalls that a plan denies: the    *)
(* code does not do what the documentation says (DeniedIsKilled).          *)
VerdictUnlessDenied ==
  (phase = "judged" /\ ~(call.nr \in Special /\ Denied(call.nr))) =>
    /\ verdict = "KILL"   <=> Forbidden(call)
    /\ verdict = "ENOSYS" <=> ~Forbidden(call) /\ call.nr = SYS_clone3
    /\ verdict = "NOTIFY" <=> ~Forbidden(call) /\ call.nr # SYS_clone3 /\ Notified(call)

(* The child installs its filters before it signals the parent, waits,     *)
(* closes its descriptors and calls execve: it is never killed or          *)
(* suspended on that way unless the plan denied one of these calls.        *)
HandshakePasses ==
  (phase \in {"dead", "suspended"} /\ step < Len(Handshake))
     => asked[Handshake[step + 1]] = "deny"

(* plan.rs on Syscalls: `Or deny specific syscalls (removes from           *)
(* whitelist)`, with `.deny(libc::SYS_clone)` as its example.              *)
DeniedIsKilled ==
  phase = "judged" /\ Denied(call.nr) => verdict = "KILL"
=============================================================================
