------------------------------ MODULE Lockdown ------------------------------
(***************************************************************************)
(* From a plan to a confined command: the check of the host (check.rs),    *)
(* the resolution of the command and the mounts it brings (resolve.rs,     *)
(* sysinfo.rs), and what the child does to itself before it executes the   *)
(* command (isolation/lockdown.rs, isolation/rlimits.rs, landlock.rs).     *)
(*                                                                         *)
(* A path stands for the file it leads to.  Above[p] holds p and the       *)
(* directories p lies in.  The host may lose files while the child works.  *)
(* The target of a mount is left out: nothing on this way reads it.        *)
(***************************************************************************)
EXTENDS Naturals, Sequences, FiniteSets

CONSTANTS
  Above,      \* [path -> the path and the directories above it]
  Dirs,       \* the paths that are directories
  Hosts,      \* the hosts to start on
  Plans,      \* the plans to start
  Removable,  \* paths another program may remove meanwhile
  Faults      \* the calls that may fail for reasons of their own

Path == DOMAIN Above
SystemType == {"NixOS", "Guix", "Fhs"}
Workspace == {"ws/work", "ws/tmp", "ws/home"}

ReadAccess == {"EXECUTE", "READ_FILE", "READ_DIR"}
WriteAccess == ReadAccess \cup
  {"WRITE_FILE", "MAKE_REG", "MAKE_DIR", "MAKE_SYM", "MAKE_FIFO", "REMOVE_FILE", "REMOVE_DIR",
   "TRUNCATE"}
NoExec == ReadAccess \ {"EXECUTE"}
FsAbi1 == (WriteAccess \ {"TRUNCATE"}) \cup {"MAKE_CHAR", "MAKE_SOCK", "MAKE_BLOCK"}
FsRight == FsAbi1 \cup {"REFER", "TRUNCATE", "IOCTL_DEV"}
NetRight == {"BIND_TCP", "CONNECT_TCP"}
Scope == {"ABSTRACT_UNIX_SOCKET", "SIGNAL"}
Limit == {"DATA", "CPU", "FSIZE", "NOFILE", "NPROC", "CORE", "STACK"}

Mount == [source : Path, writable : BOOLEAN, executable : BOOLEAN]
SystemDirs == {"/usr", "/bin", "/lib", "/lib64", "/sbin", "/etc", "/nix/store",
               "/gnu/store", "/run/current-system", "/run/current-system/sw"}
RulePath == Path \cup Workspace \cup SystemDirs \cup {"/proc", "/dev"}
Rule == [path : RulePath, access : SUBSET FsRight]
\* kernel: the version in uname's release, <<>> if it cannot be read; bin_sh: what /bin/sh is a
\* link to; landlock: the ABI, 0 if there is none; setpcap: whether the process may set securebits.
Host == [kernel : Seq(Nat), landlock : Nat, seccomp : BOOLEAN, setpcap : BOOLEAN,
         bin_sh : {"absent", "nix", "gnu", "other"}, files : SUBSET Path]
\* given: binary_path is set, to command; otherwise command is what cmd[0] leads to.
Plan == [command : Path, given : BOOLEAN, mounts : Seq(Mount), network_blocked : BOOLEAN,
         user_files : SUBSET Path]

ASSUME LockdownAssumption ==
  /\ Above \in [Path -> SUBSET Path] /\ \A p \in Path : p \in Above[p]
  /\ Workspace \subseteq Path /\ Dirs \subseteq Path /\ Removable \subseteq Path
  /\ Hosts \subseteq Host /\ Plans \subseteq Plan
  /\ Faults \subseteq {"workspace", "nnp", "restrict", "rlimit"}

(* The files of a host and of a plan are trees, a plan's files stay in the *)
(* workspace, and nobody removes what detect goes by.                      *)
ASSUME TreeAssumption ==
  /\ \A p \in Path : \A q \in Above[p] : Above[q] \subseteq Above[p]
  /\ \A h \in Hosts : \A p \in h.files : Above[p] \subseteq h.files
  /\ \A p \in Workspace : Above[p] \subseteq Workspace
  /\ \A pl \in Plans : \A p \in pl.user_files :
       Above[p] \subseteq Workspace \cup pl.user_files /\ p \notin SystemDirs \cup {"/etc/NIXOS"}
  /\ \A p \in Path \cap {"/etc/NIXOS", "/nix/store", "/gnu/store"} : Above[p] \cap Removable = {}

VARIABLES
  host,     \* the machine; its files change
  plan,     \* the plan
  phase,    \* the next step
  error,    \* the error run or the child ended with, or "none"
  binary,   \* exec_info.binary_path
  extra,    \* sources of exec_info.extra_mounts
  ruleset,  \* the Landlock ruleset being built
  todo,     \* rules still to be added
  warned,   \* paths whose rule was refused, with a warning
  enforced, \* landlock_restrict_self has succeeded
  limits,   \* the rlimits that were set
  creds     \* privileges given up

resolveVars == <<binary, extra>>
landlockVars == <<ruleset, todo, warned, enforced>>
vars == <<host, plan, phase, error, resolveVars, landlockVars, limits, creds>>

NoRules == [fs |-> {}, net |-> {}, scoped |-> {}, rules |-> {}]

Init ==
  /\ host \in Hosts /\ plan \in Plans
  /\ phase = "check" /\ error = "none"
  /\ binary = plan.command /\ extra = {}
  /\ ruleset = NoRules /\ todo = <<>> /\ warned = {} /\ enforced = FALSE
  /\ limits = {}
  /\ creds = [nnp |-> FALSE, securebits |-> FALSE, bounding |-> TRUE]

Exists(p) == p \in host.files
Under(p, dirs) == Above[p] \cap dirs # {}
GoTo(next) == phase' = next /\ UNCHANGED error
Fail(e) == phase' = "failed" /\ error' = e

---------------------------------------------------------------------------
(* The host: check.rs and sysinfo.rs.                                      *)

MinKernel == <<6, 7, 0>>
MinLandlockAbi == 4
Older(v, w) == \E i \in 1..3 : v[i] < w[i] /\ \A j \in 1..(i - 1) : v[j] = w[j]

TooOld_unchecked(abi) == FALSE
TooOld(abi) == abi < MinLandlockAbi

check_impl(h) ==
  h.kernel # <<>> /\ ~Older(h.kernel, MinKernel) /\ ~TooOld(h.landlock) /\ h.seccomp

detect(h) ==
  LET is(store, link) == store \in h.files /\ h.bin_sh \in {"absent", link}
  IN  IF "/etc/NIXOS" \in h.files \/ is("/nix/store", "nix") THEN "NixOS"
      ELSE IF is("/gnu/store", "gnu") THEN "Guix" ELSE "Fhs"

SystemMounts ==
  [NixOS |-> {"/nix/store", "/run/current-system/sw"},
   Guix |-> {"/gnu/store"},
   Fhs |-> {"/usr", "/bin", "/lib", "/lib64", "/sbin"}]

readonly_mounts(h) == SystemMounts[detect(h)] \cap h.files

---------------------------------------------------------------------------
(* The command: resolve.rs and ExecutionInfo.  On an FHS host the          *)
(* directories detect_mounts adds for a binary under /usr or /bin are in   *)
(* readonly_mounts already, if they exist.                                 *)

detect_mounts_none(h) == {}
detect_mounts(h) == readonly_mounts(h)

Check ==
  /\ phase = "check"
  /\ IF check_impl(host) THEN GoTo("resolve") ELSE Fail("SystemCheck")
  /\ UNCHANGED <<host, plan, resolveVars, landlockVars, limits, creds>>

Accepted(cmd) == Exists(cmd) \/ (cmd # "/work" /\ Under(cmd, {"/work"}))

Resolve ==
  /\ phase = "resolve"
  /\ binary' = plan.command
  /\ \/ plan.given /\ extra' = {} /\ GoTo("workspace")
     \/ ~plan.given /\ Accepted(plan.command) /\ extra' = detect_mounts(host) /\ GoTo("workspace")
     \/ ~plan.given /\ ~Accepted(plan.command) /\ Fail("CommandNotFound") /\ UNCHANGED extra
  /\ UNCHANGED <<host, plan, landlockVars, limits, creds>>

(* The sandbox's directories and the plan's files; then the fork.          *)
SetupWorkspace ==
  /\ phase = "workspace"
  /\ \/ host' = [host EXCEPT !.files = @ \cup Workspace \cup plan.user_files] /\ GoTo("nnp")
     \/ "workspace" \in Faults /\ Fail("Workspace") /\ UNCHANGED host
  /\ UNCHANGED <<plan, resolveVars, landlockVars, limits, creds>>

---------------------------------------------------------------------------
(* Landlock.                                                               *)

fs_access_for_abi(abi) ==
  FsAbi1 \cup (IF abi >= 2 THEN {"REFER"} ELSE {})
         \cup (IF abi >= 3 THEN {"TRUNCATE"} ELSE {})
         \cup (IF abi >= 4 THEN {"IOCTL_DEV"} ELSE {})
net_access_for_abi(abi) == IF abi >= 4 THEN NetRight ELSE {}
scope_for_abi(abi) == IF abi >= 5 THEN Scope ELSE {}

(* The kernel knows IOCTL_DEV from ABI 5 and the field "scoped" from ABI 6 *)
(* on, and refuses a ruleset with anything it does not know.               *)
KernelKnows(abi, r) ==
  /\ "REFER" \in r.fs => abi >= 2
  /\ "TRUNCATE" \in r.fs => abi >= 3
  /\ r.net # {} => abi >= 4
  /\ "IOCTL_DEV" \in r.fs => abi >= 5
  /\ r.scoped # {} => abi >= 6

(* ... and a rule with rights the ruleset does not handle, or, for a file, *)
(* with rights that only a directory has.                                  *)
KernelTakes(rule) ==
  /\ rule.access \subseteq ruleset.fs
  /\ rule.path \in Dirs \/
     rule.access \subseteq {"EXECUTE", "WRITE_FILE", "READ_FILE", "TRUNCATE", "IOCTL_DEV"}

(* The rules in the order apply_landlock_v5 adds them.  A mount that gets  *)
(* no rule has an empty access here.                                       *)
mount_rule(m) ==
  [path |-> m.source,
   access |-> IF m.writable THEN {} ELSE IF m.executable THEN ReadAccess ELSE NoExec]
mount_rules(mounts) == [i \in DOMAIN mounts |-> mount_rule(mounts[i])]

extra_rules(mounts) ==
  LET order == <<"/nix/store", "/run/current-system/sw", "/gnu/store",
                 "/usr", "/bin", "/lib", "/lib64", "/sbin">>
  IN  [i \in DOMAIN order |->
         [path |-> order[i], access |-> IF order[i] \in mounts THEN ReadAccess ELSE {}]]

fixed_rules ==
  LET order == <<"ws/work", "ws/tmp", "ws/home", "/usr", "/bin", "/lib", "/lib64", "/etc",
                 "/nix/store", "/run/current-system", "/proc", "/dev">>
  IN  [i \in DOMAIN order |->
         [path |-> order[i],
          access |-> CASE i \in 1..3 -> WriteAccess
                       [] i \in 4..10 -> ReadAccess
                       [] i = 11 -> NoExec
                       [] i = 12 -> NoExec \cup {"WRITE_FILE"}]]

SetNoNewPrivs ==
  /\ phase = "nnp"
  /\ \/ creds' = [creds EXCEPT !.nnp = TRUE] /\ GoTo("landlock")
     \/ "nnp" \in Faults /\ Fail("Capability") /\ UNCHANGED creds
  /\ UNCHANGED <<host, plan, resolveVars, landlockVars, limits>>

CreateRuleset ==
  LET abi == host.landlock
      wanted == [fs |-> fs_access_for_abi(abi), scoped |-> scope_for_abi(abi), rules |-> {},
                 net |-> IF plan.network_blocked THEN net_access_for_abi(abi) ELSE {}]
  IN  /\ phase = "landlock"
      /\ \/ abi = 0 /\ GoTo("rlimits") /\ UNCHANGED landlockVars
         \/ /\ abi > 0 /\ KernelKnows(abi, wanted)
            /\ ruleset' = wanted /\ todo' = mount_rules(plan.mounts) \o extra_rules(extra) \o fixed_rules
            /\ GoTo("rules") /\ UNCHANGED <<warned, enforced>>
         \/ abi > 0 /\ ~KernelKnows(abi, wanted) /\ Fail("Landlock") /\ UNCHANGED landlockVars
      /\ UNCHANGED <<host, plan, resolveVars, limits, creds>>

(* add_path_rule: a path that cannot be opened is skipped without a word,  *)
(* a rule that is refused with a warning.                                  *)
AddRule ==
  /\ phase = "rules" /\ todo # <<>>
  /\ LET rule == Head(todo) IN
       \/ (rule.access = {} \/ ~Exists(rule.path)) /\ UNCHANGED <<ruleset, warned>>
       \/ /\ rule.access # {} /\ Exists(rule.path) /\ KernelTakes(rule)
          /\ ruleset' = [ruleset EXCEPT !.rules = @ \cup {rule}] /\ UNCHANGED warned
       \/ /\ Exists(rule.path) /\ ~KernelTakes(rule)
          /\ warned' = warned \cup {rule.path} /\ UNCHANGED ruleset
  /\ todo' = Tail(todo)
  /\ UNCHANGED <<host, plan, phase, error, resolveVars, enforced, limits, creds>>

RestrictSelf ==
  /\ phase = "rules" /\ todo = <<>>
  /\ \/ enforced' = TRUE /\ GoTo("rlimits")
     \/ "restrict" \in Faults /\ Fail("Landlock") /\ UNCHANGED enforced
  /\ UNCHANGED <<host, plan, resolveVars, ruleset, todo, warned, limits, creds>>

---------------------------------------------------------------------------
(* The rest of lockdown, and the command.                                  *)

(* A limit that cannot be set leaves the ones before it set.               *)
LimitOrder == <<"DATA", "CPU", "FSIZE", "NOFILE", "NPROC", "CORE", "STACK">>
FirstLimits(n) == {LimitOrder[i] : i \in 1..n}

ApplyRlimits ==
  /\ phase = "rlimits"
  /\ \/ limits' = Limit /\ GoTo("securebits")
     \/ "rlimit" \in Faults /\ (\E n \in 0..6 : limits' = FirstLimits(n)) /\ Fail("Rlimit")
  /\ UNCHANGED <<host, plan, resolveVars, landlockVars, creds>>

(* Without CAP_SETPCAP neither call has an effect; neither stops lockdown. *)
ApplySecurebits ==
  /\ phase = "securebits"
  /\ creds' = [creds EXCEPT !.securebits = host.setpcap]
  /\ GoTo("caps")
  /\ UNCHANGED <<host, plan, resolveVars, landlockVars, limits>>

DropAllCaps ==
  /\ phase = "caps"
  /\ creds' = [creds EXCEPT !.bounding = ~host.setpcap]
  /\ GoTo("exec")
  /\ UNCHANGED <<host, plan, resolveVars, landlockVars, limits>>

(* A right is granted if Landlock does not handle it or a rule on the path *)
(* or on a directory above it has it.                                      *)
May(p, right) ==
  \/ ~enforced \/ right \notin ruleset.fs
  \/ \E rule \in ruleset.rules : rule.path \in Above[p] /\ right \in rule.access

(* Seccomp and the handshake lie between lockdown and exec_command.        *)
ExecCommand ==
  /\ phase = "exec"
  /\ IF Exists(binary) /\ binary \notin Dirs /\ May(binary, "EXECUTE")
     THEN GoTo("running") ELSE Fail("Exec")
  /\ UNCHANGED <<host, plan, resolveVars, landlockVars, limits, creds>>

(* Another program of the host.                                            *)
HostRemoves ==
  /\ phase \in {"resolve", "workspace", "nnp", "landlock", "rules"}
  /\ \E p \in Removable \cap host.files :
       host' = [host EXCEPT !.files = {q \in @ : p \notin Above[q]}]
  /\ UNCHANGED <<plan, phase, error, resolveVars, landlockVars, limits, creds>>

Over == phase \in {"running", "failed"} /\ UNCHANGED vars

Next ==
  \/ Check \/ Resolve \/ SetupWorkspace \/ SetNoNewPrivs \/ CreateRuleset \/ AddRule
  \/ RestrictSelf \/ ApplyRlimits \/ ApplySecurebits \/ DropAllCaps \/ ExecCommand
  \/ HostRemoves \/ Over

Spec == Init /\ [][Next]_vars

---------------------------------------------------------------------------
Phase == {"check", "resolve", "workspace", "nnp", "landlock", "rules", "rlimits", "securebits",
          "caps", "exec", "running", "failed"}
Error == {"none", "SystemCheck", "CommandNotFound", "Workspace", "Capability", "Landlock",
          "Rlimit", "Exec"}

(* The types of the state of one launch, and that an error is what ends it. *)
TypeOK ==
  /\ host \in Host /\ plan \in Plans
  /\ phase \in Phase /\ error \in Error /\ (phase = "failed" <=> error # "none")
  /\ binary \in Path /\ extra \subseteq SystemDirs
  /\ ruleset \in [fs : SUBSET FsRight, net : SUBSET NetRight, scoped : SUBSET Scope,
                  rules : SUBSET Rule]
  /\ todo \in Seq(Rule) /\ (todo # <<>> => phase = "rules")
  /\ warned \subseteq Path /\ enforced \in BOOLEAN
  /\ limits \subseteq Limit
  /\ creds \in [nnp : BOOLEAN, securebits : BOOLEAN, bounding : BOOLEAN]

ReadableMount(m, right) ==
  ~m.writable /\ right \in (IF m.executable THEN ReadAccess ELSE NoExec)
Mounts == {plan.mounts[i] : i \in DOMAIN plan.mounts}

(* What SECURITY_MODEL.md lets a command do with a file, under "Accessible *)
(* Paths (via Landlock)", and what plan.rs says of the mounts of a plan.   *)
Documented(p, right) ==
  \/ right \in WriteAccess \ {"EXECUTE"} /\ Under(p, Workspace)
  \/ right \in ReadAccess /\ Under(p, {"/usr", "/bin", "/lib", "/lib64", "/nix/store"})
  \/ right \in NoExec /\ Under(p, {"/etc", "/proc", "/dev"})
  \/ right = "WRITE_FILE" /\ Under(p, {"/dev"})
  \/ \E m \in Mounts : m.source \in Above[p] /\ ReadableMount(m, right)

(* What lockdown lets it do besides: execute what lies in the workspace or *)
(* in /etc, and read and execute in four more of the system's directories, *)
(* although the document gives no access to "everything else" and lists    *)
(* /run under "Not Accessible".                                            *)
Undocumented(p, right) ==
  \/ right = "EXECUTE" /\ Under(p, Workspace \cup {"/etc"})
  \/ /\ right \in ReadAccess
     /\ Under(p, {"/sbin", "/gnu/store", "/run/current-system", "/run/current-system/sw"})

(* A command only ever runs behind a Landlock domain that handles every    *)
(* right and grants no more than documented, those known exceptions apart, *)
(* whatever nests in whatever, with both scopes, the network closed if the *)
(* plan wants that, all rlimits set and no new privileges - although an    *)
(* unavailable Landlock is no error to lockdown and a refused rule only a  *)
(* warning.                                                                *)
NeverUnconfined ==
  phase = "running" =>
    /\ enforced /\ creds.nnp /\ limits = Limit /\ ruleset.scoped = Scope
    /\ plan.network_blocked => ruleset.net = NetRight
    /\ \A p \in Path, right \in FsRight :
         May(p, right) => Documented(p, right) \/ Undocumented(p, right)

(* A command that was found in a directory of this kind of host, or in an  *)
(* executable read-only mount, and is still there when it is executed,     *)
(* starts: resolution, the mounts it brings and the rules agree.  A rule   *)
(* refused by the kernel on a directory excuses the failure.               *)
ResolvedRuns ==
  LET homes == {d \in Dirs : \/ \E m \in Mounts : m.source = d /\ ReadableMount(m, "EXECUTE")
                             \/ d \in SystemMounts[detect(host)]}
  IN  (error = "Exec" /\ ~plan.given /\ Exists(binary) /\ binary \notin Dirs) =>
         ~Under(binary, homes \ warned)

(* check.rs says of ABI 5's features, required by none of its minimums:    *)
(* "lockdown.rs degrades gracefully with a warning".  So a host that       *)
(* passes the check can build its ruleset.                                 *)
CheckedHostIsEnough == error # "Landlock"
=============================================================================
