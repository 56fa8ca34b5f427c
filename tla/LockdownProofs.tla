--------------------------- MODULE LockdownProofs ---------------------------
(***************************************************************************)
(* Proofs about Lockdown, for every host, plan and tree of paths.          *)
(***************************************************************************)
EXTENDS Lockdown, SequenceTheorems, TLAPS

(* The steps that follow each step of lockdown.                            *)
AfterCaps == {"exec", "running"}
AfterLimits == {"securebits", "caps"} \cup AfterCaps
AfterRestrict == {"rlimits"} \cup AfterLimits
AfterCreate == {"rules"} \cup AfterRestrict
AfterNnp == {"landlock"} \cup AfterCreate
AfterCheck == {"resolve", "workspace", "nnp"} \cup AfterNnp

(* The places the rules of lockdown are for, and the most they give there. *)
Covered(p, right) ==
  \/ right \in WriteAccess /\ Under(p, Workspace)
  \/ right \in ReadAccess /\ Under(p, SystemDirs)
  \/ right \in NoExec /\ Under(p, {"/proc", "/dev"})
  \/ right = "WRITE_FILE" /\ Under(p, {"/dev"})
  \/ \E m \in Mounts : m.source \in Above[p] /\ ReadableMount(m, right)

(* A rule grants no more than that, on any path below it.                  *)
RuleCovered(rule) ==
  \A p \in Path, right \in rule.access : rule.path \in Above[p] => Covered(p, right)

(* What a launch that has not failed has behind it.  The check's minimum   *)
(* for Landlock is what keeps it from being skipped, and what makes the    *)
(* ruleset handle every right.                                             *)
Progress ==
  /\ phase \in AfterCheck => host.landlock >= MinLandlockAbi
  /\ phase \in AfterNnp => creds.nnp
  /\ phase \in AfterCreate => ruleset.fs = FsRight /\ ruleset.scoped = Scope
  /\ phase \in AfterCreate => (plan.network_blocked => ruleset.net = NetRight)
  /\ phase \in AfterRestrict => enforced
  /\ phase \in AfterLimits => limits = Limit

RulesCovered ==
  /\ \A rule \in ruleset.rules : RuleCovered(rule)
  /\ \A i \in DOMAIN todo : RuleCovered(todo[i])

LockdownInv == TypeOK /\ Progress /\ RulesCovered

USE DEF Phase, Error, AfterCheck, AfterNnp, AfterCreate, AfterRestrict, AfterLimits, AfterCaps

(* The three sets of rights the rules use are rights of Landlock.          *)
LEMMA RightsKnown ==
  /\ WriteAccess \subseteq FsRight /\ ReadAccess \subseteq WriteAccess /\ NoExec \subseteq ReadAccess
  /\ "WRITE_FILE" \in FsRight
BY DEF FsRight, FsAbi1, WriteAccess, ReadAccess, NoExec

(* A mount's rule is a rule, and gives what the mount's flags allow.       *)
LEMMA MountRule ==
  ASSUME LockdownAssumption, NEW m \in Mount
  PROVE  /\ mount_rule(m) \in Rule /\ mount_rule(m).path = m.source
         /\ \A right \in mount_rule(m).access : ReadableMount(m, right)
<1>1. m.source \in RulePath /\ m.writable \in BOOLEAN /\ m.executable \in BOOLEAN
  BY DEF Mount, RulePath
<1>2. CASE m.writable
  <2>1. mount_rule(m) = [path |-> m.source, access |-> {}]
    BY <1>2 DEF mount_rule
  <2> QED BY <1>1, <2>1 DEF Rule
<1>3. CASE ~m.writable /\ m.executable
  <2>1. mount_rule(m) = [path |-> m.source, access |-> ReadAccess]
    BY <1>3 DEF mount_rule
  <2>2. ReadAccess \in SUBSET FsRight
    BY RightsKnown
  <2> QED BY <1>1, <1>3, <2>1, <2>2 DEF Rule, ReadableMount
<1>4. CASE ~m.writable /\ ~m.executable
  <2>1. mount_rule(m) = [path |-> m.source, access |-> NoExec]
    BY <1>4 DEF mount_rule
  <2>2. NoExec \in SUBSET FsRight
    BY RightsKnown
  <2> QED BY <1>1, <1>4, <2>1, <2>2 DEF Rule, ReadableMount
<1> QED BY <1>2, <1>3, <1>4

(* The rules of a plan's mounts are rules, and covered.                    *)
LEMMA MountRules ==
  ASSUME LockdownAssumption, plan \in Plans
  PROVE  /\ mount_rules(plan.mounts) \in Seq(Rule)
         /\ \A i \in DOMAIN mount_rules(plan.mounts) : RuleCovered(mount_rules(plan.mounts)[i])
<1> DEFINE ms == plan.mounts
<1>1. ms \in Seq(Mount)
  BY DEF LockdownAssumption, Plan
<1>2. \A i \in 1..Len(ms) : ms[i] \in Mount
  BY <1>1
<1>3. mount_rules(ms) = [i \in 1..Len(ms) |-> mount_rule(ms[i])]
  BY <1>1 DEF mount_rules
<1>4. mount_rules(ms) \in Seq(Rule)
  <2>1. \A i \in 1..Len(ms) : mount_rule(ms[i]) \in Rule
    BY <1>2, MountRule
  <2>2. mount_rules(ms) \in [1..Len(ms) -> Rule] /\ Len(ms) \in Nat
    BY <1>1, <1>3, <2>1
  <2> QED BY <2>2, SeqDef
<1>5. ASSUME NEW i \in 1..Len(ms) PROVE RuleCovered(mount_rule(ms[i]))
  <2>1. ms[i] \in Mounts
    BY <1>1 DEF Mounts
  <2>2. /\ mount_rule(ms[i]).path = ms[i].source
        /\ \A right \in mount_rule(ms[i]).access : ReadableMount(ms[i], right)
    BY <1>2, MountRule
  <2> QED BY <2>1, <2>2 DEF RuleCovered, Covered
<1> QED BY <1>3, <1>4, <1>5

(* A rule on a system directory that reads and executes is covered.        *)
LEMMA SystemRule ==
  ASSUME NEW rule \in Rule, rule.path \in SystemDirs, rule.access \subseteq ReadAccess
  PROVE  RuleCovered(rule)
BY DEF RuleCovered, Covered, Under

(* The rules of the mounts a resolved command brings.                      *)
LEMMA ExtraRules ==
  ASSUME NEW mounts
  PROVE  /\ extra_rules(mounts) \in Seq(Rule)
         /\ \A i \in DOMAIN extra_rules(mounts) : RuleCovered(extra_rules(mounts)[i])
<1> DEFINE order == <<"/nix/store", "/run/current-system/sw", "/gnu/store",
                      "/usr", "/bin", "/lib", "/lib64", "/sbin">>
           rule(i) == [path |-> order[i], access |-> IF order[i] \in mounts THEN ReadAccess ELSE {}]
<1>1. extra_rules(mounts) = [i \in 1..8 |-> rule(i)]
  BY DEF extra_rules
<1>2. ASSUME NEW i \in 1..8
      PROVE  rule(i) \in Rule /\ rule(i).path \in SystemDirs /\ rule(i).access \subseteq ReadAccess
  <2>1. order[i] \in SystemDirs /\ order[i] \in RulePath
    BY DEF SystemDirs, RulePath
  <2>2. (IF order[i] \in mounts THEN ReadAccess ELSE {}) \in SUBSET ReadAccess
    OBVIOUS
  <2>3. ReadAccess \in SUBSET FsRight
    BY RightsKnown
  <2> HIDE DEF order
  <2>4. (IF order[i] \in mounts THEN ReadAccess ELSE {}) \in SUBSET FsRight
    BY <2>2, <2>3
  <2> QED BY <2>1, <2>2, <2>4 DEF Rule
<1> HIDE DEF rule
<1>3. extra_rules(mounts) \in [1..8 -> Rule]
  BY <1>1, <1>2
<1>4. extra_rules(mounts) \in Seq(Rule)
  BY <1>3, SeqDef
<1>5. \A i \in 1..8 : RuleCovered(rule(i))
  BY <1>2, SystemRule
<1> QED BY <1>1, <1>4, <1>5

(* The rules every sandbox gets.                                           *)
LEMMA FixedRules ==
  /\ fixed_rules \in Seq(Rule)
  /\ \A i \in DOMAIN fixed_rules : RuleCovered(fixed_rules[i])
<1> DEFINE order == <<"ws/work", "ws/tmp", "ws/home", "/usr", "/bin", "/lib", "/lib64", "/etc",
                      "/nix/store", "/run/current-system", "/proc", "/dev">>
           access(i) == CASE i \in 1..3 -> WriteAccess
                          [] i \in 4..10 -> ReadAccess
                          [] i = 11 -> NoExec
                          [] i = 12 -> NoExec \cup {"WRITE_FILE"}
           rule(i) == [path |-> order[i], access |-> access(i)]
<1>1. fixed_rules = [i \in 1..12 |-> rule(i)]
  BY DEF fixed_rules
<1>2. /\ \A i \in 1..3 : order[i] \in Workspace
      /\ \A i \in 4..10 : order[i] \in SystemDirs
      /\ order[11] = "/proc" /\ order[12] = "/dev"
      /\ \A i \in 1..12 : order[i] \in RulePath
  BY DEF Workspace, SystemDirs, RulePath
<1>3. /\ \A i \in 1..3 : access(i) = WriteAccess
      /\ \A i \in 4..10 : access(i) = ReadAccess
      /\ access(11) = NoExec /\ access(12) = NoExec \cup {"WRITE_FILE"}
  <2>1. \A i \in 1..3 : ~(i \in 4..10) /\ i # 11 /\ i # 12
    OBVIOUS
  <2>2. \A i \in 4..10 : ~(i \in 1..3) /\ i # 11 /\ i # 12
    OBVIOUS
  <2>3. \A i \in 1..3 : access(i) = WriteAccess
    BY <2>1
  <2>4. \A i \in 4..10 : access(i) = ReadAccess
    BY <2>2
  <2>5. access(11) = NoExec
    OBVIOUS
  <2>6. access(12) = NoExec \cup {"WRITE_FILE"}
    OBVIOUS
  <2> QED BY <2>3, <2>4, <2>5, <2>6
<1> HIDE DEF order, access
<1>4. ASSUME NEW i \in 1..12 PROVE rule(i) \in Rule
  <2>1. access(i) \in SUBSET FsRight
    <3>1. i \in 1..3 \/ i \in 4..10 \/ i = 11 \/ i = 12
      OBVIOUS
    <3> QED BY <1>3, <3>1, RightsKnown
  <2> QED BY <1>2, <2>1 DEF Rule
<1>5. ASSUME NEW i \in 1..12 PROVE RuleCovered(rule(i))
  <2>1. CASE i \in 1..3
    BY <1>2, <1>3, <2>1 DEF RuleCovered, Covered, Under
  <2>2. CASE i \in 4..10
    BY <1>2, <1>3, <2>2 DEF RuleCovered, Covered, Under
  <2>3. CASE i = 11
    BY <1>2, <1>3, <2>3 DEF RuleCovered, Covered, Under
  <2>4. CASE i = 12
    BY <1>2, <1>3, <2>4 DEF RuleCovered, Covered, Under
  <2> QED BY <2>1, <2>2, <2>3, <2>4
<1> HIDE DEF rule
<1>6. fixed_rules \in [1..12 -> Rule]
  BY <1>1, <1>4
<1>7. fixed_rules \in Seq(Rule)
  BY <1>6, SeqDef
<1> QED BY <1>1, <1>5, <1>7

---------------------------------------------------------------------------
(* The inductive invariant.                                                *)

LEMMA InitInv == ASSUME LockdownAssumption PROVE Init => LockdownInv
<1> SUFFICES ASSUME Init PROVE LockdownInv
  OBVIOUS
<1>1. host \in Host /\ plan \in Plans /\ plan \in Plan
  BY DEF Init, LockdownAssumption
<1>2. TypeOK
  <2>1. plan.command \in Path
    BY <1>1 DEF Plan
  <2>2. ruleset \in [fs : SUBSET FsRight, net : SUBSET NetRight, scoped : SUBSET Scope,
                    rules : SUBSET Rule]
    BY DEF Init, NoRules
  <2>3. creds \in [nnp : BOOLEAN, securebits : BOOLEAN, bounding : BOOLEAN]
    BY DEF Init
  <2>4. todo \in Seq(Rule) /\ todo = <<>>
    BY DEF Init
  <2> QED BY <1>1, <2>1, <2>2, <2>3, <2>4 DEF Init, TypeOK
<1>3. Progress /\ RulesCovered
  BY DEF Init, Progress, RulesCovered, NoRules
<1> QED BY <1>2, <1>3 DEF LockdownInv

(* A step that leaves the plan and the rules alone keeps them covered.     *)
LEMMA SameRules ==
  ASSUME RulesCovered, UNCHANGED plan, ruleset'.rules = ruleset.rules, UNCHANGED todo
  PROVE  RulesCovered'
BY DEF RulesCovered, RuleCovered, Covered, Mounts

(* check_impl compares the Landlock ABI with its minimum.                  *)
LEMMA CheckInv == ASSUME LockdownInv, Check PROVE LockdownInv'
<1>1. host.landlock \in Nat
  BY DEF LockdownInv, TypeOK, Host
<1>2. TypeOK'
  BY DEF LockdownInv, TypeOK, Check, GoTo, Fail, resolveVars, landlockVars
<1>3. Progress'
  BY <1>1 DEF LockdownInv, Progress, Check, check_impl, TooOld, MinLandlockAbi, GoTo, Fail,
              resolveVars, landlockVars
<1>4. RulesCovered'
  BY SameRules DEF LockdownInv, Check, landlockVars
<1> QED BY <1>2, <1>3, <1>4 DEF LockdownInv

LEMMA ResolveInv ==
  ASSUME LockdownAssumption, LockdownInv, Resolve PROVE LockdownInv'
<1>1. plan.command \in Path
  BY DEF LockdownInv, TypeOK, LockdownAssumption, Plan
<1>2. detect_mounts(host) \subseteq SystemDirs
  <2>1. detect(host) \in {"NixOS", "Guix", "Fhs"}
    BY DEF detect
  <2>2. SystemMounts[detect(host)] \subseteq SystemDirs
    BY <2>1 DEF SystemMounts, SystemDirs
  <2> QED BY <2>2 DEF detect_mounts, readonly_mounts
<1>3. TypeOK'
  BY <1>1, <1>2 DEF LockdownInv, TypeOK, Resolve, GoTo, Fail, landlockVars
<1>4. Progress'
  BY DEF LockdownInv, Progress, Resolve, GoTo, Fail, landlockVars
<1>5. RulesCovered'
  BY SameRules DEF LockdownInv, Resolve, landlockVars
<1> QED BY <1>3, <1>4, <1>5 DEF LockdownInv

(* A change of the host's files leaves the machine's features alone.       *)
LEMMA FilesChange ==
  ASSUME host \in Host, NEW files \in SUBSET Path, host' = [host EXCEPT !.files = files]
  PROVE  host' \in Host /\ host'.landlock = host.landlock
BY DEF Host

LEMMA SetupWorkspaceInv ==
  ASSUME LockdownAssumption, LockdownInv, SetupWorkspace PROVE LockdownInv'
<1>1. host \in Host /\ plan \in Plan
  BY DEF LockdownInv, TypeOK, LockdownAssumption
<1>2. host' \in Host /\ host'.landlock = host.landlock
  <2>1. CASE host' = host
    BY <1>1, <2>1
  <2>2. CASE host' = [host EXCEPT !.files = host.files \cup Workspace \cup plan.user_files]
    <3>1. host.files \cup Workspace \cup plan.user_files \in SUBSET Path
      BY <1>1 DEF Host, Plan, LockdownAssumption
    <3> QED BY <1>1, <2>2, <3>1, FilesChange
  <2> QED BY <2>1, <2>2 DEF SetupWorkspace
<1>3. TypeOK'
  BY <1>2 DEF LockdownInv, TypeOK, SetupWorkspace, GoTo, Fail, resolveVars, landlockVars
<1>4. Progress'
  BY <1>2 DEF LockdownInv, Progress, SetupWorkspace, GoTo, Fail, landlockVars
<1>5. RulesCovered'
  BY SameRules DEF LockdownInv, SetupWorkspace, landlockVars
<1> QED BY <1>3, <1>4, <1>5 DEF LockdownInv

LEMMA HostRemovesInv == ASSUME LockdownInv, HostRemoves PROVE LockdownInv'
<1>1. host \in Host
  BY DEF LockdownInv, TypeOK
<1>2. PICK p : host' = [host EXCEPT !.files = {q \in host.files : p \notin Above[q]}]
  BY DEF HostRemoves
<1>3. host' \in Host /\ host'.landlock = host.landlock
  <2>1. {q \in host.files : p \notin Above[q]} \in SUBSET Path
    BY <1>1 DEF Host
  <2> QED BY <1>1, <1>2, <2>1, FilesChange
<1>4. TypeOK'
  BY <1>3 DEF LockdownInv, TypeOK, HostRemoves, resolveVars, landlockVars
<1>5. Progress'
  BY <1>3 DEF LockdownInv, Progress, HostRemoves, landlockVars
<1>6. RulesCovered'
  BY SameRules DEF LockdownInv, HostRemoves, landlockVars
<1> QED BY <1>4, <1>5, <1>6 DEF LockdownInv

LEMMA SetNoNewPrivsInv == ASSUME LockdownInv, SetNoNewPrivs PROVE LockdownInv'
<1>1. creds' = [creds EXCEPT !.nnp = TRUE] \/ creds' = creds
  BY DEF SetNoNewPrivs
<1>2. TypeOK'
  BY <1>1 DEF LockdownInv, TypeOK, SetNoNewPrivs, GoTo, Fail, resolveVars, landlockVars
<1>3. Progress'
  BY DEF LockdownInv, TypeOK, Progress, SetNoNewPrivs, GoTo, Fail, landlockVars
<1>4. RulesCovered'
  BY SameRules DEF LockdownInv, SetNoNewPrivs, landlockVars
<1> QED BY <1>2, <1>3, <1>4 DEF LockdownInv

(* One list of covered rules after another is one.                         *)
LEMMA ConcatCovered ==
  ASSUME NEW s \in Seq(Rule), NEW t \in Seq(Rule),
         \A i \in DOMAIN s : RuleCovered(s[i]), \A i \in DOMAIN t : RuleCovered(t[i])
  PROVE  s \o t \in Seq(Rule) /\ \A i \in DOMAIN (s \o t) : RuleCovered((s \o t)[i])
<1>1. s \o t \in Seq(Rule) /\ DOMAIN (s \o t) = 1..(Len(s) + Len(t))
  OBVIOUS
<1>2. ASSUME NEW i \in 1..(Len(s) + Len(t)) PROVE RuleCovered((s \o t)[i])
  <2>1. CASE i <= Len(s)
    <3>1. (s \o t)[i] = s[i] /\ i \in DOMAIN s
      BY <2>1
    <3> QED BY <3>1
  <2>2. CASE i > Len(s)
    <3>1. (s \o t)[i] = t[i - Len(s)] /\ i - Len(s) \in DOMAIN t
      BY <2>2
    <3> QED BY <3>1
  <2> QED BY <2>1, <2>2
<1> QED BY <1>1, <1>2

(* A host that passed the check has an ABI whose rights are all of them.   *)
LEMMA CreateRulesetInv ==
  ASSUME LockdownAssumption, LockdownInv, CreateRuleset PROVE LockdownInv'
<1> DEFINE abi == host.landlock
           wanted == [fs |-> fs_access_for_abi(abi), scoped |-> scope_for_abi(abi), rules |-> {},
                      net |-> IF plan.network_blocked THEN net_access_for_abi(abi) ELSE {}]
           requests == mount_rules(plan.mounts) \o extra_rules(extra) \o fixed_rules
<1>1. phase = "landlock" /\ abi \in Nat /\ abi >= 4 /\ plan \in Plans
  BY DEF CreateRuleset, LockdownInv, TypeOK, Progress, Host, MinLandlockAbi
<1>2. CASE Fail("Landlock") /\ UNCHANGED landlockVars
  <2>1. phase' = "failed" /\ error' = "Landlock"
    BY <1>2 DEF Fail
  <2>2. TypeOK'
    BY <1>1, <1>2, <2>1 DEF LockdownInv, TypeOK, CreateRuleset, resolveVars, landlockVars
  <2>3. Progress'
    BY <2>1 DEF Progress
  <2>4. RulesCovered'
    BY <1>2, SameRules DEF LockdownInv, CreateRuleset, landlockVars
  <2> QED BY <2>2, <2>3, <2>4 DEF LockdownInv
<1>3. CASE /\ ruleset' = wanted /\ todo' = requests
           /\ GoTo("rules") /\ UNCHANGED <<warned, enforced>>
  <2>1. fs_access_for_abi(abi) = FsRight /\ net_access_for_abi(abi) = NetRight
    BY <1>1 DEF fs_access_for_abi, net_access_for_abi, FsRight
  <2>2. scope_for_abi(abi) = Scope
    <3>1. KernelKnows(abi, wanted)
      BY <1>1, <1>3 DEF CreateRuleset, GoTo, Fail
    <3>2. "IOCTL_DEV" \in wanted.fs
      BY <2>1 DEF FsRight
    <3>3. abi >= 5
      BY <3>1, <3>2 DEF KernelKnows
    <3> QED BY <1>1, <3>3 DEF scope_for_abi
  <2>3. requests \in Seq(Rule) /\ \A i \in DOMAIN requests : RuleCovered(requests[i])
    <3> DEFINE ms == mount_rules(plan.mounts)
               es == extra_rules(extra)
    <3>1. ms \in Seq(Rule) /\ \A i \in DOMAIN ms : RuleCovered(ms[i])
      BY <1>1, MountRules
    <3>2. es \in Seq(Rule) /\ \A i \in DOMAIN es : RuleCovered(es[i])
      BY ExtraRules
    <3>3. ms \o es \in Seq(Rule) /\ \A i \in DOMAIN (ms \o es) : RuleCovered((ms \o es)[i])
      <4> HIDE DEF ms, es
      <4> QED BY <3>1, <3>2, ConcatCovered
    <3> DEFINE both == ms \o es
    <3>4. both \in Seq(Rule) /\ \A i \in DOMAIN both : RuleCovered(both[i])
      BY <3>3
    <3>5. requests = both \o fixed_rules
      OBVIOUS
    <3> HIDE DEF both, requests
    <3>6. /\ both \o fixed_rules \in Seq(Rule)
          /\ \A i \in DOMAIN (both \o fixed_rules) : RuleCovered((both \o fixed_rules)[i])
      BY <3>4, FixedRules, ConcatCovered
    <3> QED BY <3>5, <3>6
  <2>4. wanted \in [fs : SUBSET FsRight, net : SUBSET NetRight, scoped : SUBSET Scope,
                   rules : SUBSET Rule]
    BY <2>1, <2>2
  <2>5. TypeOK'
    BY <1>1, <1>3, <2>3, <2>4 DEF LockdownInv, TypeOK, CreateRuleset, GoTo, resolveVars
  <2>6. Progress'
    BY <1>1, <1>3, <2>1, <2>2 DEF LockdownInv, Progress, CreateRuleset, GoTo
  <2>7. RulesCovered'
    <3>1. UNCHANGED plan /\ ruleset'.rules = {}
      BY <1>3 DEF CreateRuleset
    <3> HIDE DEF requests, wanted
    <3> QED BY <1>3, <2>3, <3>1 DEF RulesCovered, RuleCovered, Covered, Mounts
  <2> QED BY <2>5, <2>6, <2>7 DEF LockdownInv
<1> QED BY <1>1, <1>2, <1>3 DEF CreateRuleset

LEMMA AddRuleInv == ASSUME LockdownInv, AddRule PROVE LockdownInv'
<1> DEFINE rule == Head(todo)
<1>1. /\ todo \in Seq(Rule) /\ todo # <<>> /\ phase = "rules"
      /\ \A i \in DOMAIN todo : RuleCovered(todo[i])
  BY DEF LockdownInv, TypeOK, RulesCovered, AddRule
<1>2. rule \in Rule /\ RuleCovered(rule)
  BY <1>1
<1>3. todo' \in Seq(Rule) /\ \A i \in DOMAIN todo' : \E j \in DOMAIN todo : todo'[i] = todo[j]
  <2>1. todo' = Tail(todo)
    BY DEF AddRule
  <2>2. Tail(todo) \in Seq(Rule) /\ Len(Tail(todo)) = Len(todo) - 1
        /\ \A i \in 1..Len(Tail(todo)) : Tail(todo)[i] = todo[i + 1]
    BY <1>1
  <2> QED BY <1>1, <2>1, <2>2
<1>4. \/ ruleset' = ruleset
      \/ ruleset' = [ruleset EXCEPT !.rules = ruleset.rules \cup {rule}]
  BY DEF AddRule
<1>5. TypeOK'
  <2>1. ruleset' \in [fs : SUBSET FsRight, net : SUBSET NetRight, scoped : SUBSET Scope,
                     rules : SUBSET Rule]
    BY <1>2, <1>4 DEF LockdownInv, TypeOK
  <2>2. warned' \subseteq Path
    BY DEF LockdownInv, TypeOK, AddRule, Exists, Host
  <2> QED BY <1>1, <1>3, <2>1, <2>2 DEF LockdownInv, TypeOK, AddRule, resolveVars
<1>6. Progress'
  <2>1. ruleset'.fs = ruleset.fs /\ ruleset'.net = ruleset.net /\ ruleset'.scoped = ruleset.scoped
    BY <1>4 DEF LockdownInv, TypeOK
  <2> QED BY <2>1 DEF LockdownInv, Progress, AddRule
<1>7. RulesCovered'
  <2>1. \A r \in ruleset'.rules : r \in ruleset.rules \/ r = rule
    BY <1>4 DEF LockdownInv, TypeOK
  <2>2. \A r \in ruleset'.rules : RuleCovered(r)
    BY <1>2, <2>1 DEF LockdownInv, RulesCovered
  <2>3. \A i \in DOMAIN todo' : RuleCovered(todo'[i])
    BY <1>1, <1>3
  <2>4. UNCHANGED plan
    BY DEF AddRule
  <2> QED BY <2>2, <2>3, <2>4 DEF RulesCovered, RuleCovered, Covered, Mounts
<1> QED BY <1>5, <1>6, <1>7 DEF LockdownInv

LEMMA RestrictSelfInv == ASSUME LockdownInv, RestrictSelf PROVE LockdownInv'
<1>1. TypeOK'
  BY DEF LockdownInv, TypeOK, RestrictSelf, GoTo, Fail, resolveVars
<1>2. Progress'
  BY DEF LockdownInv, Progress, RestrictSelf, GoTo, Fail
<1>3. RulesCovered'
  BY SameRules DEF LockdownInv, RestrictSelf
<1> QED BY <1>1, <1>2, <1>3 DEF LockdownInv

LEMMA ApplyRlimitsInv == ASSUME LockdownInv, ApplyRlimits PROVE LockdownInv'
<1>1. limits' \subseteq Limit
  BY DEF ApplyRlimits, FirstLimits, LimitOrder, Limit
<1>2. TypeOK'
  BY <1>1 DEF LockdownInv, TypeOK, ApplyRlimits, GoTo, Fail, resolveVars, landlockVars
<1>3. Progress'
  BY DEF LockdownInv, Progress, ApplyRlimits, GoTo, Fail, landlockVars
<1>4. RulesCovered'
  BY SameRules DEF LockdownInv, ApplyRlimits, landlockVars
<1> QED BY <1>2, <1>3, <1>4 DEF LockdownInv

LEMMA ApplySecurebitsInv == ASSUME LockdownInv, ApplySecurebits PROVE LockdownInv'
<1>1. host.setpcap \in BOOLEAN
  BY DEF LockdownInv, TypeOK, Host
<1>2. TypeOK'
  BY <1>1 DEF LockdownInv, TypeOK, ApplySecurebits, GoTo, resolveVars, landlockVars
<1>3. Progress'
  BY DEF LockdownInv, TypeOK, Progress, ApplySecurebits, GoTo, landlockVars
<1>4. RulesCovered'
  BY SameRules DEF LockdownInv, ApplySecurebits, landlockVars
<1> QED BY <1>2, <1>3, <1>4 DEF LockdownInv

LEMMA DropAllCapsInv == ASSUME LockdownInv, DropAllCaps PROVE LockdownInv'
<1>1. (~host.setpcap) \in BOOLEAN
  OBVIOUS
<1>2. TypeOK'
  BY <1>1 DEF LockdownInv, TypeOK, DropAllCaps, GoTo, resolveVars, landlockVars
<1>3. Progress'
  BY DEF LockdownInv, TypeOK, Progress, DropAllCaps, GoTo, landlockVars
<1>4. RulesCovered'
  BY SameRules DEF LockdownInv, DropAllCaps, landlockVars
<1> QED BY <1>2, <1>3, <1>4 DEF LockdownInv

LEMMA ExecCommandInv == ASSUME LockdownInv, ExecCommand PROVE LockdownInv'
<1>1. TypeOK'
  BY DEF LockdownInv, TypeOK, ExecCommand, GoTo, Fail, resolveVars, landlockVars
<1>2. Progress'
  BY DEF LockdownInv, Progress, ExecCommand, GoTo, Fail, landlockVars
<1>3. RulesCovered'
  BY SameRules DEF LockdownInv, ExecCommand, landlockVars
<1> QED BY <1>1, <1>2, <1>3 DEF LockdownInv

(* The invariant holds in every reachable state.                           *)
LEMMA NextInv == ASSUME LockdownAssumption, LockdownInv, [Next]_vars PROVE LockdownInv'
<1>1. CASE UNCHANGED vars
  BY <1>1, SameRules DEF vars, resolveVars, landlockVars, LockdownInv, TypeOK, Progress
<1>2. CASE Over
  BY <1>1, <1>2 DEF Over
<1>3. CASE Next /\ ~Over
  BY <1>3, CheckInv, ResolveInv, SetupWorkspaceInv, SetNoNewPrivsInv, CreateRulesetInv, AddRuleInv,
     RestrictSelfInv, ApplyRlimitsInv, ApplySecurebitsInv, DropAllCapsInv, ExecCommandInv,
     HostRemovesInv DEF Next
<1> QED BY <1>1, <1>2, <1>3

THEOREM LockdownInvariance == Spec => []LockdownInv
<1>1. Init => LockdownInv
  BY LockdownAssumption, InitInv
<1>2. LockdownInv /\ [Next]_vars => LockdownInv'
  BY LockdownAssumption, NextInv
<1> QED BY <1>1, <1>2, PTL DEF Spec

(* Every state of a launch has its types (TypeOK), and only a step that    *)
(* failed ends with an error.                                              *)
THEOREM LockdownTypes == Spec => []TypeOK
<1>1. LockdownInv => TypeOK
  BY DEF LockdownInv
<1> QED BY <1>1, LockdownInvariance, PTL

(* What the rules cover is documented or one of the known exceptions.      *)
LEMMA CoveredIsKnown ==
  ASSUME NEW p, NEW right \in FsRight, Covered(p, right)
  PROVE  Documented(p, right) \/ Undocumented(p, right)
<1>1. CASE right \in WriteAccess /\ Under(p, Workspace)
  BY <1>1 DEF Documented, Undocumented, Under
<1>2. CASE right \in ReadAccess /\ Under(p, SystemDirs)
  <2>1. \/ Under(p, {"/usr", "/bin", "/lib", "/lib64", "/nix/store"})
        \/ Under(p, {"/etc"})
        \/ Under(p, {"/sbin", "/gnu/store", "/run/current-system", "/run/current-system/sw"})
    BY <1>2 DEF Under, SystemDirs
  <2>2. CASE Under(p, {"/etc"})
    <3>1. CASE right = "EXECUTE"
      BY <2>2, <3>1 DEF Undocumented, Under
    <3>2. CASE right # "EXECUTE"
      BY <1>2, <2>2, <3>2 DEF Documented, NoExec, Under
    <3> QED BY <3>1, <3>2
  <2> QED BY <1>2, <2>1, <2>2 DEF Documented, Undocumented
<1>3. CASE right \in NoExec /\ Under(p, {"/proc", "/dev"})
  BY <1>3 DEF Documented, Under
<1>4. CASE \/ right = "WRITE_FILE" /\ Under(p, {"/dev"})
           \/ \E m \in Mounts : m.source \in Above[p] /\ ReadableMount(m, right)
  BY <1>4 DEF Documented
<1> QED BY <1>1, <1>2, <1>3, <1>4 DEF Covered

(* Whatever the host, the plan and the tree of paths, a command runs only  *)
(* with all that lockdown applies in force, and Landlock grants it nothing *)
(* but what SECURITY_MODEL.md and the plan's mounts give, and the known    *)
(* exceptions to them.                                                     *)
THEOREM AlwaysConfined == Spec => []NeverUnconfined
<1>1. ASSUME LockdownInv PROVE NeverUnconfined
  <2> SUFFICES ASSUME phase = "running" PROVE
        /\ enforced /\ creds.nnp /\ limits = Limit /\ ruleset.scoped = Scope
        /\ plan.network_blocked => ruleset.net = NetRight
        /\ \A p \in Path, right \in FsRight :
             May(p, right) => Documented(p, right) \/ Undocumented(p, right)
    BY DEF NeverUnconfined
  <2>1. /\ enforced /\ creds.nnp /\ limits = Limit
        /\ ruleset.fs = FsRight /\ ruleset.scoped = Scope
        /\ plan.network_blocked => ruleset.net = NetRight
    BY <1>1 DEF LockdownInv, Progress
  <2>2. ASSUME NEW p \in Path, NEW right \in FsRight, May(p, right)
        PROVE  Documented(p, right) \/ Undocumented(p, right)
    <3>1. PICK rule \in ruleset.rules : rule.path \in Above[p] /\ right \in rule.access
      BY <2>1, <2>2 DEF May
    <3>2. RuleCovered(rule)
      BY <1>1, <3>1 DEF LockdownInv, RulesCovered
    <3>3. Covered(p, right)
      BY <3>1, <3>2 DEF RuleCovered
    <3> QED BY <3>3, CoveredIsKnown
  <2> QED BY <2>1, <2>2
<1> QED BY <1>1, LockdownInvariance, PTL

---------------------------------------------------------------------------
(* What was resolved can be executed.  A directory commands are found in   *)
(* keeps its rule from the moment the rules are laid out: it waits in      *)
(* todo, or the kernel took it, or it was refused with a warning.          *)
Executes(rule, d) == rule.path = d /\ "EXECUTE" \in rule.access
Homed(d) ==
  \/ d \in warned
  \/ \E rule \in ruleset.rules : Executes(rule, d)
  \/ \E i \in DOMAIN todo : Executes(todo[i], d)
MountHome(d) == \E m \in Mounts : m.source = d /\ ReadableMount(m, "EXECUTE")
SystemHome(d) == ~plan.given /\ d \in SystemMounts[detect(host)]

FilesAreTree == \A p \in host.files : Above[p] \subseteq host.files
ExtraComplete ==
  phase \in {"workspace", "nnp", "landlock"} =>
    \A d \in host.files : SystemHome(d) => d \in extra
HomesCovered ==
  (phase \in AfterCreate \/ error = "Exec") =>
    \A d \in host.files : (MountHome(d) \/ SystemHome(d)) => Homed(d)
ExecRefused ==
  error = "Exec" => (Exists(binary) /\ binary \notin Dirs => ~May(binary, "EXECUTE"))
HomesInv == FilesAreTree /\ ExtraComplete /\ HomesCovered /\ ExecRefused

(* detect goes by three paths and one link.                                *)
LEMMA SameKind ==
  ASSUME NEW h, NEW g, g.bin_sh = h.bin_sh,
         \A p \in {"/etc/NIXOS", "/nix/store", "/gnu/store"} : p \in g.files <=> p \in h.files
  PROVE  detect(g) = detect(h)
BY DEF detect

(* A directory that system mounts bring has its rule among extra_rules.    *)
LEMMA ExtraRuleThere ==
  ASSUME NEW mounts, NEW d \in mounts, NEW kind \in SystemType, d \in SystemMounts[kind]
  PROVE  \E i \in DOMAIN extra_rules(mounts) : Executes(extra_rules(mounts)[i], d)
<1> DEFINE order == <<"/nix/store", "/run/current-system/sw", "/gnu/store",
                      "/usr", "/bin", "/lib", "/lib64", "/sbin">>
           rule(i) == [path |-> order[i], access |-> IF order[i] \in mounts THEN ReadAccess ELSE {}]
<1>1. extra_rules(mounts) = [i \in 1..8 |-> rule(i)]
  BY DEF extra_rules
<1>2. PICK i \in 1..8 : order[i] = d
  <2>1. d \in {order[1], order[2], order[3], order[4], order[5], order[6], order[7], order[8]}
    BY DEF SystemMounts, SystemType
  <2> HIDE DEF order
  <2> QED BY <2>1
<1>3. "EXECUTE" \in ReadAccess
  BY DEF ReadAccess
<1> HIDE DEF order
<1>4. rule(i).path = d /\ "EXECUTE" \in rule(i).access
  BY <1>2, <1>3
<1> HIDE DEF rule
<1> QED BY <1>1, <1>2, <1>4 DEF Executes

(* So has an executable read-only mount of the plan among mount_rules.     *)
LEMMA MountRuleThere ==
  ASSUME LockdownAssumption, plan \in Plans, NEW d, MountHome(d)
  PROVE  \E i \in DOMAIN mount_rules(plan.mounts) : Executes(mount_rules(plan.mounts)[i], d)
<1>1. PICK i \in DOMAIN plan.mounts :
        plan.mounts[i].source = d /\ ReadableMount(plan.mounts[i], "EXECUTE")
  BY DEF MountHome, Mounts
<1>2. "EXECUTE" \in ReadAccess /\ "EXECUTE" \notin NoExec
  BY DEF ReadAccess, NoExec
<1>3. ~plan.mounts[i].writable /\ plan.mounts[i].executable
  BY <1>1, <1>2 DEF ReadableMount
<1>4. mount_rule(plan.mounts[i]) = [path |-> d, access |-> ReadAccess]
  BY <1>1, <1>3 DEF mount_rule
<1>5. mount_rules(plan.mounts)[i] = mount_rule(plan.mounts[i]) /\ i \in DOMAIN mount_rules(plan.mounts)
  BY <1>1 DEF mount_rules
<1> QED BY <1>2, <1>4, <1>5 DEF Executes

(* Where host, plan and the rules stay, what covers a directory stays.     *)
LEMMA SameCover ==
  ASSUME UNCHANGED <<plan, warned, todo>>, ruleset'.rules = ruleset.rules
  PROVE  /\ \A d : Homed(d)' = Homed(d)
         /\ \A d : MountHome(d)' = MountHome(d)
BY DEF Homed, MountHome, Mounts

LEMMA SameHomes ==
  ASSUME UNCHANGED <<host, plan>>
  PROVE  \A d : SystemHome(d)' = SystemHome(d) /\ MountHome(d)' = MountHome(d)
BY DEF SystemHome, MountHome, Mounts

LEMMA HomesInit == ASSUME LockdownAssumption, TreeAssumption, Init PROVE HomesInv
<1>1. FilesAreTree
  BY DEF Init, FilesAreTree, TreeAssumption
<1>2. ExtraComplete /\ HomesCovered /\ ExecRefused
  BY DEF Init, ExtraComplete, HomesCovered, ExecRefused
<1> QED BY <1>1, <1>2 DEF HomesInv

(* The steps after RestrictSelf, and those before Resolve, that end with   *)
(* no Exec error touch nothing the invariant reads but the phase.          *)
LEMMA HomesQuiet ==
  ASSUME HomesInv, UNCHANGED <<host, plan, binary, extra, ruleset, todo, warned>>,
         phase' \in AfterCreate => phase \in AfterCreate,
         phase' \in {"workspace", "nnp", "landlock"} => phase \in {"workspace", "nnp", "landlock"},
         error' # "Exec"
  PROVE  HomesInv'
<1>1. FilesAreTree'
  BY DEF HomesInv, FilesAreTree
<1>2. ExtraComplete'
  BY SameHomes DEF HomesInv, ExtraComplete
<1>3. HomesCovered'
  BY SameHomes, SameCover DEF HomesInv, HomesCovered
<1>4. ExecRefused'
  BY DEF ExecRefused
<1> QED BY <1>1, <1>2, <1>3, <1>4 DEF HomesInv

LEMMA HomesQuietSteps ==
  ASSUME LockdownInv, HomesInv,
         \/ Check \/ SetNoNewPrivs \/ RestrictSelf \/ ApplyRlimits \/ ApplySecurebits \/ DropAllCaps
  PROVE  HomesInv'
<1>1. error # "Exec" \/ phase = "failed"
  BY DEF LockdownInv, TypeOK
<1>2. CASE Check
  BY <1>1, <1>2, HomesQuiet DEF Check, GoTo, Fail, resolveVars, landlockVars
<1>3. CASE SetNoNewPrivs
  BY <1>1, <1>3, HomesQuiet DEF SetNoNewPrivs, GoTo, Fail, resolveVars, landlockVars
<1>4. CASE RestrictSelf
  BY <1>1, <1>4, HomesQuiet DEF RestrictSelf, GoTo, Fail, resolveVars
<1>5. CASE ApplyRlimits
  BY <1>1, <1>5, HomesQuiet DEF ApplyRlimits, GoTo, Fail, resolveVars, landlockVars
<1>6. CASE ApplySecurebits
  BY <1>1, <1>6, HomesQuiet DEF ApplySecurebits, GoTo, resolveVars, landlockVars
<1>7. CASE DropAllCaps
  BY <1>1, <1>7, HomesQuiet DEF DropAllCaps, GoTo, resolveVars, landlockVars
<1> QED BY <1>2, <1>3, <1>4, <1>5, <1>6, <1>7

(* A command that is not given brings every system mount that exists.      *)
LEMMA HomesResolve == ASSUME LockdownInv, HomesInv, Resolve PROVE HomesInv'
<1>1. UNCHANGED <<host, plan, ruleset, todo, warned>> /\ phase = "resolve" /\ error = "none"
  BY DEF LockdownInv, TypeOK, Resolve, landlockVars
<1>2. FilesAreTree'
  BY <1>1 DEF HomesInv, FilesAreTree
<1>3. ExtraComplete'
  <2>1. CASE plan.given
    BY <1>1, <2>1 DEF ExtraComplete, SystemHome
  <2>2. CASE ~plan.given /\ extra' = detect_mounts(host)
    BY <1>1, <2>2, SameHomes DEF ExtraComplete, SystemHome, detect_mounts, readonly_mounts
  <2>3. CASE Fail("CommandNotFound")
    BY <2>3 DEF Fail, ExtraComplete
  <2> QED BY <2>1, <2>2, <2>3 DEF Resolve
<1>4. HomesCovered' /\ ExecRefused'
  BY <1>1 DEF Resolve, GoTo, Fail, HomesCovered, ExecRefused
<1> QED BY <1>2, <1>3, <1>4 DEF HomesInv

(* The workspace and a plan's files make no store appear.                  *)
LEMMA HomesSetup ==
  ASSUME LockdownAssumption, TreeAssumption, LockdownInv, HomesInv, SetupWorkspace
  PROVE  HomesInv'
<1>1. UNCHANGED <<plan, extra, ruleset, todo, warned>> /\ phase = "workspace" /\ error = "none"
  BY DEF LockdownInv, TypeOK, SetupWorkspace, resolveVars, landlockVars
<1>2. HomesCovered' /\ ExecRefused'
  BY <1>1 DEF SetupWorkspace, GoTo, Fail, HomesCovered, ExecRefused
<1>3. CASE host' = host
  BY <1>1, <1>2, <1>3, SameHomes DEF HomesInv, FilesAreTree, ExtraComplete
<1>4. CASE host' = [host EXCEPT !.files = host.files \cup Workspace \cup plan.user_files]
  <2>1. host \in Host /\ plan \in Plans
    BY DEF LockdownInv, TypeOK
  <2>2. host'.files = host.files \cup Workspace \cup plan.user_files /\ host'.bin_sh = host.bin_sh
    BY <1>4, <2>1 DEF Host
  <2>3. FilesAreTree'
    <3>1. \A p \in Workspace : Above[p] \subseteq Workspace
      BY DEF TreeAssumption
    <3>2. \A p \in plan.user_files : Above[p] \subseteq Workspace \cup plan.user_files
      BY <2>1 DEF TreeAssumption
    <3>3. \A p \in host.files : Above[p] \subseteq host.files
      BY DEF HomesInv, FilesAreTree
    <3> QED BY <2>2, <3>1, <3>2, <3>3 DEF FilesAreTree
  <2>4. \A p \in SystemDirs \cup {"/etc/NIXOS"} : p \notin Workspace \cup plan.user_files
    BY <2>1 DEF TreeAssumption, SystemDirs, Workspace
  <2>5. detect(host') = detect(host)
    <3>1. \A p \in {"/etc/NIXOS", "/nix/store", "/gnu/store"} : p \in host'.files <=> p \in host.files
      BY <2>2, <2>4 DEF SystemDirs
    <3> QED BY <2>2, <3>1, SameKind
  <2>6. \A d : SystemHome(d)' => SystemHome(d) /\ d \in SystemDirs
    <3>1. detect(host) \in {"NixOS", "Guix", "Fhs"}
      BY DEF detect
    <3>2. SystemMounts[detect(host)] \subseteq SystemDirs
      BY <3>1 DEF SystemMounts, SystemDirs
    <3> QED BY <1>1, <2>5, <3>2 DEF SystemHome
  <2>7. ExtraComplete'
    BY <1>1, <2>2, <2>4, <2>6 DEF HomesInv, ExtraComplete
  <2> QED BY <1>2, <2>3, <2>7 DEF HomesInv
<1> QED BY <1>3, <1>4 DEF SetupWorkspace

(* Every directory commands are found in has its rule laid out.            *)
LEMMA HomesCreate ==
  ASSUME LockdownAssumption, LockdownInv, HomesInv, CreateRuleset PROVE HomesInv'
<1>1. /\ UNCHANGED <<host, plan>> /\ phase = "landlock" /\ error = "none" /\ host.landlock # 0
      /\ plan \in Plans
  BY DEF LockdownInv, TypeOK, Progress, Host, MinLandlockAbi, CreateRuleset
<1>2. FilesAreTree'
  BY <1>1 DEF HomesInv, FilesAreTree
<1>3. ExtraComplete' /\ ExecRefused'
  BY <1>1 DEF CreateRuleset, GoTo, Fail, ExtraComplete, ExecRefused
<1>4. HomesCovered'
  <2>1. CASE Fail("Landlock")
    BY <2>1 DEF Fail, HomesCovered
  <2>2. CASE todo' = mount_rules(plan.mounts) \o extra_rules(extra) \o fixed_rules
    <3> DEFINE ms == mount_rules(plan.mounts)
               es == extra_rules(extra)
               fs == fixed_rules
    <3>1. ms \in Seq(Rule) /\ es \in Seq(Rule) /\ fs \in Seq(Rule)
      BY <1>1, MountRules, ExtraRules, FixedRules
    <3>2. ASSUME NEW i \in DOMAIN ms
          PROVE  i \in DOMAIN (ms \o es \o fs) /\ (ms \o es \o fs)[i] = ms[i]
      <4> HIDE DEF ms, es, fs
      <4> QED BY <3>1, <3>2
    <3>3. ASSUME NEW i \in DOMAIN es
          PROVE  /\ Len(ms) + i \in DOMAIN (ms \o es \o fs)
                 /\ (ms \o es \o fs)[Len(ms) + i] = es[i]
      <4> HIDE DEF ms, es, fs
      <4> QED BY <3>1, <3>3
    <3>4. ASSUME NEW d \in host.files, MountHome(d)
          PROVE  \E i \in DOMAIN (ms \o es \o fs) : Executes((ms \o es \o fs)[i], d)
      <4>1. PICK i \in DOMAIN ms : Executes(ms[i], d)
        BY <1>1, <3>4, MountRuleThere
      <4> HIDE DEF ms, es, fs
      <4> QED BY <3>2, <4>1
    <3>5. ASSUME NEW d \in host.files, SystemHome(d)
          PROVE  \E i \in DOMAIN (ms \o es \o fs) : Executes((ms \o es \o fs)[i], d)
      <4>1. detect(host) \in SystemType
        BY DEF detect, SystemType
      <4>2. d \in extra /\ d \in SystemMounts[detect(host)]
        BY <1>1, <3>5 DEF HomesInv, ExtraComplete, SystemHome
      <4>3. PICK i \in DOMAIN es : Executes(es[i], d)
        BY <4>1, <4>2, ExtraRuleThere
      <4> HIDE DEF ms, es, fs
      <4> QED BY <3>3, <4>3
    <3>6. todo' = ms \o es \o fs
      BY <2>2
    <3> HIDE DEF ms, es, fs
    <3>7. \A d \in host.files : MountHome(d) \/ SystemHome(d) => Homed(d)'
      BY <3>4, <3>5, <3>6 DEF Homed
    <3> QED BY <1>1, <3>7, SameHomes DEF HomesCovered
  <2> QED BY <1>1, <2>1, <2>2 DEF CreateRuleset
<1> QED BY <1>2, <1>3, <1>4 DEF HomesInv

(* A rule leaves todo for the ruleset or for warned, unless its path is    *)
(* not there.                                                              *)
LEMMA HomesAddRule == ASSUME LockdownInv, HomesInv, AddRule PROVE HomesInv'
<1>1. /\ UNCHANGED <<host, plan, phase, error, extra>> /\ phase = "rules" /\ error = "none"
      /\ todo \in Seq(Rule) /\ todo # <<>> /\ todo' = Tail(todo)
  BY DEF LockdownInv, TypeOK, AddRule, resolveVars
<1>2. FilesAreTree' /\ ExtraComplete' /\ ExecRefused'
  BY <1>1 DEF HomesInv, FilesAreTree, ExtraComplete, ExecRefused
<1>3. ruleset.rules \subseteq ruleset'.rules /\ warned \subseteq warned'
  BY DEF AddRule, LockdownInv, TypeOK
<1>4. ASSUME NEW d \in host.files, Homed(d) PROVE Homed(d)'
  <2>1. CASE d \in warned
    BY <1>3, <2>1 DEF Homed
  <2>2. CASE \E rule \in ruleset.rules : Executes(rule, d)
    BY <1>3, <2>2 DEF Homed
  <2>3. CASE \E i \in DOMAIN todo : Executes(todo[i], d)
    <3>1. PICK i \in 1..Len(todo) : Executes(todo[i], d)
      BY <1>1, <2>3
    <3>2. CASE i = 1
      <4>1. Executes(Head(todo), d) /\ Exists(d)
        BY <1>1, <3>1, <3>2 DEF Exists
      <4>2. Head(todo).access # {} /\ Exists(Head(todo).path)
        BY <4>1 DEF Executes
      <4>3. \/ ruleset' = [ruleset EXCEPT !.rules = ruleset.rules \cup {Head(todo)}]
            \/ warned' = warned \cup {Head(todo).path}
        BY <4>2 DEF AddRule
      <4>4. Head(todo) \in ruleset'.rules \/ Head(todo).path \in warned'
        BY <4>3 DEF LockdownInv, TypeOK
      <4> QED BY <4>1, <4>4 DEF Homed, Executes
    <3>3. CASE i > 1
      <4>1. i - 1 \in DOMAIN Tail(todo) /\ Tail(todo)[i - 1] = todo[i]
        BY <1>1, <3>1, <3>3
      <4> QED BY <1>1, <3>1, <4>1 DEF Homed
    <3> QED BY <3>1, <3>2, <3>3
  <2> QED BY <1>4, <2>1, <2>2, <2>3 DEF Homed
<1>5. HomesCovered'
  BY <1>1, <1>4, SameHomes DEF HomesInv, HomesCovered
<1> QED BY <1>2, <1>5 DEF HomesInv

LEMMA HomesExec == ASSUME LockdownInv, HomesInv, ExecCommand PROVE HomesInv'
<1>1. /\ UNCHANGED <<host, plan, binary, extra, ruleset, todo, warned, enforced>>
      /\ phase = "exec" /\ error = "none" /\ phase' \in {"running", "failed"}
  BY DEF LockdownInv, TypeOK, ExecCommand, GoTo, Fail, resolveVars, landlockVars
<1>2. FilesAreTree' /\ ExtraComplete'
  BY <1>1 DEF HomesInv, FilesAreTree, ExtraComplete
<1>3. HomesCovered'
  BY <1>1, SameHomes, SameCover DEF HomesInv, HomesCovered
<1>4. ExecRefused'
  <2>1. May(binary, "EXECUTE")' = May(binary, "EXECUTE")
    BY <1>1 DEF May
  <2>2. CASE Exists(binary) /\ binary \notin Dirs /\ May(binary, "EXECUTE")
    BY <1>1, <2>2 DEF ExecCommand, GoTo, ExecRefused
  <2>3. CASE ~(Exists(binary) /\ binary \notin Dirs /\ May(binary, "EXECUTE"))
    BY <1>1, <2>1, <2>3 DEF ExecRefused, Exists
  <2> QED BY <2>2, <2>3
<1> QED BY <1>2, <1>3, <1>4 DEF HomesInv

(* What vanishes takes along what lies below it, and never comes back.     *)
LEMMA HomesRemove ==
  ASSUME LockdownAssumption, TreeAssumption, LockdownInv, HomesInv, HostRemoves PROVE HomesInv'
<1>1. /\ UNCHANGED <<plan, phase, error, extra, ruleset, todo, warned>> /\ error = "none"
      /\ host \in Host
  BY DEF LockdownInv, TypeOK, HostRemoves, resolveVars, landlockVars
<1>2. PICK p \in Removable \cap host.files :
        host' = [host EXCEPT !.files = {q \in host.files : p \notin Above[q]}]
  BY DEF HostRemoves
<1>3. host'.files = {q \in host.files : p \notin Above[q]} /\ host'.bin_sh = host.bin_sh
  BY <1>1, <1>2 DEF Host
<1>4. FilesAreTree'
  <2>1. host.files \subseteq Path
    BY <1>1 DEF Host
  <2>2. \A q \in host.files :
          Above[q] \subseteq host.files /\ \A r \in Above[q] : Above[r] \subseteq Above[q]
    BY <2>1 DEF TreeAssumption, HomesInv, FilesAreTree
  <2> QED BY <1>3, <2>2 DEF FilesAreTree
<1>5. detect(host') = detect(host)
  <2>1. ASSUME NEW m \in {"/etc/NIXOS", "/nix/store", "/gnu/store"}, m \in host.files
        PROVE  m \in host'.files
    <3>1. m \in Path
      BY <1>1, <2>1 DEF Host
    <3>2. Above[m] \cap Removable = {}
      BY <3>1 DEF TreeAssumption
    <3> QED BY <1>2, <1>3, <2>1, <3>2
  <2>2. \A m \in {"/etc/NIXOS", "/nix/store", "/gnu/store"} : m \in host'.files <=> m \in host.files
    BY <1>3, <2>1
  <2> QED BY <1>3, <2>2, SameKind
<1>6. \A d : SystemHome(d)' = SystemHome(d)
  BY <1>1, <1>5 DEF SystemHome
<1>7. ExtraComplete'
  BY <1>1, <1>3, <1>6 DEF HomesInv, ExtraComplete
<1>8. HomesCovered'
  BY <1>1, <1>3, <1>6, SameCover DEF HomesInv, HomesCovered
<1>9. ExecRefused'
  BY <1>1 DEF ExecRefused
<1> QED BY <1>4, <1>7, <1>8, <1>9 DEF HomesInv

LEMMA HomesNext ==
  ASSUME LockdownAssumption, TreeAssumption, LockdownInv, HomesInv, [Next]_vars
  PROVE  HomesInv'
<1>1. CASE UNCHANGED vars
  <2>1. UNCHANGED <<host, plan, phase, error, binary, extra, ruleset, todo, warned, enforced>>
    BY <1>1 DEF vars, resolveVars, landlockVars
  <2>2. FilesAreTree' /\ ExtraComplete'
    BY <2>1, SameHomes DEF HomesInv, FilesAreTree, ExtraComplete
  <2>3. HomesCovered'
    BY <2>1, SameHomes, SameCover DEF HomesInv, HomesCovered
  <2>4. ExecRefused'
    BY <2>1 DEF HomesInv, ExecRefused, Exists, May
  <2> QED BY <2>2, <2>3, <2>4 DEF HomesInv
<1>2. CASE Over
  BY <1>1, <1>2 DEF Over
<1>3. CASE Next /\ ~Over
  BY <1>3, HomesQuietSteps, HomesResolve, HomesSetup, HomesCreate, HomesAddRule, HomesExec,
     HomesRemove DEF Next
<1> QED BY <1>1, <1>2, <1>3

(* On every host whose files form a tree, a command found where this kind  *)
(* of host or an executable mount keeps them, and still there, is never    *)
(* refused by the rules lockdown laid out (ResolvedRuns): what resolve.rs  *)
(* detects, the mounts it adds and apply_landlock_v5 agree.                *)
THEOREM ResolvedAlwaysRuns == Spec => []ResolvedRuns
<1>1. Init => LockdownInv /\ HomesInv
  BY LockdownAssumption, TreeAssumption, InitInv, HomesInit
<1>2. LockdownInv /\ HomesInv /\ [Next]_vars => (LockdownInv /\ HomesInv)'
  BY LockdownAssumption, TreeAssumption, NextInv, HomesNext
<1>3. ASSUME LockdownInv, HomesInv PROVE ResolvedRuns
  <2> DEFINE homes ==
               {d \in Dirs : \/ \E m \in Mounts : m.source = d /\ ReadableMount(m, "EXECUTE")
                             \/ d \in SystemMounts[detect(host)]}
  <2>1. ASSUME error = "Exec", ~plan.given, Exists(binary), binary \notin Dirs,
               Under(binary, homes \ warned)
        PROVE  FALSE
    <3>1. PICK d \in homes \ warned : d \in Above[binary]
      BY <2>1 DEF Under
    <3>2. d \in host.files
      BY <1>3, <2>1, <3>1 DEF HomesInv, FilesAreTree, Exists
    <3>3. MountHome(d) \/ SystemHome(d)
      BY <2>1, <3>1 DEF MountHome, SystemHome
    <3>4. Homed(d)
      BY <1>3, <2>1, <3>2, <3>3 DEF HomesInv, HomesCovered
    <3>5. todo = <<>>
      BY <1>3, <2>1 DEF LockdownInv, TypeOK
    <3>6. PICK rule \in ruleset.rules : Executes(rule, d)
      BY <3>1, <3>4, <3>5 DEF Homed
    <3>7. May(binary, "EXECUTE")
      BY <3>1, <3>6 DEF May, Executes
    <3> QED BY <1>3, <2>1, <3>7 DEF HomesInv, ExecRefused
  <2>2. (error = "Exec" /\ ~plan.given /\ Exists(binary) /\ binary \notin Dirs) =>
           ~Under(binary, homes \ warned)
    BY <2>1
  <2> QED BY <2>2 DEF ResolvedRuns
<1> QED BY <1>1, <1>2, <1>3, PTL DEF Spec
=============================================================================
