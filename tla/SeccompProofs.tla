--------------------------- MODULE SeccompProofs ---------------------------
(***************************************************************************)
(* Proofs about Seccomp, for every list of syscalls that fits, every order *)
(* a set is listed in, and every call.                                     *)
(***************************************************************************)
EXTENDS Seccomp, SequenceTheorems, FiniteSetTheorems, TLAPS

(* A number below the width of a jump is not cut.                          *)
LEMMA ModSmall ==
  ASSUME NEW m \in Nat, NEW x \in Nat, x < m
  PROVE  x % m = x
OBVIOUS

(* The jumps of a list that passes the size check are not cut.             *)
LEMMA JumpKept ==
  ASSUME SeccompAssumption, NEW op, NEW k, NEW jt \in Nat, jt <= MAX_WHITELIST_SIZE + 14
  PROVE  jump(op, k, jt, 0) = [op |-> op, k |-> k, jt |-> jt, jf |-> 0]
<1>1. JumpWidth \in Nat /\ MAX_WHITELIST_SIZE \in Nat /\ MAX_WHITELIST_SIZE + 14 < JumpWidth
  BY DEF SeccompAssumption
<1>2. jt < JumpWidth
  BY <1>1
<1>3. jt % JumpWidth = jt
  <2>1. \A m, x \in Nat : x < m => x % m = x
    BY ModSmall
  <2> QED BY <1>1, <1>2, <2>1
<1> QED BY <1>3 DEF jump

(* A set that lists three elements has no more than three.                 *)
LEMMA AddOne ==
  ASSUME NEW S, IsFiniteSet(S), NEW x
  PROVE  /\ IsFiniteSet(S \cup {x})
         /\ Cardinality(S) \in Nat /\ Cardinality(S \cup {x}) <= Cardinality(S) + 1
<1>1. Cardinality(S) \in Nat
  BY FS_CardinalityType
<1>2. IsFiniteSet(S \cup {x})
  BY FS_AddElement
<1>3. Cardinality(S \cup {x}) = Cardinality(S) \/ Cardinality(S \cup {x}) = Cardinality(S) + 1
  BY FS_AddElement
<1> QED BY <1>1, <1>2, <1>3

LEMMA ThreeElements ==
  ASSUME NEW a, NEW b, NEW c
  PROVE  Cardinality({a, b, c}) <= 3
<1> DEFINE A == {a}
           B == A \cup {b}
           C == B \cup {c}
<1>1. IsFiniteSet(A) /\ Cardinality(A) = 1
  BY FS_Singleton
<1> HIDE DEF A
<1>2. IsFiniteSet(B) /\ Cardinality(B) \in Nat /\ Cardinality(B) <= Cardinality(A) + 1
  <2>1. IsFiniteSet(B) /\ Cardinality(B) <= Cardinality(A) + 1
    BY <1>1, AddOne
  <2> QED BY <2>1, FS_CardinalityType
<1> HIDE DEF B
<1>3. Cardinality(C) \in Nat /\ Cardinality(C) <= Cardinality(B) + 1
  <2>1. IsFiniteSet(C) /\ Cardinality(C) <= Cardinality(B) + 1
    BY <1>2, AddOne
  <2> QED BY <2>1, FS_CardinalityType
<1> HIDE DEF C
<1>4. Cardinality(C) <= 3
  BY <1>1, <1>2, <1>3
<1>5. C = {a, b, c}
  BY DEF A, B, C
<1> QED BY <1>4, <1>5

(* The four syscalls with a handler are four.                              *)
LEMMA SpecialsDiffer ==
  ASSUME SeccompAssumption
  PROVE  /\ SYS_clone3 # SYS_clone /\ SYS_clone3 # SYS_socket /\ SYS_clone3 # SYS_ioctl
         /\ SYS_clone # SYS_socket /\ SYS_clone # SYS_ioctl /\ SYS_socket # SYS_ioctl
<1>1. ASSUME NEW a, NEW b, NEW c, Special = {a, b, c} PROVE FALSE
  <2>1. Cardinality(Special) <= 3
    BY <1>1, ThreeElements
  <2> QED BY <2>1 DEF SeccompAssumption
<1>2. ASSUME SYS_clone3 = SYS_clone PROVE FALSE
  <2>1. Special = {SYS_clone, SYS_socket, SYS_ioctl}
    BY <1>2 DEF Special
  <2> QED BY <1>1, <2>1
<1>3. ASSUME SYS_clone3 = SYS_socket PROVE FALSE
  <2>1. Special = {SYS_clone, SYS_socket, SYS_ioctl}
    BY <1>3 DEF Special
  <2> QED BY <1>1, <2>1
<1>4. ASSUME SYS_clone3 = SYS_ioctl PROVE FALSE
  <2>1. Special = {SYS_clone, SYS_socket, SYS_ioctl}
    BY <1>4 DEF Special
  <2> QED BY <1>1, <2>1
<1>5. ASSUME SYS_clone = SYS_socket PROVE FALSE
  <2>1. Special = {SYS_clone3, SYS_socket, SYS_ioctl}
    BY <1>5 DEF Special
  <2> QED BY <1>1, <2>1
<1>6. ASSUME SYS_clone = SYS_ioctl PROVE FALSE
  <2>1. Special = {SYS_clone3, SYS_socket, SYS_ioctl}
    BY <1>6 DEF Special
  <2> QED BY <1>1, <2>1
<1>7. ASSUME SYS_socket = SYS_ioctl PROVE FALSE
  <2>1. Special = {SYS_clone3, SYS_clone, SYS_ioctl}
    BY <1>7 DEF Special
  <2> QED BY <1>1, <2>1
<1> QED BY <1>2, <1>3, <1>4, <1>5, <1>6, <1>7

(* Which bits the mask of clone has.                                       *)
LEMMA BlockedFlags ==
  \A bit \in Bit : HasBit(BLOCKED_CLONE_FLAGS, bit) <=> bit \in CloneNew
BY SMTT(60) DEF Bit, HasBit, BLOCKED_CLONE_FLAGS, CloneNew

(* A sequence of three parts is read part by part.                         *)
LEMMA ThreeParts ==
  ASSUME NEW S, NEW a \in Seq(S), NEW b \in Seq(S), NEW c \in Seq(S)
  PROVE  /\ Len(a \o b \o c) = Len(a) + Len(b) + Len(c)
         /\ a \o b \o c \in Seq(S)
         /\ \A i \in 1..Len(a) : (a \o b \o c)[i] = a[i]
         /\ \A i \in 1..Len(b) : (a \o b \o c)[Len(a) + i] = b[i]
         /\ \A i \in 1..Len(c) : (a \o b \o c)[Len(a) + Len(b) + i] = c[i]
<1>1. ASSUME NEW s \in Seq(S), NEW t \in Seq(S)
      PROVE  /\ s \o t \in Seq(S) /\ Len(s \o t) = Len(s) + Len(t)
             /\ \A i \in 1..Len(s) : (s \o t)[i] = s[i]
             /\ \A i \in 1..Len(t) : (s \o t)[Len(s) + i] = t[i]
  OBVIOUS
<1> DEFINE ab == a \o b
<1>2. /\ ab \in Seq(S) /\ Len(ab) = Len(a) + Len(b)
      /\ \A i \in 1..Len(a) : ab[i] = a[i]
      /\ \A i \in 1..Len(b) : ab[Len(a) + i] = b[i]
  BY <1>1
<1>3. Len(a) \in Nat /\ Len(b) \in Nat /\ Len(c) \in Nat
  OBVIOUS
<1> HIDE DEF ab
<1>4. /\ ab \o c \in Seq(S) /\ Len(ab \o c) = Len(ab) + Len(c)
      /\ \A i \in 1..Len(ab) : (ab \o c)[i] = ab[i]
      /\ \A i \in 1..Len(c) : (ab \o c)[Len(ab) + i] = c[i]
  BY <1>1, <1>2
<1>5. ASSUME NEW i \in 1..Len(a) PROVE (ab \o c)[i] = a[i]
  BY <1>2, <1>3, <1>4
<1>6. ASSUME NEW i \in 1..Len(b) PROVE (ab \o c)[Len(a) + i] = b[i]
  <2>1. Len(a) + i \in 1..Len(ab)
    BY <1>2, <1>3
  <2> QED BY <1>2, <1>4, <2>1
<1>7. ASSUME NEW i \in 1..Len(c) PROVE (ab \o c)[Len(a) + Len(b) + i] = c[i]
  BY <1>2, <1>4
<1> QED BY <1>2, <1>4, <1>5, <1>6, <1>7 DEF ab

(* What an instruction is, and where each stands.                          *)
At(p, i, o, operand, taken) ==
  p[i].op = o /\ p[i].k = operand /\ p[i].jt = taken /\ p[i].jf = 0

LEMMA WhitelistParts ==
  ASSUME NEW s \in Seq(Nr)
  PROVE  /\ Len(build_whitelist_filter(s)) = Len(s) + 28
         /\ \A i \in 1..8 : build_whitelist_filter(s)[i] = Prologue(Len(s))[i]
         /\ \A i \in 1..Len(s) : build_whitelist_filter(s)[8 + i] = Checks(s)[i]
         /\ \A i \in 1..20 : build_whitelist_filter(s)[Len(s) + 8 + i] = Handlers[i]
<1> DEFINE n == Len(s)
           S == {Prologue(n)[i] : i \in 1..8} \cup {Checks(s)[i] : i \in 1..n}
                  \cup {Handlers[i] : i \in 1..20}
<1>1. n \in Nat
  OBVIOUS
<1>2. Prologue(n) \in Seq(S) /\ Len(Prologue(n)) = 8
  <2>1. \A i \in 1..8 : Prologue(n)[i] \in S
    OBVIOUS
  <2> HIDE DEF S
  <2> QED BY <2>1 DEF Prologue
<1>3. Checks(s) \in Seq(S) /\ Len(Checks(s)) = n
  <2>1. \A i \in 1..n : Checks(s)[i] \in S
    OBVIOUS
  <2> HIDE DEF S
  <2>2. Checks(s) \in [1..n -> S]
    BY <2>1 DEF Checks
  <2> QED BY <1>1, <2>2, SeqDef
<1>4. Handlers \in Seq(S) /\ Len(Handlers) = 20
  <2>1. \A i \in 1..20 : Handlers[i] \in S
    OBVIOUS
  <2> HIDE DEF S
  <2> QED BY <2>1 DEF Handlers
<1> DEFINE p == Prologue(n) \o Checks(s) \o Handlers
<1> HIDE DEF S
<1>5. p = build_whitelist_filter(s)
  BY DEF build_whitelist_filter
<1>6. /\ Len(p) = Len(Prologue(n)) + Len(Checks(s)) + Len(Handlers)
      /\ \A i \in 1..Len(Prologue(n)) : p[i] = Prologue(n)[i]
      /\ \A i \in 1..Len(Checks(s)) : p[Len(Prologue(n)) + i] = Checks(s)[i]
      /\ \A i \in 1..Len(Handlers) : p[Len(Prologue(n)) + Len(Checks(s)) + i] = Handlers[i]
  <2> DEFINE a == Prologue(n)
             b == Checks(s)
             c == Handlers
  <2>1. a \in Seq(S) /\ b \in Seq(S) /\ c \in Seq(S)
    BY <1>2, <1>3, <1>4
  <2> HIDE DEF a, b, c
  <2>2. /\ Len(a \o b \o c) = Len(a) + Len(b) + Len(c)
        /\ \A i \in 1..Len(a) : (a \o b \o c)[i] = a[i]
        /\ \A i \in 1..Len(b) : (a \o b \o c)[Len(a) + i] = b[i]
        /\ \A i \in 1..Len(c) : (a \o b \o c)[Len(a) + Len(b) + i] = c[i]
    BY <2>1, ThreeParts
  <2> QED BY <2>2 DEF a, b, c
<1> HIDE DEF p, n
<1>7. ASSUME NEW i \in 1..20 PROVE p[n + 8 + i] = Handlers[i]
  <2>1. 8 + n + i = n + 8 + i
    BY <1>1
  <2>2. p[Len(Prologue(n)) + Len(Checks(s)) + i] = Handlers[i]
    BY <1>4, <1>6
  <2>3. Len(Prologue(n)) + Len(Checks(s)) + i = 8 + n + i
    BY <1>2, <1>3
  <2> QED BY <2>1, <2>2, <2>3
<1>8. /\ Len(p) = n + 28
      /\ \A i \in 1..8 : p[i] = Prologue(n)[i]
      /\ \A i \in 1..n : p[8 + i] = Checks(s)[i]
  BY <1>1, <1>2, <1>3, <1>4, <1>6
<1> QED BY <1>5, <1>7, <1>8 DEF n

LEMMA NotifyParts ==
  ASSUME NEW s \in Seq(Nr)
  PROVE  /\ Len(build_notify_filter(s)) = Len(s) + 6
         /\ \A i \in 1..4 : build_notify_filter(s)[i] = NotifyPrologue[i]
         /\ \A i \in 1..Len(s) : build_notify_filter(s)[4 + i] = Checks(s)[i]
         /\ build_notify_filter(s)[Len(s) + 5] = stmt("ret", "ALLOW")
         /\ build_notify_filter(s)[Len(s) + 6] = stmt("ret", "NOTIFY")
<1> DEFINE n == Len(s)
           ends == <<stmt("ret", "ALLOW"), stmt("ret", "NOTIFY")>>
           S == {NotifyPrologue[i] : i \in 1..4} \cup {Checks(s)[i] : i \in 1..n}
                  \cup {ends[i] : i \in 1..2}
<1>1. n \in Nat
  OBVIOUS
<1>2. NotifyPrologue \in Seq(S) /\ Len(NotifyPrologue) = 4
  <2>1. \A i \in 1..4 : NotifyPrologue[i] \in S
    OBVIOUS
  <2> HIDE DEF S
  <2> QED BY <2>1 DEF NotifyPrologue
<1>3. Checks(s) \in Seq(S) /\ Len(Checks(s)) = n
  <2>1. \A i \in 1..n : Checks(s)[i] \in S
    OBVIOUS
  <2> HIDE DEF S
  <2>2. Checks(s) \in [1..n -> S]
    BY <2>1 DEF Checks
  <2> QED BY <1>1, <2>2, SeqDef
<1>4. ends \in Seq(S) /\ Len(ends) = 2
  <2>1. \A i \in 1..2 : ends[i] \in S
    OBVIOUS
  <2> HIDE DEF S
  <2> QED BY <2>1
<1> DEFINE p == NotifyPrologue \o Checks(s) \o ends
<1>5. ends[1] = stmt("ret", "ALLOW") /\ ends[2] = stmt("ret", "NOTIFY")
  OBVIOUS
<1>6. p = build_notify_filter(s)
  BY DEF build_notify_filter
<1> HIDE DEF S, ends
<1>7. /\ Len(p) = Len(NotifyPrologue) + Len(Checks(s)) + Len(ends)
      /\ \A i \in 1..Len(NotifyPrologue) : p[i] = NotifyPrologue[i]
      /\ \A i \in 1..Len(Checks(s)) : p[Len(NotifyPrologue) + i] = Checks(s)[i]
      /\ \A i \in 1..Len(ends) : p[Len(NotifyPrologue) + Len(Checks(s)) + i] = ends[i]
  <2> DEFINE a == NotifyPrologue
             b == Checks(s)
             c == ends
  <2>1. a \in Seq(S) /\ b \in Seq(S) /\ c \in Seq(S)
    BY <1>2, <1>3, <1>4
  <2> HIDE DEF a, b, c
  <2>2. /\ Len(a \o b \o c) = Len(a) + Len(b) + Len(c)
        /\ \A i \in 1..Len(a) : (a \o b \o c)[i] = a[i]
        /\ \A i \in 1..Len(b) : (a \o b \o c)[Len(a) + i] = b[i]
        /\ \A i \in 1..Len(c) : (a \o b \o c)[Len(a) + Len(b) + i] = c[i]
    BY <2>1, ThreeParts
  <2> QED BY <2>2 DEF a, b, c
<1> HIDE DEF p, n
<1>8. 4 + n + 1 = n + 5 /\ 4 + n + 2 = n + 6
  BY <1>1
<1>9. p[n + 5] = ends[1] /\ p[n + 6] = ends[2]
  BY <1>2, <1>3, <1>4, <1>7, <1>8
<1>10. /\ Len(p) = n + 6
       /\ \A i \in 1..4 : p[i] = NotifyPrologue[i]
       /\ \A i \in 1..n : p[4 + i] = Checks(s)[i]
  BY <1>1, <1>2, <1>3, <1>4, <1>7
<1> QED BY <1>5, <1>6, <1>9, <1>10 DEF n

LEMMA StmtIs ==
  ASSUME NEW p, NEW i, NEW o, NEW operand, p[i] = stmt(o, operand)
  PROVE  At(p, i, o, operand, 0)
BY DEF At, stmt

LEMMA JumpIs ==
  ASSUME SeccompAssumption, NEW p, NEW i, NEW o, NEW operand, NEW taken \in Nat,
         taken <= MAX_WHITELIST_SIZE + 14, p[i] = jump(o, operand, taken, 0)
  PROVE  At(p, i, o, operand, taken)
<1>1. jump(o, operand, taken, 0) = [op |-> o, k |-> operand, jt |-> taken, jf |-> 0]
  BY JumpKept
<1> QED BY <1>1 DEF At

LEMMA ShortJumpsKept ==
  ASSUME SeccompAssumption
  PROVE  \A o, operand, i, p :
           /\ p[i] = jump(o, operand, 1, 0) => At(p, i, o, operand, 1)
           /\ p[i] = jump(o, operand, 2, 0) => At(p, i, o, operand, 2)
           /\ p[i] = jump(o, operand, 3, 0) => At(p, i, o, operand, 3)
           /\ p[i] = jump(o, operand, 4, 0) => At(p, i, o, operand, 4)
<1>1. JumpWidth \in Nat /\ JumpWidth > 14
  BY DEF SeccompAssumption
<1>2. /\ 0 % JumpWidth = 0 /\ 1 % JumpWidth = 1 /\ 2 % JumpWidth = 2
      /\ 3 % JumpWidth = 3 /\ 4 % JumpWidth = 4
  BY <1>1
<1> QED BY <1>1, <1>2 DEF At, jump

(* How far the jumps to the handlers go.                                   *)
LEMMA Offsets ==
  ASSUME NEW n \in Nat
  PROVE  /\ clone3_errno_offset(n) = n + 5 /\ clone_handler_offset(n) = n + 5
         /\ socket_handler_offset(n) = n + 8 /\ ioctl_handler_offset(n) = n + 14
<1>1. clone3_errno_offset(n) = n + 5
  BY DEF clone3_errno_offset
<1>2. clone_handler_offset(n) = n + 5
  BY DEF clone_handler_offset
<1>3. socket_handler_offset(n) = n + 8
  BY DEF socket_handler_offset
<1>4. ioctl_handler_offset(n) = n + 14
  BY DEF ioctl_handler_offset
<1> QED BY <1>1, <1>2, <1>3, <1>4

(* The whitelist filter, instruction by instruction: where its handlers    *)
(* stand and how far each check jumps.                                     *)
LEMMA WhitelistTable ==
  ASSUME SeccompAssumption, NEW s \in Seq(Nr), Len(s) <= MAX_WHITELIST_SIZE
  PROVE  LET p == build_whitelist_filter(s)
             n == Len(s)
         IN  /\ At(p, 1, "ld", "arch", 0) /\ At(p, 2, "jeq", AUDIT_ARCH, 1)
             /\ At(p, 3, "ret", "KILL", 0) /\ At(p, 4, "ld", "nr", 0)
             /\ At(p, 5, "jeq", SYS_clone3, n + 5) /\ At(p, 6, "jeq", SYS_clone, n + 5)
             /\ At(p, 7, "jeq", SYS_socket, n + 8) /\ At(p, 8, "jeq", SYS_ioctl, n + 14)
             /\ \A i \in 1..n : At(p, 8 + i, "jeq", s[i], n - (i - 1))
             /\ At(p, n + 9, "ret", "KILL", 0) /\ At(p, n + 10, "ret", "ALLOW", 0)
             /\ At(p, n + 11, "ret", "ENOSYS", 0)
             /\ At(p, n + 12, "ld", "arg0", 0) /\ At(p, n + 13, "jset", BLOCKED_CLONE_FLAGS, 1)
             /\ At(p, n + 14, "ret", "ALLOW", 0) /\ At(p, n + 15, "ret", "KILL", 0)
             /\ At(p, n + 16, "ld", "arg0", 0) /\ At(p, n + 17, "jeq", AF_NETLINK, 4)
             /\ At(p, n + 18, "ld", "arg1", 0) /\ At(p, n + 19, "and", 15, 0)
             /\ At(p, n + 20, "jeq", SOCK_RAW, 1)
             /\ At(p, n + 21, "ret", "ALLOW", 0) /\ At(p, n + 22, "ret", "KILL", 0)
             /\ At(p, n + 23, "ld", "arg1", 0) /\ At(p, n + 24, "jeq", TIOCSTI, 3)
             /\ At(p, n + 25, "jeq", TIOCSETD, 2) /\ At(p, n + 26, "jeq", TIOCLINUX, 1)
             /\ At(p, n + 27, "ret", "ALLOW", 0) /\ At(p, n + 28, "ret", "KILL", 0)
<1> DEFINE p == build_whitelist_filter(s)
           n == Len(s)
           M == MAX_WHITELIST_SIZE
<1>1. n \in Nat /\ M \in Nat /\ n <= M
  BY DEF SeccompAssumption
<1>2. /\ \A i \in 1..8 : p[i] = Prologue(n)[i]
      /\ \A i \in 1..n : p[8 + i] = Checks(s)[i]
      /\ \A i \in 1..20 : p[n + 8 + i] = Handlers[i]
  BY WhitelistParts
<1> HIDE DEF p, n, M
<1>3. /\ At(p, 1, "ld", "arch", 0) /\ At(p, 3, "ret", "KILL", 0) /\ At(p, 4, "ld", "nr", 0)
  <2>1. p[1] = stmt("ld", "arch") /\ p[3] = stmt("ret", "KILL") /\ p[4] = stmt("ld", "nr")
    BY <1>2 DEF Prologue
  <2> QED BY <2>1, StmtIs
<1>4. /\ At(p, 2, "jeq", AUDIT_ARCH, 1)
      /\ At(p, 5, "jeq", SYS_clone3, n + 5) /\ At(p, 6, "jeq", SYS_clone, n + 5)
      /\ At(p, 7, "jeq", SYS_socket, n + 8) /\ At(p, 8, "jeq", SYS_ioctl, n + 14)
  <2>1. /\ p[2] = jump("jeq", AUDIT_ARCH, 1, 0)
        /\ p[5] = jump("jeq", SYS_clone3, clone3_errno_offset(n), 0)
        /\ p[6] = jump("jeq", SYS_clone, clone_handler_offset(n), 0)
        /\ p[7] = jump("jeq", SYS_socket, socket_handler_offset(n), 0)
        /\ p[8] = jump("jeq", SYS_ioctl, ioctl_handler_offset(n), 0)
    <3>1. p[2] = jump("jeq", AUDIT_ARCH, 1, 0)
      BY <1>2 DEF Prologue
    <3>2. p[5] = jump("jeq", SYS_clone3, clone3_errno_offset(n), 0)
      BY <1>2 DEF Prologue
    <3>3. p[6] = jump("jeq", SYS_clone, clone_handler_offset(n), 0)
      BY <1>2 DEF Prologue
    <3>4. p[7] = jump("jeq", SYS_socket, socket_handler_offset(n), 0)
      BY <1>2 DEF Prologue
    <3>5. p[8] = jump("jeq", SYS_ioctl, ioctl_handler_offset(n), 0)
      BY <1>2 DEF Prologue
    <3> QED BY <3>1, <3>2, <3>3, <3>4, <3>5
  <2>2. /\ clone3_errno_offset(n) = n + 5 /\ clone_handler_offset(n) = n + 5
        /\ socket_handler_offset(n) = n + 8 /\ ioctl_handler_offset(n) = n + 14
    BY <1>1, Offsets
  <2>3. /\ n + 5 \in Nat /\ n + 5 <= M + 14
        /\ n + 8 \in Nat /\ n + 8 <= M + 14
        /\ n + 14 \in Nat /\ n + 14 <= M + 14
    BY <1>1
  <2>4. At(p, 2, "jeq", AUDIT_ARCH, 1)
    BY <2>1, ShortJumpsKept
  <2> QED BY <2>1, <2>2, <2>3, <2>4, JumpIs DEF M
<1>5. ASSUME NEW i \in 1..n PROVE At(p, 8 + i, "jeq", s[i], n - (i - 1))
  <2>1. p[8 + i] = jump("jeq", s[i], allow_offset(n, i), 0)
    BY <1>2 DEF Checks, n
  <2>2. allow_offset(n, i) = n - (i - 1) /\ n - (i - 1) \in Nat /\ n - (i - 1) <= M + 14
    BY <1>1 DEF allow_offset
  <2> QED BY <2>1, <2>2, JumpIs DEF M
<1>6. \A i \in 9..28 : p[n + i] = Handlers[i - 8]
  <2>1. ASSUME NEW i \in 9..28 PROVE p[n + i] = Handlers[i - 8]
    <3>1. i - 8 \in 1..20 /\ n + 8 + (i - 8) = n + i
      BY <1>1
    <3> QED BY <1>2, <3>1
  <2> QED BY <2>1
<1>7. /\ At(p, n + 9, "ret", "KILL", 0) /\ At(p, n + 10, "ret", "ALLOW", 0)
      /\ At(p, n + 11, "ret", "ENOSYS", 0) /\ At(p, n + 12, "ld", "arg0", 0)
      /\ At(p, n + 14, "ret", "ALLOW", 0) /\ At(p, n + 15, "ret", "KILL", 0)
      /\ At(p, n + 16, "ld", "arg0", 0) /\ At(p, n + 18, "ld", "arg1", 0)
      /\ At(p, n + 19, "and", 15, 0) /\ At(p, n + 21, "ret", "ALLOW", 0)
      /\ At(p, n + 22, "ret", "KILL", 0) /\ At(p, n + 23, "ld", "arg1", 0)
      /\ At(p, n + 27, "ret", "ALLOW", 0) /\ At(p, n + 28, "ret", "KILL", 0)
  <2>1. /\ p[n + 9] = stmt("ret", "KILL") /\ p[n + 10] = stmt("ret", "ALLOW")
        /\ p[n + 11] = stmt("ret", "ENOSYS") /\ p[n + 12] = stmt("ld", "arg0")
        /\ p[n + 14] = stmt("ret", "ALLOW") /\ p[n + 15] = stmt("ret", "KILL")
        /\ p[n + 16] = stmt("ld", "arg0") /\ p[n + 18] = stmt("ld", "arg1")
        /\ p[n + 19] = stmt("and", 15) /\ p[n + 21] = stmt("ret", "ALLOW")
        /\ p[n + 22] = stmt("ret", "KILL") /\ p[n + 23] = stmt("ld", "arg1")
        /\ p[n + 27] = stmt("ret", "ALLOW") /\ p[n + 28] = stmt("ret", "KILL")
    BY <1>6 DEF Handlers
  <2> QED BY <2>1, StmtIs
<1>8. /\ At(p, n + 13, "jset", BLOCKED_CLONE_FLAGS, 1) /\ At(p, n + 17, "jeq", AF_NETLINK, 4)
      /\ At(p, n + 20, "jeq", SOCK_RAW, 1) /\ At(p, n + 24, "jeq", TIOCSTI, 3)
      /\ At(p, n + 25, "jeq", TIOCSETD, 2) /\ At(p, n + 26, "jeq", TIOCLINUX, 1)
  <2>1. /\ p[n + 13] = jump("jset", BLOCKED_CLONE_FLAGS, 1, 0)
        /\ p[n + 17] = jump("jeq", AF_NETLINK, 4, 0) /\ p[n + 20] = jump("jeq", SOCK_RAW, 1, 0)
        /\ p[n + 24] = jump("jeq", TIOCSTI, 3, 0) /\ p[n + 25] = jump("jeq", TIOCSETD, 2, 0)
        /\ p[n + 26] = jump("jeq", TIOCLINUX, 1, 0)
    BY <1>6 DEF Handlers
  <2> QED BY <2>1, ShortJumpsKept
<1> QED BY <1>3, <1>4, <1>5, <1>7, <1>8 DEF p, n

LEMMA NotifyTable ==
  ASSUME SeccompAssumption
  PROVE  LET p == build_notify_filter(notify_fs_syscalls)
             n == Len(notify_fs_syscalls)
         IN  /\ At(p, 1, "ld", "arch", 0) /\ At(p, 2, "jeq", AUDIT_ARCH, 1)
             /\ At(p, 3, "ret", "ALLOW", 0) /\ At(p, 4, "ld", "nr", 0)
             /\ \A i \in 1..n : At(p, 4 + i, "jeq", notify_fs_syscalls[i], n - (i - 1))
             /\ At(p, n + 5, "ret", "ALLOW", 0) /\ At(p, n + 6, "ret", "NOTIFY", 0)
<1> DEFINE s == notify_fs_syscalls
           p == build_notify_filter(s)
           n == Len(s)
<1>1. s \in Seq(Nr) /\ n \in Nat /\ n < JumpWidth /\ JumpWidth \in Nat /\ MAX_WHITELIST_SIZE \in Nat
  BY DEF SeccompAssumption
<1>2. /\ \A i \in 1..4 : p[i] = NotifyPrologue[i]
      /\ \A i \in 1..n : p[4 + i] = Checks(s)[i]
      /\ p[n + 5] = stmt("ret", "ALLOW") /\ p[n + 6] = stmt("ret", "NOTIFY")
  BY <1>1, NotifyParts
<1> HIDE DEF p, n
<1>3. /\ At(p, 1, "ld", "arch", 0) /\ At(p, 3, "ret", "ALLOW", 0) /\ At(p, 4, "ld", "nr", 0)
      /\ At(p, n + 5, "ret", "ALLOW", 0) /\ At(p, n + 6, "ret", "NOTIFY", 0)
  <2>1. p[1] = stmt("ld", "arch") /\ p[3] = stmt("ret", "ALLOW") /\ p[4] = stmt("ld", "nr")
    BY <1>2 DEF NotifyPrologue
  <2> QED BY <1>2, <2>1, StmtIs
<1>4. At(p, 2, "jeq", AUDIT_ARCH, 1)
  <2>1. p[2] = jump("jeq", AUDIT_ARCH, 1, 0)
    BY <1>2 DEF NotifyPrologue
  <2> QED BY <2>1, ShortJumpsKept
<1>5. ASSUME NEW i \in 1..n PROVE At(p, 4 + i, "jeq", s[i], n - (i - 1))
  <2>1. p[4 + i] = jump("jeq", s[i], allow_offset(n, i), 0)
    BY <1>2 DEF Checks, n
  <2>2. allow_offset(n, i) = n - (i - 1) /\ n - (i - 1) \in Nat /\ n - (i - 1) < JumpWidth
    BY <1>1 DEF allow_offset
  <2>3. (n - (i - 1)) % JumpWidth = n - (i - 1) /\ 0 % JumpWidth = 0
    <3>1. \A m, x \in Nat : x < m => x % m = x
      BY ModSmall
    <3>2. 0 < JumpWidth
      BY <2>2
    <3> QED BY <1>1, <2>2, <3>1, <3>2
  <2> QED BY <2>1, <2>2, <2>3 DEF At, jump
<1> QED BY <1>3, <1>4, <1>5 DEF p, n

---------------------------------------------------------------------------
(* The inductive invariant.                                                *)

(* What the plan asked for is what the sets hold, and, once it is built,   *)
(* what the list holds.                                                    *)
Filtering == {"run", "filter", "judged", "dead", "suspended"}
PlanInv ==
  /\ \A nr \in Nr : (asked[nr] = "allow" <=> nr \in allowed) /\ (asked[nr] = "deny" <=> nr \in denied)
  /\ edits = 0 => allowed = {} /\ denied = {}
  /\ phase \in Filtering =>
       /\ Len(whitelist) <= MAX_WHITELIST_SIZE
       /\ \A nr \in Nr : nr \in ToSet(whitelist) <=> Listed(nr)

HandshakeInv ==
  (phase \in Filtering \ {"run"} /\ step < Len(Handshake)) => call = PlainCall(Handshake[step + 1])

NewNamespace(c) == \E flag \in CloneNew : HasBit(c.arg0, flag)

(* What is known of the call when the whitelist filter stands at position  *)
(* a with accumulator x: the program with an assertion at each line.       *)
WhitelistStage(a, x) ==
  LET n == Len(whitelist)
      ours == call.arch = AUDIT_ARCH
      nr == call.nr
  IN  \/ a = 1
      \/ a = 2 /\ x = call.arch
      \/ a = 3 /\ ~ours
      \/ ours /\ a = 4
      \/ ours /\ a = 5 /\ x = nr
      \/ ours /\ a = 6 /\ x = nr /\ nr # SYS_clone3
      \/ ours /\ a = 7 /\ x = nr /\ nr \notin {SYS_clone3, SYS_clone}
      \/ ours /\ a = 8 /\ x = nr /\ nr \notin {SYS_clone3, SYS_clone, SYS_socket}
      \/ /\ ours /\ a \in 9..(n + 8) /\ x = nr /\ nr \notin Special
         /\ \A j \in 1..(a - 9) : whitelist[j] # nr
      \/ ours /\ a = n + 9 /\ nr \notin Special /\ nr \notin ToSet(whitelist)
      \/ ours /\ a = n + 10 /\ nr \notin Special /\ nr \in ToSet(whitelist)
      \/ ours /\ a = n + 11 /\ nr = SYS_clone3
      \/ ours /\ a = n + 12 /\ nr = SYS_clone
      \/ ours /\ a = n + 13 /\ nr = SYS_clone /\ x = call.arg0
      \/ ours /\ a = n + 14 /\ nr = SYS_clone /\ ~NewNamespace(call)
      \/ ours /\ a = n + 15 /\ nr = SYS_clone /\ NewNamespace(call)
      \/ ours /\ a = n + 16 /\ nr = SYS_socket
      \/ ours /\ a = n + 17 /\ nr = SYS_socket /\ x = call.arg0
      \/ ours /\ a = n + 18 /\ nr = SYS_socket /\ call.arg0 # AF_NETLINK
      \/ ours /\ a = n + 19 /\ nr = SYS_socket /\ call.arg0 # AF_NETLINK /\ x = call.arg1
      \/ ours /\ a = n + 20 /\ nr = SYS_socket /\ call.arg0 # AF_NETLINK /\ x = call.arg1 % 16
      \/ /\ ours /\ a = n + 21 /\ nr = SYS_socket
         /\ call.arg0 # AF_NETLINK /\ call.arg1 % 16 # SOCK_RAW
      \/ /\ ours /\ a = n + 22 /\ nr = SYS_socket
         /\ call.arg0 = AF_NETLINK \/ call.arg1 % 16 = SOCK_RAW
      \/ ours /\ a = n + 23 /\ nr = SYS_ioctl
      \/ ours /\ a = n + 24 /\ nr = SYS_ioctl /\ x = call.arg1
      \/ ours /\ a = n + 25 /\ nr = SYS_ioctl /\ x = call.arg1 /\ x # TIOCSTI
      \/ ours /\ a = n + 26 /\ nr = SYS_ioctl /\ x = call.arg1 /\ x \notin {TIOCSTI, TIOCSETD}
      \/ ours /\ a = n + 27 /\ nr = SYS_ioctl /\ call.arg1 \notin {TIOCSTI, TIOCSETD, TIOCLINUX}
      \/ ours /\ a = n + 28 /\ nr = SYS_ioctl /\ call.arg1 \in {TIOCSTI, TIOCSETD, TIOCLINUX}

NotifyStage(a, x) ==
  LET n == Len(notify_fs_syscalls)
      ours == call.arch = AUDIT_ARCH
      nr == call.nr
  IN  \/ a = 1
      \/ a = 2 /\ x = call.arch
      \/ a = 3 /\ ~ours
      \/ ours /\ a = 4
      \/ /\ ours /\ a \in 5..(n + 4) /\ x = nr
         /\ \A j \in 1..(a - 5) : notify_fs_syscalls[j] # nr
      \/ ours /\ a = n + 5 /\ nr \notin ToSet(notify_fs_syscalls)
      \/ ours /\ a = n + 6 /\ nr \in ToSet(notify_fs_syscalls)

(* The calls that the whitelist filter kills, denied or not.               *)
Killed(c) ==
  \/ c.arch # AUDIT_ARCH
  \/ c.nr = SYS_clone /\ NewNamespace(c)
  \/ c.nr = SYS_socket /\ (c.arg0 = AF_NETLINK \/ c.arg1 % 16 = SOCK_RAW)
  \/ c.nr = SYS_ioctl /\ c.arg1 \in {TIOCSTI, TIOCSETD, TIOCLINUX}
  \/ c.nr \notin Special /\ ~Listed(c.nr)

(* What the whitelist filter returns, and what both filters together do.   *)
FirstVerdict(c) ==
  IF Killed(c) THEN "KILL" ELSE IF c.nr = SYS_clone3 THEN "ENOSYS" ELSE "ALLOW"
BothVerdicts(c) ==
  IF FirstVerdict(c) = "ALLOW" /\ Notified(c) THEN "NOTIFY" ELSE FirstVerdict(c)

FilterInv ==
  /\ phase = "filter" /\ filter = "whitelist" => WhitelistStage(at, acc) /\ verdict = "ALLOW"
  /\ phase = "filter" /\ filter = "notify" =>
       notify /\ NotifyStage(at, acc) /\ verdict = FirstVerdict(call)
  /\ phase \in {"judged", "dead", "suspended"} => verdict = BothVerdicts(call)
  /\ phase = "dead" => verdict = "KILL"
  /\ phase = "suspended" => verdict = "NOTIFY"

SeccompInv == TypeOK /\ PlanInv /\ HandshakeInv /\ FilterInv

(* What an instruction does.                                               *)
LEMMA Executed ==
  ASSUME NEW o, NEW k, NEW t, At(Program, at, o, k, t), Load \/ And \/ Jump
  PROVE  /\ UNCHANGED <<planVars, notify, phase, whitelist, step, call, filter, verdict>>
         /\ o # "ret"
         /\ o = "ld" => at' = at + 1 /\ acc' = call[k]
         /\ o = "and" => at' = at + 1 /\ acc' = acc % (k + 1)
         /\ o = "jeq" => acc' = acc /\ at' = at + 1 + (IF acc = k THEN t ELSE 0)
         /\ o = "jset" =>
              /\ acc' = acc
              /\ at' = at + 1 + IF \E bit \in Bit : HasBit(acc, bit) /\ HasBit(k, bit) THEN t ELSE 0
<1>1. Ins.op = o /\ Ins.k = k /\ Ins.jt = t /\ Ins.jf = 0
  BY DEF At, Ins
<1>2. CASE Load
  BY <1>1, <1>2 DEF Load, Running
<1>3. CASE And
  BY <1>1, <1>3 DEF And, Running
<1>4. CASE Jump
  <2>1. o = "jeq" \/ o = "jset"
    BY <1>1, <1>4 DEF Jump, Running
  <2>2. CASE o = "jeq"
    <3>1. Taken <=> acc = k
      BY <1>1, <2>2 DEF Taken
    <3> QED BY <1>1, <1>4, <2>2, <3>1 DEF Jump
  <2>3. CASE o = "jset"
    <3>1. Taken <=> \E bit \in Bit : HasBit(acc, bit) /\ HasBit(k, bit)
      BY <1>1, <2>3 DEF Taken
    <3> QED BY <1>1, <1>4, <2>3, <3>1 DEF Jump
  <2> QED BY <2>1, <2>2, <2>3
<1> QED BY <1>2, <1>3, <1>4

(* Types of a system call.                                                 *)
LEMMA CallTyped ==
  ASSUME SeccompAssumption, TypeOK
  PROVE  /\ call.arch \in Nat /\ call.nr \in Nr /\ call.nr \in Nat
         /\ call.arg0 \in Nat /\ call.arg1 \in Nat
<1>1. CASE call \in Calls
  BY <1>1 DEF SeccompAssumption
<1>2. CASE call \in {PlainCall(nr) : nr \in Nr}
  BY <1>2 DEF SeccompAssumption, PlainCall, AUDIT_ARCH
<1> QED BY <1>1, <1>2 DEF TypeOK, JumpsLand

(* The loads and the jumps of the whitelist filter keep to its assertions. *)
LEMMA WhitelistStep ==
  ASSUME SeccompAssumption, TypeOK, filter = "whitelist", Len(whitelist) <= MAX_WHITELIST_SIZE,
         WhitelistStage(at, acc), Load \/ And \/ Jump
  PROVE  WhitelistStage(at, acc)' /\ acc' \in Nat
<1> DEFINE n == Len(whitelist)
           ours == call.arch = AUDIT_ARCH
           nr == call.nr
           P == Program
<1>1. n \in Nat /\ whitelist \in Seq(Nr) /\ at \in Nat /\ acc \in Nat
  BY DEF TypeOK, JumpsLand
<1>2. P = build_whitelist_filter(whitelist)
  BY DEF Program
<1> HIDE DEF P
<1>3. /\ At(P, 1, "ld", "arch", 0) /\ At(P, 2, "jeq", AUDIT_ARCH, 1)
      /\ At(P, 3, "ret", "KILL", 0) /\ At(P, 4, "ld", "nr", 0)
      /\ At(P, 5, "jeq", SYS_clone3, n + 5) /\ At(P, 6, "jeq", SYS_clone, n + 5)
      /\ At(P, 7, "jeq", SYS_socket, n + 8) /\ At(P, 8, "jeq", SYS_ioctl, n + 14)
      /\ \A i \in 1..n : At(P, 8 + i, "jeq", whitelist[i], n - (i - 1))
  BY <1>1, <1>2, WhitelistTable
<1>4. /\ At(P, n + 9, "ret", "KILL", 0) /\ At(P, n + 10, "ret", "ALLOW", 0)
      /\ At(P, n + 11, "ret", "ENOSYS", 0)
      /\ At(P, n + 12, "ld", "arg0", 0) /\ At(P, n + 13, "jset", BLOCKED_CLONE_FLAGS, 1)
      /\ At(P, n + 14, "ret", "ALLOW", 0) /\ At(P, n + 15, "ret", "KILL", 0)
      /\ At(P, n + 16, "ld", "arg0", 0) /\ At(P, n + 17, "jeq", AF_NETLINK, 4)
      /\ At(P, n + 18, "ld", "arg1", 0) /\ At(P, n + 19, "and", 15, 0)
      /\ At(P, n + 20, "jeq", SOCK_RAW, 1)
      /\ At(P, n + 21, "ret", "ALLOW", 0) /\ At(P, n + 22, "ret", "KILL", 0)
      /\ At(P, n + 23, "ld", "arg1", 0) /\ At(P, n + 24, "jeq", TIOCSTI, 3)
      /\ At(P, n + 25, "jeq", TIOCSETD, 2) /\ At(P, n + 26, "jeq", TIOCLINUX, 1)
      /\ At(P, n + 27, "ret", "ALLOW", 0) /\ At(P, n + 28, "ret", "KILL", 0)
  BY <1>1, <1>2, WhitelistTable
<1>5. UNCHANGED <<call, whitelist>>
  BY DEF Load, And, Jump
<1>6. CASE at = 1
  <2>1. At(Program, at, "ld", "arch", 0)
    BY <1>3, <1>6 DEF P
  <2>2. at' = 2 /\ acc' = call.arch
    BY <1>1, <1>6, <2>1, Executed
  <2> QED BY <1>1, <1>5, <1>6, <2>2, CallTyped DEF WhitelistStage
<1>7. CASE at = 2 /\ acc = call.arch
  <2>1. At(Program, at, "jeq", AUDIT_ARCH, 1)
    BY <1>3, <1>7 DEF P
  <2>2. acc' = acc /\ at' = IF ours THEN 4 ELSE 3
    BY <1>1, <1>7, <2>1, Executed
  <2> QED BY <1>1, <1>5, <1>7, <2>2, CallTyped DEF WhitelistStage
<1>8. CASE ours /\ at = 4
  <2>1. At(Program, at, "ld", "nr", 0)
    BY <1>3, <1>8 DEF P
  <2>2. at' = 5 /\ acc' = nr
    BY <1>1, <1>8, <2>1, Executed
  <2> QED BY <1>1, <1>5, <1>8, <2>2, CallTyped DEF WhitelistStage
<1>9. CASE ours /\ at = 5 /\ acc = nr
  <2>1. At(Program, at, "jeq", SYS_clone3, n + 5)
    BY <1>3, <1>9 DEF P
  <2>2. acc' = acc /\ at' = IF nr = SYS_clone3 THEN n + 11 ELSE 6
    BY <1>1, <1>9, <2>1, Executed
  <2> QED BY <1>1, <1>5, <1>9, <2>2, CallTyped DEF WhitelistStage
<1>10. CASE ours /\ at = 6 /\ acc = nr /\ nr # SYS_clone3
  <2>1. At(Program, at, "jeq", SYS_clone, n + 5)
    BY <1>3, <1>10 DEF P
  <2>2. acc' = acc /\ at' = IF nr = SYS_clone THEN n + 12 ELSE 7
    BY <1>1, <1>10, <2>1, Executed
  <2> QED BY <1>1, <1>5, <1>10, <2>2, CallTyped DEF WhitelistStage
<1>11. CASE ours /\ at = 7 /\ acc = nr /\ nr \notin {SYS_clone3, SYS_clone}
  <2>1. At(Program, at, "jeq", SYS_socket, n + 8)
    BY <1>3, <1>11 DEF P
  <2>2. acc' = acc /\ at' = IF nr = SYS_socket THEN n + 16 ELSE 8
    BY <1>1, <1>11, <2>1, Executed
  <2> QED BY <1>1, <1>5, <1>11, <2>2, CallTyped DEF WhitelistStage
<1>12. CASE ours /\ at = 8 /\ acc = nr /\ nr \notin {SYS_clone3, SYS_clone, SYS_socket}
  <2>1. At(Program, at, "jeq", SYS_ioctl, n + 14)
    BY <1>3, <1>12 DEF P
  <2>2. acc' = acc /\ at' = IF nr = SYS_ioctl THEN n + 23 ELSE 9
    BY <1>1, <1>12, <2>1, Executed
  <2>3. CASE nr = SYS_ioctl
    BY <1>1, <1>5, <1>12, <2>2, <2>3, CallTyped DEF WhitelistStage
  <2>4. CASE nr # SYS_ioctl /\ n > 0
    <3>1. at' \in 9..(n + 8) /\ nr \notin Special /\ \A j \in 1..(at' - 9) : whitelist[j] # nr
      BY <1>1, <1>12, <2>2, <2>4 DEF Special
    <3> QED BY <1>1, <1>5, <1>12, <2>2, <3>1, CallTyped DEF WhitelistStage
  <2>5. CASE nr # SYS_ioctl /\ n = 0
    <3>1. at' = n + 9 /\ nr \notin Special /\ nr \notin ToSet(whitelist)
      BY <1>1, <1>12, <2>2, <2>5 DEF Special, ToSet
    <3> QED BY <1>1, <1>5, <1>12, <2>2, <3>1, CallTyped DEF WhitelistStage
  <2> QED BY <1>1, <2>3, <2>4, <2>5
<1>13. CASE /\ ours /\ at \in 9..(n + 8) /\ acc = nr /\ nr \notin Special
          /\ \A j \in 1..(at - 9) : whitelist[j] # nr
  <2> DEFINE i == at - 8
  <2>1. i \in 1..n /\ at = 8 + i
    BY <1>1, <1>13
  <2> HIDE DEF i
  <2>2. At(Program, at, "jeq", whitelist[i], n - (i - 1))
    BY <1>3, <2>1 DEF P
  <2>3. acc' = acc /\ at' = at + 1 + (IF nr = whitelist[i] THEN n - (i - 1) ELSE 0)
    BY <1>13, <2>2, Executed
  <2>4. CASE nr = whitelist[i]
    <3>1. at' = n + 10 /\ nr \in ToSet(whitelist)
      BY <1>1, <2>1, <2>3, <2>4 DEF ToSet
    <3> QED BY <1>1, <1>5, <1>13, <2>3, <3>1, CallTyped DEF WhitelistStage
  <2>5. CASE nr # whitelist[i]
    <3>1. at' = 9 + i /\ \A j \in 1..i : whitelist[j] # nr
      <4>1. at' = 9 + i
        BY <1>1, <2>1, <2>3, <2>5
      <4>2. \A j \in 1..i : j = i \/ j \in 1..(at - 9)
        BY <1>1, <2>1
      <4> QED BY <1>13, <2>5, <4>1, <4>2
    <3>2. CASE i = n
      <4>1. at' = n + 9 /\ nr \notin ToSet(whitelist)
        BY <1>1, <3>1, <3>2 DEF ToSet
      <4> QED BY <1>1, <1>5, <1>13, <2>3, <4>1, CallTyped DEF WhitelistStage
    <3>3. CASE i < n
      <4>1. at' \in 9..(n + 8) /\ at' - 9 = i
        BY <1>1, <2>1, <3>1, <3>3
      <4> QED BY <1>1, <1>5, <1>13, <2>3, <3>1, <4>1, CallTyped DEF WhitelistStage
    <3> QED BY <1>1, <2>1, <3>2, <3>3
  <2> QED BY <2>4, <2>5
<1>14. CASE ours /\ at = n + 12 /\ nr = SYS_clone
  <2>1. At(Program, at, "ld", "arg0", 0)
    BY <1>4, <1>14 DEF P
  <2>2. at' = n + 13 /\ acc' = call.arg0
    BY <1>1, <1>14, <2>1, Executed
  <2> QED BY <1>1, <1>5, <1>14, <2>2, CallTyped DEF WhitelistStage
<1>15. CASE ours /\ at = n + 13 /\ nr = SYS_clone /\ acc = call.arg0
  <2>1. At(Program, at, "jset", BLOCKED_CLONE_FLAGS, 1)
    BY <1>4, <1>15 DEF P
  <2>2. CloneNew \subseteq Bit
    BY DEF CloneNew, Bit
  <2>3. (\E bit \in Bit : HasBit(acc, bit) /\ HasBit(BLOCKED_CLONE_FLAGS, bit)) <=> NewNamespace(call)
    BY <1>15, <2>2, BlockedFlags DEF NewNamespace
  <2>4. acc' = acc /\ at' = IF NewNamespace(call) THEN n + 15 ELSE n + 14
    <3>1. /\ acc' = acc
          /\ at' = at + 1 + IF \E bit \in Bit : HasBit(acc, bit) /\ HasBit(BLOCKED_CLONE_FLAGS, bit)
                           THEN 1 ELSE 0
      BY <2>1, Executed
    <3>2. at' = at + 1 + IF NewNamespace(call) THEN 1 ELSE 0
      BY <2>3, <3>1
    <3> QED BY <1>1, <1>15, <3>1, <3>2
  <2> QED BY <1>1, <1>5, <1>15, <2>4, CallTyped DEF WhitelistStage
<1>16. CASE ours /\ at = n + 16 /\ nr = SYS_socket
  <2>1. At(Program, at, "ld", "arg0", 0)
    BY <1>4, <1>16 DEF P
  <2>2. at' = n + 17 /\ acc' = call.arg0
    BY <1>1, <1>16, <2>1, Executed
  <2> QED BY <1>1, <1>5, <1>16, <2>2, CallTyped DEF WhitelistStage
<1>17. CASE ours /\ at = n + 17 /\ nr = SYS_socket /\ acc = call.arg0
  <2>1. At(Program, at, "jeq", AF_NETLINK, 4)
    BY <1>4, <1>17 DEF P
  <2>2. acc' = acc /\ at' = IF call.arg0 = AF_NETLINK THEN n + 22 ELSE n + 18
    BY <1>1, <1>17, <2>1, Executed
  <2> QED BY <1>1, <1>5, <1>17, <2>2, CallTyped DEF WhitelistStage
<1>18. CASE ours /\ at = n + 18 /\ nr = SYS_socket /\ call.arg0 # AF_NETLINK
  <2>1. At(Program, at, "ld", "arg1", 0)
    BY <1>4, <1>18 DEF P
  <2>2. at' = n + 19 /\ acc' = call.arg1
    BY <1>1, <1>18, <2>1, Executed
  <2> QED BY <1>1, <1>5, <1>18, <2>2, CallTyped DEF WhitelistStage
<1>19. CASE ours /\ at = n + 19 /\ nr = SYS_socket /\ call.arg0 # AF_NETLINK /\ acc = call.arg1
  <2>1. At(Program, at, "and", 15, 0)
    BY <1>4, <1>19 DEF P
  <2>2. at' = n + 20 /\ acc' = call.arg1 % 16
    BY <1>1, <1>19, <2>1, Executed
  <2> QED BY <1>1, <1>5, <1>19, <2>2, CallTyped DEF WhitelistStage
<1>20. CASE ours /\ at = n + 20 /\ nr = SYS_socket /\ call.arg0 # AF_NETLINK /\ acc = call.arg1 % 16
  <2>1. At(Program, at, "jeq", SOCK_RAW, 1)
    BY <1>4, <1>20 DEF P
  <2>2. acc' = acc /\ at' = IF call.arg1 % 16 = SOCK_RAW THEN n + 22 ELSE n + 21
    BY <1>1, <1>20, <2>1, Executed
  <2> QED BY <1>1, <1>5, <1>20, <2>2, CallTyped DEF WhitelistStage
<1>21. CASE ours /\ at = n + 23 /\ nr = SYS_ioctl
  <2>1. At(Program, at, "ld", "arg1", 0)
    BY <1>4, <1>21 DEF P
  <2>2. at' = n + 24 /\ acc' = call.arg1
    BY <1>1, <1>21, <2>1, Executed
  <2> QED BY <1>1, <1>5, <1>21, <2>2, CallTyped DEF WhitelistStage
<1>22. CASE ours /\ at = n + 24 /\ nr = SYS_ioctl /\ acc = call.arg1
  <2>1. At(Program, at, "jeq", TIOCSTI, 3)
    BY <1>4, <1>22 DEF P
  <2>2. acc' = acc /\ at' = IF acc = TIOCSTI THEN n + 28 ELSE n + 25
    BY <1>1, <1>22, <2>1, Executed
  <2> QED BY <1>1, <1>5, <1>22, <2>2, CallTyped DEF WhitelistStage, TIOCSTI, TIOCSETD, TIOCLINUX
<1>23. CASE ours /\ at = n + 25 /\ nr = SYS_ioctl /\ acc = call.arg1 /\ acc # TIOCSTI
  <2>1. At(Program, at, "jeq", TIOCSETD, 2)
    BY <1>4, <1>23 DEF P
  <2>2. acc' = acc /\ at' = IF acc = TIOCSETD THEN n + 28 ELSE n + 26
    BY <1>1, <1>23, <2>1, Executed
  <2> QED BY <1>1, <1>5, <1>23, <2>2, CallTyped DEF WhitelistStage, TIOCSTI, TIOCSETD, TIOCLINUX
<1>24. CASE ours /\ at = n + 26 /\ nr = SYS_ioctl /\ acc = call.arg1 /\ acc \notin {TIOCSTI, TIOCSETD}
  <2>1. At(Program, at, "jeq", TIOCLINUX, 1)
    BY <1>4, <1>24 DEF P
  <2>2. acc' = acc /\ at' = IF acc = TIOCLINUX THEN n + 28 ELSE n + 27
    BY <1>1, <1>24, <2>1, Executed
  <2> QED BY <1>1, <1>5, <1>24, <2>2, CallTyped DEF WhitelistStage, TIOCSTI, TIOCSETD, TIOCLINUX
<1>25. CASE at \in {3, n + 9, n + 10, n + 11, n + 14, n + 15, n + 21, n + 22, n + 27, n + 28}
  <2>1. \E v : At(Program, at, "ret", v, 0)
    BY <1>3, <1>4, <1>25 DEF P
  <2> QED BY <2>1, Executed
<1> QED BY <1>1, <1>6, <1>7, <1>8, <1>9, <1>10, <1>11, <1>12, <1>13, <1>14, <1>15, <1>16, <1>17,
           <1>18, <1>19, <1>20, <1>21, <1>22, <1>23, <1>24, <1>25 DEF WhitelistStage

(* And those of the notify filter to its own.                              *)
LEMMA NotifyStep ==
  ASSUME SeccompAssumption, TypeOK, filter = "notify", NotifyStage(at, acc), Load \/ And \/ Jump
  PROVE  NotifyStage(at, acc)' /\ acc' \in Nat
<1> DEFINE list == notify_fs_syscalls
           n == Len(list)
           ours == call.arch = AUDIT_ARCH
           nr == call.nr
           P == Program
<1>1. n \in Nat /\ list \in Seq(Nr) /\ at \in Nat /\ acc \in Nat
  BY DEF TypeOK, JumpsLand, SeccompAssumption
<1>2. P = build_notify_filter(list)
  BY DEF Program
<1> HIDE DEF P
<1>3. /\ At(P, 1, "ld", "arch", 0) /\ At(P, 2, "jeq", AUDIT_ARCH, 1)
      /\ At(P, 3, "ret", "ALLOW", 0) /\ At(P, 4, "ld", "nr", 0)
      /\ \A i \in 1..n : At(P, 4 + i, "jeq", list[i], n - (i - 1))
      /\ At(P, n + 5, "ret", "ALLOW", 0) /\ At(P, n + 6, "ret", "NOTIFY", 0)
  BY <1>2, NotifyTable
<1>4. UNCHANGED call
  BY DEF Load, And, Jump
<1>5. CASE at = 1
  <2>1. At(Program, at, "ld", "arch", 0)
    BY <1>3, <1>5 DEF P
  <2>2. at' = 2 /\ acc' = call.arch
    BY <1>1, <1>5, <2>1, Executed
  <2> QED BY <1>1, <1>4, <2>2, CallTyped DEF NotifyStage
<1>6. CASE at = 2 /\ acc = call.arch
  <2>1. At(Program, at, "jeq", AUDIT_ARCH, 1)
    BY <1>3, <1>6 DEF P
  <2>2. acc' = acc /\ at' = IF ours THEN 4 ELSE 3
    BY <1>1, <1>6, <2>1, Executed
  <2> QED BY <1>1, <1>4, <2>2, CallTyped DEF NotifyStage
<1>7. CASE ours /\ at = 4
  <2>1. At(Program, at, "ld", "nr", 0)
    BY <1>3, <1>7 DEF P
  <2>2. at' = 5 /\ acc' = nr
    BY <1>1, <1>7, <2>1, Executed
  <2>3. CASE n > 0
    <3>1. at' \in 5..(n + 4) /\ \A j \in 1..(at' - 5) : list[j] # nr
      BY <1>1, <2>2, <2>3
    <3> QED BY <1>1, <1>4, <1>7, <2>2, <3>1, CallTyped DEF NotifyStage
  <2>4. CASE n = 0
    <3>1. at' = n + 5 /\ nr \notin ToSet(list)
      BY <1>1, <2>2, <2>4 DEF ToSet
    <3> QED BY <1>1, <1>4, <1>7, <2>2, <3>1, CallTyped DEF NotifyStage
  <2> QED BY <1>1, <2>3, <2>4
<1>8. CASE ours /\ at \in 5..(n + 4) /\ acc = nr /\ \A j \in 1..(at - 5) : list[j] # nr
  <2> DEFINE i == at - 4
  <2>1. i \in 1..n /\ at = 4 + i
    BY <1>1, <1>8
  <2> HIDE DEF i
  <2>2. At(Program, at, "jeq", list[i], n - (i - 1))
    BY <1>3, <2>1 DEF P
  <2>3. acc' = acc /\ at' = at + 1 + (IF nr = list[i] THEN n - (i - 1) ELSE 0)
    BY <1>8, <2>2, Executed
  <2>4. CASE nr = list[i]
    <3>1. at' = n + 6 /\ nr \in ToSet(list)
      BY <1>1, <2>1, <2>3, <2>4 DEF ToSet
    <3> QED BY <1>1, <1>4, <1>8, <2>3, <3>1, CallTyped DEF NotifyStage
  <2>5. CASE nr # list[i]
    <3>1. at' = 5 + i /\ \A j \in 1..i : list[j] # nr
      <4>1. at' = 5 + i
        BY <1>1, <2>1, <2>3, <2>5
      <4>2. \A j \in 1..i : j = i \/ j \in 1..(at - 5)
        BY <1>1, <2>1
      <4> QED BY <1>8, <2>5, <4>1, <4>2
    <3>2. CASE i = n
      <4>1. at' = n + 5 /\ nr \notin ToSet(list)
        BY <1>1, <3>1, <3>2 DEF ToSet
      <4> QED BY <1>1, <1>4, <1>8, <2>3, <4>1, CallTyped DEF NotifyStage
    <3>3. CASE i < n
      <4>1. at' \in 5..(n + 4) /\ at' - 5 = i
        BY <1>1, <2>1, <3>1, <3>3
      <4> QED BY <1>1, <1>4, <1>8, <2>3, <3>1, <4>1, CallTyped DEF NotifyStage
    <3> QED BY <1>1, <2>1, <3>2, <3>3
  <2> QED BY <2>4, <2>5
<1>9. CASE at \in {3, n + 5, n + 6}
  <2>1. \E v : At(Program, at, "ret", v, 0)
    BY <1>3, <1>9 DEF P
  <2> QED BY <2>1, Executed
<1> QED BY <1>1, <1>5, <1>6, <1>7, <1>8, <1>9 DEF NotifyStage

(* Every position with an assertion lies in the program.                   *)
LEMMA StagesInside ==
  ASSUME SeccompAssumption, NEW a, NEW x, whitelist \in Seq(Nr)
  PROVE  /\ WhitelistStage(a, x) => a \in 1..Len(build_whitelist_filter(whitelist))
         /\ NotifyStage(a, x) => a \in 1..Len(build_notify_filter(notify_fs_syscalls))
<1>1. Len(build_whitelist_filter(whitelist)) = Len(whitelist) + 28 /\ Len(whitelist) \in Nat
  BY WhitelistParts
<1>2. /\ Len(build_notify_filter(notify_fs_syscalls)) = Len(notify_fs_syscalls) + 6
      /\ Len(notify_fs_syscalls) \in Nat
  <2>1. notify_fs_syscalls \in Seq(Nr)
    BY DEF SeccompAssumption
  <2> QED BY <2>1, NotifyParts
<1>3. ASSUME WhitelistStage(a, x) PROVE a \in 1..(Len(whitelist) + 28)
  <2> DEFINE n == Len(whitelist)
  <2>1. n \in Nat
    BY <1>1
  <2>2. \/ a \in {1, 2, 3, 4, 5, 6, 7, 8} \/ a \in 9..(n + 8)
        \/ a \in {n + 9, n + 10, n + 11, n + 12, n + 13, n + 14, n + 15, n + 16, n + 17, n + 18}
        \/ a \in {n + 19, n + 20, n + 21, n + 22, n + 23, n + 24, n + 25, n + 26, n + 27, n + 28}
    <3> HIDE DEF n
    <3> QED BY <1>3, Zenon DEF WhitelistStage, n
  <2> HIDE DEF n
  <2>3. a \in 1..(n + 28)
    <3>1. CASE a \in {1, 2, 3, 4, 5, 6, 7, 8} \/ a \in 9..(n + 8)
      BY <2>1, <3>1
    <3>2. CASE a \in {n + 9, n + 10, n + 11, n + 12, n + 13, n + 14, n + 15, n + 16, n + 17, n + 18}
      BY <2>1, <3>2
    <3>3. CASE a \in {n + 19, n + 20, n + 21, n + 22, n + 23, n + 24, n + 25, n + 26, n + 27, n + 28}
      BY <2>1, <3>3
    <3> QED BY <2>2, <3>1, <3>2, <3>3
  <2> QED BY <2>3 DEF n
<1>4. NotifyStage(a, x) => a \in 1..(Len(notify_fs_syscalls) + 6)
  BY <1>2 DEF NotifyStage
<1> QED BY <1>1, <1>2, <1>3, <1>4

(* The whitelist filter returns the verdict of the documentation.          *)
LEMMA WhitelistReturns ==
  ASSUME SeccompAssumption, TypeOK, PlanInv, phase = "filter", filter = "whitelist",
         WhitelistStage(at, acc), Ins.op = "ret"
  PROVE  Ins.k = FirstVerdict(call)
<1> DEFINE n == Len(whitelist)
           ours == call.arch = AUDIT_ARCH
           nr == call.nr
           P == Program
<1>1. /\ n \in Nat /\ whitelist \in Seq(Nr) /\ at \in Nat /\ nr \in Nr /\ n <= MAX_WHITELIST_SIZE
      /\ nr \in ToSet(whitelist) <=> Listed(nr)
  <2>1. n \in Nat /\ whitelist \in Seq(Nr) /\ at \in Nat
    BY DEF TypeOK, JumpsLand
  <2>2. nr \in Nr
    BY CallTyped
  <2>3. /\ n <= MAX_WHITELIST_SIZE
        /\ \A k \in Nr : k \in ToSet(whitelist) <=> Listed(k)
    BY DEF PlanInv, Filtering
  <2> QED BY <2>1, <2>2, <2>3
<1>2. P = build_whitelist_filter(whitelist) /\ Ins = P[at]
  BY DEF Program, Ins
<1>3. SYS_clone3 \in Special /\ SYS_clone \in Special /\ SYS_socket \in Special /\ SYS_ioctl \in Special
  BY DEF Special
<1> HIDE DEF P
<1>4. /\ At(P, 1, "ld", "arch", 0) /\ At(P, 2, "jeq", AUDIT_ARCH, 1)
      /\ At(P, 3, "ret", "KILL", 0) /\ At(P, 4, "ld", "nr", 0)
      /\ At(P, 5, "jeq", SYS_clone3, n + 5) /\ At(P, 6, "jeq", SYS_clone, n + 5)
      /\ At(P, 7, "jeq", SYS_socket, n + 8) /\ At(P, 8, "jeq", SYS_ioctl, n + 14)
      /\ \A i \in 1..n : At(P, 8 + i, "jeq", whitelist[i], n - (i - 1))
  BY <1>1, <1>2, WhitelistTable
<1>5. /\ At(P, n + 9, "ret", "KILL", 0) /\ At(P, n + 10, "ret", "ALLOW", 0)
      /\ At(P, n + 11, "ret", "ENOSYS", 0)
      /\ At(P, n + 12, "ld", "arg0", 0) /\ At(P, n + 13, "jset", BLOCKED_CLONE_FLAGS, 1)
      /\ At(P, n + 14, "ret", "ALLOW", 0) /\ At(P, n + 15, "ret", "KILL", 0)
      /\ At(P, n + 16, "ld", "arg0", 0) /\ At(P, n + 17, "jeq", AF_NETLINK, 4)
      /\ At(P, n + 18, "ld", "arg1", 0) /\ At(P, n + 19, "and", 15, 0)
      /\ At(P, n + 20, "jeq", SOCK_RAW, 1)
      /\ At(P, n + 21, "ret", "ALLOW", 0) /\ At(P, n + 22, "ret", "KILL", 0)
      /\ At(P, n + 23, "ld", "arg1", 0) /\ At(P, n + 24, "jeq", TIOCSTI, 3)
      /\ At(P, n + 25, "jeq", TIOCSETD, 2) /\ At(P, n + 26, "jeq", TIOCLINUX, 1)
      /\ At(P, n + 27, "ret", "ALLOW", 0) /\ At(P, n + 28, "ret", "KILL", 0)
  BY <1>1, <1>2, WhitelistTable
<1>6. CASE at = 3 /\ ~ours
  <2>1. Killed(call)
    BY <1>6 DEF Killed
  <2> QED BY <1>2, <1>4, <1>6, <2>1 DEF At, FirstVerdict
<1>7. CASE ours /\ at = n + 9 /\ nr \notin Special /\ nr \notin ToSet(whitelist)
  <2>1. Killed(call)
    BY <1>1, <1>7 DEF Killed
  <2> QED BY <1>2, <1>5, <1>7, <2>1 DEF At, FirstVerdict
<1>8. CASE ours /\ at = n + 10 /\ nr \notin Special /\ nr \in ToSet(whitelist)
  <2>1. ~Killed(call) /\ nr # SYS_clone3
    BY <1>1, <1>3, <1>8 DEF Killed
  <2> QED BY <1>2, <1>5, <1>8, <2>1 DEF At, FirstVerdict
<1>9. CASE ours /\ at = n + 11 /\ nr = SYS_clone3
  <2>1. ~Killed(call)
    BY <1>3, <1>9, SpecialsDiffer DEF Killed
  <2> QED BY <1>2, <1>5, <1>9, <2>1 DEF At, FirstVerdict
<1>10. CASE ours /\ at = n + 14 /\ nr = SYS_clone /\ ~NewNamespace(call)
  <2>1. ~Killed(call) /\ nr # SYS_clone3
    BY <1>3, <1>10, SpecialsDiffer DEF Killed, NewNamespace
  <2> QED BY <1>2, <1>5, <1>10, <2>1 DEF At, FirstVerdict
<1>11. CASE ours /\ at = n + 15 /\ nr = SYS_clone /\ NewNamespace(call)
  <2>1. Killed(call)
    BY <1>11 DEF Killed, NewNamespace
  <2> QED BY <1>2, <1>5, <1>11, <2>1 DEF At, FirstVerdict
<1>12. CASE /\ ours /\ at = n + 21 /\ nr = SYS_socket
            /\ call.arg0 # AF_NETLINK /\ call.arg1 % 16 # SOCK_RAW
  <2>1. ~Killed(call) /\ nr # SYS_clone3
    BY <1>3, <1>12, SpecialsDiffer DEF Killed
  <2> QED BY <1>2, <1>5, <1>12, <2>1 DEF At, FirstVerdict
<1>13. CASE /\ ours /\ at = n + 22 /\ nr = SYS_socket
            /\ call.arg0 = AF_NETLINK \/ call.arg1 % 16 = SOCK_RAW
  <2>1. Killed(call)
    BY <1>13 DEF Killed
  <2> QED BY <1>2, <1>5, <1>13, <2>1 DEF At, FirstVerdict
<1>14. CASE ours /\ at = n + 27 /\ nr = SYS_ioctl /\ call.arg1 \notin {TIOCSTI, TIOCSETD, TIOCLINUX}
  <2>1. ~Killed(call) /\ nr # SYS_clone3
    BY <1>3, <1>14, SpecialsDiffer DEF Killed
  <2> QED BY <1>2, <1>5, <1>14, <2>1 DEF At, FirstVerdict
<1>15. CASE ours /\ at = n + 28 /\ nr = SYS_ioctl /\ call.arg1 \in {TIOCSTI, TIOCSETD, TIOCLINUX}
  <2>1. Killed(call)
    BY <1>15 DEF Killed
  <2> QED BY <1>2, <1>5, <1>15, <2>1 DEF At, FirstVerdict
<1>16. CASE at \in {1, 2, 4, 5, 6, 7, 8}
  <2>1. P[at].op # "ret"
    BY <1>4, <1>16 DEF At
  <2> QED BY <1>2, <2>1
<1>17. CASE at \in 9..(n + 8)
  <2>1. at - 8 \in 1..n /\ 8 + (at - 8) = at
    BY <1>1, <1>17
  <2>2. P[at].op = "jeq"
    BY <1>4, <2>1 DEF At
  <2> QED BY <1>2, <2>2
<1>18. CASE at \in {n + 12, n + 13, n + 16, n + 17, n + 18, n + 19, n + 20, n + 23, n + 24, n + 25, n + 26}
  <2>1. P[at].op # "ret"
    BY <1>5, <1>18 DEF At
  <2> QED BY <1>2, <2>1
<1> QED BY <1>6, <1>7, <1>8, <1>9, <1>10, <1>11, <1>12, <1>13, <1>14, <1>15, <1>16, <1>17, <1>18
        DEF WhitelistStage

(* The notify filter sends to the supervisor what its list holds.          *)
LEMMA NotifyReturns ==
  ASSUME SeccompAssumption, TypeOK, filter = "notify", NotifyStage(at, acc), Ins.op = "ret"
  PROVE  /\ Ins.k \in {"ALLOW", "NOTIFY"}
         /\ call.arch = AUDIT_ARCH => (Ins.k = "NOTIFY" <=> call.nr \in ToSet(notify_fs_syscalls))
<1> DEFINE list == notify_fs_syscalls
           n == Len(list)
           P == Program
<1>1. n \in Nat /\ at \in Nat
  BY DEF TypeOK, JumpsLand, SeccompAssumption
<1>2. P = build_notify_filter(list) /\ Ins = P[at]
  BY DEF Program, Ins
<1> HIDE DEF P
<1>3. /\ At(P, 1, "ld", "arch", 0) /\ At(P, 2, "jeq", AUDIT_ARCH, 1)
      /\ At(P, 3, "ret", "ALLOW", 0) /\ At(P, 4, "ld", "nr", 0)
      /\ \A i \in 1..n : At(P, 4 + i, "jeq", list[i], n - (i - 1))
      /\ At(P, n + 5, "ret", "ALLOW", 0) /\ At(P, n + 6, "ret", "NOTIFY", 0)
  BY <1>2, NotifyTable
<1>4. CASE at = 3 /\ call.arch # AUDIT_ARCH
  BY <1>2, <1>3, <1>4 DEF At
<1>5. CASE at = n + 5 /\ call.nr \notin ToSet(list)
  BY <1>2, <1>3, <1>5 DEF At
<1>6. CASE at = n + 6 /\ call.nr \in ToSet(list)
  BY <1>2, <1>3, <1>6 DEF At
<1>7. CASE at \in {1, 2, 4}
  <2>1. P[at].op # "ret"
    BY <1>3, <1>7 DEF At
  <2> QED BY <1>2, <2>1
<1>8. CASE at \in 5..(n + 4)
  <2>1. at - 4 \in 1..n /\ 4 + (at - 4) = at
    BY <1>1, <1>8
  <2>2. P[at].op = "jeq"
    BY <1>3, <2>1 DEF At
  <2> QED BY <1>2, <2>2
<1> QED BY <1>4, <1>5, <1>6, <1>7, <1>8 DEF NotifyStage

---------------------------------------------------------------------------
(* The invariant holds at first, and every action keeps it.                *)

LEMMA InitInv ==
  ASSUME SeccompAssumption, Init
  PROVE  SeccompInv
<1>1. TypeOK
  <2>1. SYS_clone3 \in Nr /\ Len(Handshake) \in Nat /\ MaxEdits \in Nat
    BY DEF SeccompAssumption, Special
  <2> QED BY <2>1 DEF Init, TypeOK, JumpsLand, Verdicts
<1>2. PlanInv /\ HandshakeInv /\ FilterInv
  BY DEF Init, PlanInv, HandshakeInv, FilterInv, Filtering
<1> QED BY <1>1, <1>2 DEF SeccompInv

LEMMA EditKeeps ==
  ASSUME SeccompAssumption, SeccompInv, NEW nr \in Nr, Allow(nr) \/ Deny(nr)
  PROVE  SeccompInv'
<1>1. phase = "plan" /\ phase' = "plan"
  BY DEF Allow, Deny
<1>2. TypeOK'
  <2>1. edits' \in 0..MaxEdits
    <3>1. MaxEdits \in Nat /\ edits \in 0..MaxEdits /\ edits < MaxEdits /\ edits' = edits + 1
      BY DEF SeccompInv, SeccompAssumption, TypeOK, JumpsLand, Allow, Deny
    <3> QED BY <3>1
  <2>2. UNCHANGED <<notify, whitelist, step, call, filter, at, acc, verdict>>
    BY DEF Allow, Deny, runVars
  <2>3. asked' \in [Nr -> {"default", "allow", "deny"}]
    BY DEF SeccompInv, TypeOK, JumpsLand, Allow, Deny
  <2>4. allowed' \subseteq Nr /\ denied' \subseteq Nr /\ allowed' \cap denied' = {}
    <3>1. allowed \subseteq Nr /\ denied \subseteq Nr /\ allowed \cap denied = {}
      BY DEF SeccompInv, TypeOK, JumpsLand
    <3> QED BY <3>1 DEF Allow, Deny
  <2> QED BY <1>1, <2>1, <2>2, <2>3, <2>4 DEF SeccompInv, TypeOK, JumpsLand
<1>3. PlanInv'
  <2>1. edits' # 0
    BY DEF SeccompInv, TypeOK, JumpsLand, Allow, Deny
  <2>2. CASE Allow(nr)
    <3>1. /\ asked' = [asked EXCEPT ![nr] = "allow"]
          /\ allowed' = allowed \cup {nr} /\ denied' = denied \ {nr}
      BY <2>2 DEF Allow
    <3> QED BY <1>1, <2>1, <3>1 DEF SeccompInv, TypeOK, JumpsLand, PlanInv, Filtering
  <2>3. CASE Deny(nr)
    <3>1. /\ asked' = [asked EXCEPT ![nr] = "deny"]
          /\ allowed' = allowed \ {nr} /\ denied' = denied \cup {nr}
      BY <2>3 DEF Deny
    <3> QED BY <1>1, <2>1, <3>1 DEF SeccompInv, TypeOK, JumpsLand, PlanInv, Filtering
  <2> QED BY <2>2, <2>3
<1>4. HandshakeInv' /\ FilterInv'
  BY <1>1 DEF HandshakeInv, FilterInv, Filtering
<1> QED BY <1>2, <1>3, <1>4 DEF SeccompInv

(* The elements of a list of a set that leaves none of them out.           *)
LEMMA ListsAll ==
  ASSUME NEW S, NEW s \in Seq(S), \A x \in S : \E i \in 1..Len(s) : s[i] = x
  PROVE  ToSet(s) = S
<1>1. DOMAIN s = 1..Len(s) /\ \A i \in 1..Len(s) : s[i] \in S
  OBVIOUS
<1>2. ToSet(s) \subseteq S
  BY <1>1 DEF ToSet
<1>3. S \subseteq ToSet(s)
  BY <1>1 DEF ToSet
<1> QED BY <1>2, <1>3

(* The list that apply_seccomp builds the filter from holds exactly the    *)
(* syscalls the plan lists.                                                *)
LEMMA ListAsAsked ==
  ASSUME SeccompAssumption, TypeOK, PlanInv,
         NEW s \in IF edits = 0 THEN {default_whitelist} ELSE Orders[wl_set]
  PROVE  s \in Seq(Nr) /\ \A nr \in Nr : nr \in ToSet(s) <=> Listed(nr)
<1>1. default_whitelist \in Seq(Nr) /\ ToSet(default_whitelist) \subseteq Nr
  BY DEF SeccompAssumption, ToSet
<1>2. wl_set \subseteq Nr
  BY <1>1 DEF wl_set, TypeOK, JumpsLand
<1>3. \A nr \in Nr : nr \in wl_set <=> Listed(nr)
  <2>1. ASSUME NEW nr \in Nr PROVE nr \in wl_set <=> Listed(nr)
    <3>1. asked[nr] \in {"default", "allow", "deny"}
      BY DEF TypeOK, JumpsLand
    <3>2. (asked[nr] = "allow" <=> nr \in allowed) /\ (asked[nr] = "deny" <=> nr \in denied)
      BY DEF PlanInv
    <3> QED BY <3>1, <3>2 DEF wl_set, Listed
  <2> QED BY <2>1
<1>4. s \in Seq(Nr) /\ ToSet(s) = wl_set
  <2>1. CASE edits = 0
    <3>1. allowed = {} /\ denied = {}
      BY <2>1 DEF PlanInv
    <3> QED BY <1>1, <2>1, <3>1 DEF wl_set
  <2>2. CASE edits # 0
    <3>1. s \in Seq(wl_set) /\ \A nr \in wl_set : \E i \in 1..Len(s) : s[i] = nr
      <4>1. \A set \in SUBSET Nr : \A t \in Orders[set] : Enumerates(t, set)
        BY DEF SeccompAssumption
      <4>2. s \in Orders[wl_set]
        BY <2>2
      <4>3. Enumerates(s, wl_set)
        BY <1>2, <4>1, <4>2
      <4> QED BY <4>3 DEF Enumerates
    <3>2. ToSet(s) = wl_set
      BY <3>1, ListsAll
    <3>3. s \in Seq(Nr)
      BY <1>2, <3>1, SeqMonotonic
    <3> QED BY <3>2, <3>3
  <2> QED BY <2>1, <2>2
<1> QED BY <1>3, <1>4

LEMMA ApplyKeeps ==
  ASSUME SeccompAssumption, SeccompInv, apply_seccomp
  PROVE  SeccompInv'
<1>1. PICK s \in IF edits = 0 THEN {default_whitelist} ELSE Orders[wl_set] :
        whitelist' = s /\ phase' = IF fits(s) THEN "run" ELSE "panic"
  BY DEF apply_seccomp
<1>2. /\ edits' = edits /\ allowed' = allowed /\ denied' = denied /\ asked' = asked
      /\ notify' = notify /\ step' = step /\ UNCHANGED runVars
  BY DEF apply_seccomp, planVars
<1>3. s \in Seq(Nr) /\ \A nr \in Nr : nr \in ToSet(s) <=> Listed(nr)
  BY ListAsAsked DEF SeccompInv
<1>4. phase' \in {"run", "panic"}
  BY <1>1
<1>5. TypeOK'
  BY <1>1, <1>2, <1>3, <1>4 DEF SeccompInv, TypeOK, JumpsLand, runVars
<1>6. PlanInv'
  <2>1. phase' \in Filtering => Len(s) <= MAX_WHITELIST_SIZE
    BY <1>1 DEF Filtering, fits
  <2>2. \A nr \in Nr : nr \in ToSet(s) <=> Listed(nr)'
    BY <1>2, <1>3 DEF Listed
  <2> QED BY <1>1, <1>2, <2>1, <2>2 DEF SeccompInv, PlanInv
<1>7. HandshakeInv' /\ FilterInv'
  BY <1>4 DEF HandshakeInv, FilterInv, Filtering
<1> QED BY <1>5, <1>6, <1>7 DEF SeccompInv

(* A step that leaves the plan and the list alone.                         *)
LEMMA PlanKept ==
  ASSUME PlanInv, UNCHANGED <<planVars, whitelist>>, phase \in Filtering
  PROVE  PlanInv'
<1>1. \A nr \in Nr : Listed(nr)' <=> Listed(nr)
  BY DEF Listed, planVars
<1> QED BY <1>1 DEF PlanInv, planVars

LEMMA EnterKeeps ==
  ASSUME SeccompAssumption, SeccompInv, NEW c \in Possible, Enter(c)
  PROVE  SeccompInv'
<1>1. phase = "run" /\ phase' = "filter" /\ call' = c /\ filter' = "whitelist"
      /\ at' = 1 /\ acc' = 0 /\ verdict' = "ALLOW"
  BY DEF Enter
<1>2. /\ edits' = edits /\ allowed' = allowed /\ denied' = denied /\ asked' = asked
      /\ notify' = notify /\ step' = step /\ whitelist' = whitelist
  BY DEF Enter, planVars
<1>3. step < Len(Handshake) => c = PlainCall(Handshake[step + 1]) /\ Handshake[step + 1] \in Nr
  BY DEF Possible, SeccompInv, TypeOK, JumpsLand, SeccompAssumption
<1>4. c \in Calls \cup {PlainCall(nr) : nr \in Nr}
  BY <1>3 DEF Possible
<1>5. TypeOK'
  <2>1. Len(Program)' = Len(whitelist) + 28 /\ Len(whitelist) \in Nat
    <3>1. whitelist \in Seq(Nr)
      BY DEF SeccompInv, TypeOK, JumpsLand
    <3>2. Program' = build_whitelist_filter(whitelist)
      BY <1>1, <1>2 DEF Program
    <3>3. /\ Len(build_whitelist_filter(whitelist)) = Len(whitelist) + 28
          /\ Len(whitelist) \in Nat
      BY <3>1, WhitelistParts
    <3> QED BY <3>2, <3>3
  <2>2. at' \in 1..Len(Program)'
    BY <1>1, <2>1
  <2> QED BY <1>1, <1>2, <1>4, <2>2 DEF SeccompInv, TypeOK, JumpsLand, Verdicts
<1>6. PlanInv'
  <2>1. phase \in Filtering
    BY <1>1 DEF Filtering
  <2> QED BY <1>2, <2>1, PlanKept DEF SeccompInv, planVars
<1>7. HandshakeInv'
  BY <1>1, <1>2, <1>3 DEF HandshakeInv, PlainCall
<1>8. FilterInv'
  BY <1>1 DEF FilterInv, WhitelistStage
<1> QED BY <1>5, <1>6, <1>7, <1>8 DEF SeccompInv

LEMMA RunKeeps ==
  ASSUME SeccompAssumption, SeccompInv, Load \/ And \/ Jump
  PROVE  SeccompInv'
<1>1. /\ UNCHANGED <<planVars, notify, phase, whitelist, step, call, filter, verdict>>
      /\ phase = "filter"
  BY DEF Load, And, Jump, Running
<1>2. TypeOK /\ PlanInv /\ HandshakeInv /\ FilterInv
  BY DEF SeccompInv
<1>3. Len(whitelist) <= MAX_WHITELIST_SIZE /\ whitelist \in Seq(Nr) /\ at \in Nat
  BY <1>1, <1>2 DEF PlanInv, Filtering, TypeOK, JumpsLand
<1>4. /\ acc' \in Nat
      /\ filter = "whitelist" => WhitelistStage(at, acc)'
      /\ filter = "notify" => NotifyStage(at, acc)'
  <2>1. CASE filter = "whitelist"
    BY <1>1, <1>2, <1>3, <2>1, WhitelistStep DEF FilterInv
  <2>2. CASE filter = "notify"
    BY <1>1, <1>2, <2>2, NotifyStep DEF FilterInv
  <2> QED BY <1>2, <2>1, <2>2 DEF TypeOK, JumpsLand
<1>5. at' \in Nat /\ at' \in 1..Len(Program')
  <2>1. ASSUME at' \in 1..Len(Program') PROVE at' \in Nat
    <3>1. Len(Program') \in Nat
      <4>1. notify_fs_syscalls \in Seq(Nr)
        BY DEF SeccompAssumption
      <4>2. CASE filter = "whitelist"
        <5>1. Program' = build_whitelist_filter(whitelist) /\ Len(whitelist) \in Nat
          BY <1>1, <1>3, <4>2 DEF Program
        <5> QED BY <1>3, <5>1, WhitelistParts
      <4>3. CASE filter = "notify"
        <5>1. Program' = build_notify_filter(notify_fs_syscalls) /\ Len(notify_fs_syscalls) \in Nat
          BY <1>1, <4>1, <4>3 DEF Program
        <5> QED BY <4>1, <5>1, NotifyParts
      <4> QED BY <1>2, <4>2, <4>3 DEF TypeOK, JumpsLand
    <3> QED BY <2>1, <3>1
  <2>2. CASE filter = "whitelist"
    <3>1. WhitelistStage(at', acc')
      BY <1>1, <1>4, <2>2 DEF WhitelistStage, NewNamespace
    <3>2. Program' = build_whitelist_filter(whitelist)
      BY <1>1, <2>2 DEF Program
    <3> QED BY <1>3, <3>1, <3>2, StagesInside
  <2>3. CASE filter = "notify"
    <3>1. NotifyStage(at', acc')
      BY <1>1, <1>4, <2>3 DEF NotifyStage
    <3>2. Program' = build_notify_filter(notify_fs_syscalls)
      BY <1>1, <2>3 DEF Program
    <3> QED BY <1>3, <3>1, <3>2, StagesInside
  <2> QED BY <1>2, <2>1, <2>2, <2>3 DEF TypeOK, JumpsLand
<1>6. TypeOK'
  BY <1>1, <1>2, <1>4, <1>5 DEF TypeOK, JumpsLand, planVars
<1>7. PlanInv'
  <2>1. phase \in Filtering
    BY <1>1 DEF Filtering
  <2> QED BY <1>1, <1>2, <2>1, PlanKept
<1>8. HandshakeInv'
  BY <1>1, <1>2 DEF HandshakeInv, PlainCall
<1>9. FilterInv'
  <2>1. FirstVerdict(call)' = FirstVerdict(call)
    BY <1>1 DEF FirstVerdict, Killed, Listed, planVars
  <2> QED BY <1>1, <1>2, <1>4, <2>1 DEF FilterInv
<1> QED BY <1>6, <1>7, <1>8, <1>9 DEF SeccompInv

(* The verdict kept of two, and the rank of each.                          *)
LEMMA Ranks ==
  /\ Rank("KILL") = 0 /\ Rank("ENOSYS") = 1 /\ Rank("NOTIFY") = 2 /\ Rank("ALLOW") = 3
  /\ \A c : FirstVerdict(c) \in {"KILL", "ENOSYS", "ALLOW"}
BY DEF Rank, FirstVerdict

LEMMA ReturnKeeps ==
  ASSUME SeccompAssumption, SeccompInv, Return
  PROVE  SeccompInv'
<1>1. TypeOK /\ PlanInv /\ HandshakeInv /\ FilterInv
  BY DEF SeccompInv
<1>2. /\ phase = "filter" /\ Ins.op = "ret"
      /\ verdict' = IF Rank(Ins.k) < Rank(verdict) THEN Ins.k ELSE verdict
      /\ UNCHANGED <<planVars, notify, whitelist, step, call>>
  BY DEF Return, Running
<1>3. /\ FirstVerdict(call)' = FirstVerdict(call)
      /\ BothVerdicts(call)' = BothVerdicts(call)
  BY <1>2 DEF BothVerdicts, FirstVerdict, Killed, Listed, Notified, planVars
<1>4. PlanInv'
  <2>1. phase \in Filtering
    BY <1>2 DEF Filtering
  <2> QED BY <1>1, <1>2, <2>1, PlanKept
<1>5. HandshakeInv'
  BY <1>1, <1>2 DEF HandshakeInv, PlainCall, Filtering
<1>6. CASE filter = "whitelist"
  <2>1. verdict' = FirstVerdict(call)
    <3>1. Ins.k = FirstVerdict(call) /\ verdict = "ALLOW"
      BY <1>1, <1>2, <1>6, WhitelistReturns DEF FilterInv
    <3> QED BY <1>2, <3>1, Ranks
  <2>2. verdict' \in Verdicts
    BY <2>1, Ranks DEF Verdicts
  <2>3. CASE notify
    <3>1. phase' = "filter" /\ filter' = "notify" /\ at' = 1 /\ acc' = 0
      BY <1>2, <1>6, <2>3 DEF Return
    <3>2. at' \in 1..Len(Program')
      <4>1. notify_fs_syscalls \in Seq(Nr)
        BY DEF SeccompAssumption
      <4>2. Program' = build_notify_filter(notify_fs_syscalls)
        BY <3>1 DEF Program
      <4>3. /\ Len(build_notify_filter(notify_fs_syscalls)) = Len(notify_fs_syscalls) + 6
            /\ Len(notify_fs_syscalls) \in Nat
        BY <4>1, NotifyParts
      <4> QED BY <3>1, <4>2, <4>3
    <3>3. TypeOK'
      BY <1>1, <1>2, <2>2, <3>1, <3>2 DEF TypeOK, JumpsLand, planVars
    <3>4. FilterInv'
      BY <1>2, <1>3, <2>1, <2>3, <3>1 DEF FilterInv, NotifyStage
    <3> QED BY <1>4, <1>5, <3>3, <3>4 DEF SeccompInv
  <2>4. CASE ~notify
    <3>1. phase' = "judged" /\ UNCHANGED <<filter, at, acc>>
      BY <1>2, <1>6, <2>4 DEF Return
    <3>2. TypeOK'
      BY <1>1, <1>2, <2>2, <3>1 DEF TypeOK, JumpsLand, planVars
    <3>3. BothVerdicts(call) = FirstVerdict(call)
      BY <2>4 DEF BothVerdicts, Notified
    <3>4. FilterInv'
      BY <1>3, <2>1, <3>1, <3>3 DEF FilterInv
    <3> QED BY <1>4, <1>5, <3>2, <3>4 DEF SeccompInv
  <2> QED BY <2>3, <2>4
<1>7. CASE filter = "notify"
  <2>1. /\ notify /\ NotifyStage(at, acc) /\ verdict = FirstVerdict(call)
        /\ phase' = "judged" /\ UNCHANGED <<filter, at, acc>>
    BY <1>1, <1>2, <1>7 DEF FilterInv, Return
  <2>2. /\ Ins.k \in {"ALLOW", "NOTIFY"}
        /\ call.arch = AUDIT_ARCH => (Ins.k = "NOTIFY" <=> call.nr \in ToSet(notify_fs_syscalls))
    BY <1>1, <1>2, <1>7, <2>1, NotifyReturns
  <2>3. verdict' = BothVerdicts(call)
    <3>1. CASE FirstVerdict(call) = "ALLOW"
      <4>1. call.arch = AUDIT_ARCH
        BY <3>1 DEF FirstVerdict, Killed
      <4>2. verdict' = IF Ins.k = "NOTIFY" THEN "NOTIFY" ELSE "ALLOW"
        BY <1>2, <2>1, <2>2, <3>1, Ranks
      <4> QED BY <2>1, <2>2, <3>1, <4>1, <4>2 DEF BothVerdicts, Notified
    <3>2. CASE FirstVerdict(call) # "ALLOW"
      <4>1. verdict' = FirstVerdict(call)
        BY <1>2, <2>1, <2>2, <3>2, Ranks
      <4> QED BY <3>2, <4>1 DEF BothVerdicts
    <3> QED BY <3>1, <3>2
  <2>4. verdict' \in Verdicts
    BY <2>3, Ranks DEF BothVerdicts, Verdicts
  <2>5. TypeOK'
    BY <1>1, <1>2, <2>1, <2>4 DEF TypeOK, JumpsLand, planVars
  <2>6. FilterInv'
    BY <1>3, <2>1, <2>3 DEF FilterInv
  <2> QED BY <1>4, <1>5, <2>5, <2>6 DEF SeccompInv
<1> QED BY <1>1, <1>6, <1>7 DEF TypeOK, JumpsLand

LEMMA DeliverKeeps ==
  ASSUME SeccompAssumption, SeccompInv, Deliver
  PROVE  SeccompInv'
<1>1. TypeOK /\ PlanInv /\ HandshakeInv /\ FilterInv
  BY DEF SeccompInv
<1>2. /\ phase = "judged" /\ phase' \in {"dead", "suspended", "run"}
      /\ phase' = "dead" => verdict = "KILL"
      /\ phase' = "suspended" => verdict = "NOTIFY"
      /\ phase' # "run" => step' = step
      /\ step' = step \/ (step < Len(Handshake) /\ step' = step + 1)
      /\ UNCHANGED <<planVars, notify, whitelist, runVars>>
  BY DEF Deliver
<1>3. TypeOK'
  <2>1. Len(Handshake) \in Nat /\ step \in 0..Len(Handshake)
    BY <1>1 DEF SeccompAssumption, TypeOK, JumpsLand
  <2>2. step' \in 0..Len(Handshake)
    BY <1>2, <2>1
  <2> QED BY <1>1, <1>2, <2>2 DEF TypeOK, JumpsLand, planVars, runVars
<1>4. PlanInv'
  <2>1. phase \in Filtering
    BY <1>2 DEF Filtering
  <2> QED BY <1>1, <1>2, <2>1, PlanKept
<1>5. HandshakeInv'
  BY <1>1, <1>2 DEF HandshakeInv, PlainCall, Filtering, runVars
<1>6. FilterInv'
  <2>1. BothVerdicts(call)' = BothVerdicts(call)
    BY <1>2 DEF BothVerdicts, FirstVerdict, Killed, Listed, Notified, planVars, runVars
  <2> QED BY <1>1, <1>2, <2>1 DEF FilterInv, runVars
<1> QED BY <1>3, <1>4, <1>5, <1>6 DEF SeccompInv

LEMMA StutterKeeps ==
  ASSUME SeccompInv, UNCHANGED vars
  PROVE  SeccompInv'
<1>1. /\ edits' = edits /\ allowed' = allowed /\ denied' = denied /\ asked' = asked
      /\ notify' = notify /\ phase' = phase /\ whitelist' = whitelist /\ step' = step
      /\ call' = call /\ filter' = filter /\ at' = at /\ acc' = acc /\ verdict' = verdict
  BY DEF vars, planVars, runVars
<1>2. Program' = Program
  BY <1>1 DEF Program
<1>3. TypeOK'
  BY <1>1, <1>2 DEF SeccompInv, TypeOK, JumpsLand
<1>4. PlanInv' /\ HandshakeInv'
  BY <1>1 DEF SeccompInv, PlanInv, HandshakeInv, Listed, PlainCall
<1>5. /\ FirstVerdict(call)' = FirstVerdict(call) /\ BothVerdicts(call)' = BothVerdicts(call)
      /\ WhitelistStage(at, acc)' = WhitelistStage(at, acc)
      /\ NotifyStage(at, acc)' = NotifyStage(at, acc)
  <2>1. FirstVerdict(call)' = FirstVerdict(call) /\ BothVerdicts(call)' = BothVerdicts(call)
    BY <1>1 DEF BothVerdicts, FirstVerdict, Killed, Listed, Notified
  <2>2. WhitelistStage(at, acc)' = WhitelistStage(at, acc)
    BY <1>1 DEF WhitelistStage, NewNamespace
  <2>3. NotifyStage(at, acc)' = NotifyStage(at, acc)
    BY <1>1 DEF NotifyStage
  <2> QED BY <2>1, <2>2, <2>3
<1>6. FilterInv'
  BY <1>1, <1>5 DEF SeccompInv, FilterInv
<1> QED BY <1>3, <1>4, <1>6 DEF SeccompInv

LEMMA NextKeeps ==
  ASSUME SeccompAssumption, SeccompInv, [Next]_vars
  PROVE  SeccompInv'
<1>1. CASE \E nr \in Nr : Allow(nr) \/ Deny(nr)
  BY <1>1, EditKeeps
<1>2. CASE apply_seccomp
  BY <1>2, ApplyKeeps
<1>3. CASE \E c \in Possible : Enter(c)
  BY <1>3, EnterKeeps
<1>4. CASE Load \/ And \/ Jump
  BY <1>4, RunKeeps
<1>5. CASE Return
  BY <1>5, ReturnKeeps
<1>6. CASE Deliver
  BY <1>6, DeliverKeeps
<1>7. CASE Over
  BY <1>7, StutterKeeps DEF Over
<1>8. CASE UNCHANGED vars
  BY <1>8, StutterKeeps
<1> QED BY <1>1, <1>2, <1>3, <1>4, <1>5, <1>6, <1>7, <1>8 DEF Next

---------------------------------------------------------------------------
(* The theorems.                                                           *)

(* Whatever the plan asks for and in whatever order its list comes, the    *)
(* two filters keep to the assertions of their lines.                      *)
THEOREM SeccompInvariance == Spec => []SeccompInv
<1>1. Init => SeccompInv
  BY InitInv, SeccompAssumption
<1>2. SeccompInv /\ [Next]_vars => SeccompInv'
  BY NextKeeps, SeccompAssumption
<1> QED BY <1>1, <1>2, PTL DEF Spec

(* Every jump of build_whitelist_filter and build_notify_filter lands on   *)
(* an instruction of its program, for every list that passes the size      *)
(* check: no offset is cut by its 8 bits, and no path runs off the end.    *)
THEOREM JumpsStayInside == Spec => []JumpsLand
<1>1. SeccompInv => JumpsLand
  BY DEF SeccompInv, TypeOK
<1> QED BY <1>1, SeccompInvariance, PTL

(* The variables of the module keep their types.                           *)
THEOREM SeccompTyped == Spec => []TypeOK
<1>1. SeccompInv => TypeOK
  BY DEF SeccompInv
<1> QED BY <1>1, SeccompInvariance, PTL

(* Leaving aside clone, clone3, socket and ioctl when the plan denies      *)
(* them, the verdict of the installed filters is the one that seccomp.rs   *)
(* and Syscalls document: killed exactly when forbidden, ENOSYS for        *)
(* clone3, to the supervisor when notified, and allowed otherwise.         *)
THEOREM VerdictsUnlessDenied == Spec => []VerdictUnlessDenied
<1>1. SeccompInv => VerdictUnlessDenied
  <2> SUFFICES ASSUME SeccompInv, phase = "judged", ~(call.nr \in Special /\ Denied(call.nr))
               PROVE  /\ verdict = "KILL"   <=> Forbidden(call)
                      /\ verdict = "ENOSYS" <=> ~Forbidden(call) /\ call.nr = SYS_clone3
                      /\ verdict = "NOTIFY" <=> ~Forbidden(call) /\ call.nr # SYS_clone3
                                                  /\ Notified(call)
    BY DEF VerdictUnlessDenied
  <2>1. verdict = BothVerdicts(call)
    BY DEF SeccompInv, FilterInv
  <2>2. Denied(call.nr) => call.nr \notin Special /\ ~Listed(call.nr)
    BY DEF Denied, Listed
  <2>3. Forbidden(call) <=> Killed(call)
    BY <2>2 DEF Forbidden, Killed, NewNamespace
  <2> QED BY <2>1, <2>3 DEF BothVerdicts, FirstVerdict
<1> QED BY <1>1, SeccompInvariance, PTL

(* Between apply_seccomp and execve the child is never killed or suspended *)
(* by its own filters, unless the plan denied the call it makes.           *)
THEOREM HandshakesPass == Spec => []HandshakePasses
<1>1. SeccompInv => HandshakePasses
  <2> SUFFICES ASSUME SeccompInv, phase \in {"dead", "suspended"}, step < Len(Handshake)
               PROVE  asked[Handshake[step + 1]] = "deny"
    BY DEF HandshakePasses
  <2> DEFINE nr == Handshake[step + 1]
  <2>1. step + 1 \in 1..Len(Handshake)
    BY SeccompAssumption DEF SeccompInv, TypeOK, JumpsLand, SeccompAssumption
  <2>2. nr \in Nr /\ nr \in ToSet(default_whitelist) /\ nr \notin ToSet(notify_fs_syscalls)
    BY <2>1, SeccompAssumption, HandshakeAssumption DEF SeccompAssumption, HandshakeAssumption
  <2> HIDE DEF nr
  <2>3. call = PlainCall(nr)
    BY DEF SeccompInv, HandshakeInv, Filtering, nr
  <2>4. call.arch = AUDIT_ARCH /\ call.nr = nr /\ call.arg0 = 0 /\ call.arg1 = 0
    BY <2>3 DEF PlainCall
  <2>5. verdict \in {"KILL", "NOTIFY"} /\ verdict = BothVerdicts(call)
    BY DEF SeccompInv, FilterInv
  <2>6. Killed(call)
    BY <2>2, <2>4, <2>5 DEF BothVerdicts, FirstVerdict, Notified
  <2>7. \A flag \in CloneNew : ~HasBit(call.arg0, flag)
    BY <2>4 DEF CloneNew, HasBit
  <2>8. ~Listed(nr)
    BY <2>4, <2>6, <2>7
       DEF Killed, NewNamespace, AF_NETLINK, SOCK_RAW, TIOCSTI, TIOCSETD, TIOCLINUX
  <2>9. asked[nr] \in {"default", "allow", "deny"}
    BY <2>2 DEF SeccompInv, TypeOK, JumpsLand
  <2> QED BY <2>2, <2>8, <2>9 DEF Listed, nr
<1> QED BY <1>1, SeccompInvariance, PTL

(* Syscalls::deny does what its documentation says of every syscall that   *)
(* build_whitelist_filter has no handler for: the call is killed.          *)
THEOREM DenyHoldsOffHandlers ==
  Spec => [](phase = "judged" /\ call.nr \notin Special /\ Denied(call.nr) => verdict = "KILL")
<1>1. SeccompInv =>
        (phase = "judged" /\ call.nr \notin Special /\ Denied(call.nr) => verdict = "KILL")
  BY DEF SeccompInv, FilterInv, BothVerdicts, FirstVerdict, Killed, Listed, Denied
<1> QED BY <1>1, SeccompInvariance, PTL

(* apply_seccomp casts the length of the filter to 16 bits: "Cast is safe  *)
(* (max whitelist is 200 + ~20 overhead)".  The overhead is 28.            *)
THEOREM FilterLengthBounded ==
  Spec => [](phase \in Filtering =>
               Len(build_whitelist_filter(whitelist)) <= MAX_WHITELIST_SIZE + 28)
<1>1. ASSUME SeccompInv, phase \in Filtering
      PROVE  Len(build_whitelist_filter(whitelist)) <= MAX_WHITELIST_SIZE + 28
  <2>1. /\ whitelist \in Seq(Nr) /\ Len(whitelist) <= MAX_WHITELIST_SIZE
        /\ Len(whitelist) \in Nat /\ MAX_WHITELIST_SIZE \in Nat
    <3>1. whitelist \in Seq(Nr) /\ Len(whitelist) <= MAX_WHITELIST_SIZE
      BY <1>1 DEF SeccompInv, TypeOK, JumpsLand, PlanInv
    <3> QED BY <3>1, SeccompAssumption DEF SeccompAssumption
  <2>2. Len(build_whitelist_filter(whitelist)) = Len(whitelist) + 28
    BY <2>1, WhitelistParts
  <2> QED BY <2>1, <2>2
<1> QED BY <1>1, SeccompInvariance, PTL
=============================================================================
