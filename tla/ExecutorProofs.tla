--------------------------- MODULE ExecutorProofs ---------------------------
(* Proofs about the Executor, for every value of its constants; and, last, *)
(* that it implements Sandbox.                                             *)
EXTENDS ExecutorPromise, TLAPS

(* Decoding a token gives back the sandbox id and the token type it was    *)
(* encoded from, and a token has one encoding only: executor.rs's shift    *)
(* and mask lose nothing.                                                  *)
THEOREM TokenRoundTrip ==
  /\ \A id \in Nat, type \in 0..3 :
        encode_token(id, type) \in Nat /\ decode_token(encode_token(id, type)) = <<id, type>>
  /\ \A token \in Nat : \A id, type \in Nat :
        decode_token(token) = <<id, type>> => token = encode_token(id, type)
<1>1. ASSUME NEW id \in Nat, NEW type \in 0..3
      PROVE  encode_token(id, type) \in Nat /\ decode_token(encode_token(id, type)) = <<id, type>>
  <2>1. (id * 4 + type) \div 4 = id /\ (id * 4 + type) % 4 = type
    OBVIOUS
  <2>2. QED BY <2>1 DEF encode_token, decode_token, TOKEN_TYPES
<1>2. ASSUME NEW token \in Nat, NEW id \in Nat, NEW type \in Nat,
             decode_token(token) = <<id, type>>
      PROVE  token = encode_token(id, type)
  <2>1. token \div 4 = id /\ token % 4 = type
    BY <1>2 DEF decode_token, TOKEN_TYPES
  <2>2. token = (token \div 4) * 4 + (token % 4)
    OBVIOUS
  <2>3. QED BY <2>1, <2>2 DEF encode_token, TOKEN_TYPES
<1>3. QED BY <1>1, <1>2

(* The three tokens of a sandbox are distinct from each other and from     *)
(* those of every other sandbox.                                           *)
LEMMA TokensDistinct ==
  /\ \A i \in Id : PidfdToken(i) \in Nat
  /\ \A i \in Id, s \in Stream : PipeToken(i, s) \in Nat
  /\ \A i, j \in Id : PidfdToken(i) = PidfdToken(j) => i = j
  /\ \A i, j \in Id, r, s \in Stream : PipeToken(i, s) = PipeToken(j, r) => i = j /\ s = r
  /\ \A i, j \in Id, s \in Stream : PidfdToken(i) # PipeToken(j, s)
BY ConstantsAssumption
   DEF PidfdToken, PipeToken, TokenType, TOKEN_TYPE_PIDFD, encode_token, TOKEN_TYPES, Id, Stream

(* Which sandboxes and pipes a batch of events names.                      *)
LEMMA BatchDecoded ==
  ASSUME TypeOK, NEW batch \in SUBSET epoll
  PROVE  /\ \A id \in sandboxes : id \in EndedIn(batch) <=> PidfdToken(id) \in batch
         /\ EndedIn(batch) \subseteq sandboxes
         /\ \A id \in sandboxes, s \in Stream :
               <<id, s>> \in ReadsOf(batch) <=> PipeToken(id, s) \in batch
         /\ ReadsOf(batch) \subseteq sandboxes \X Stream
<1>1. batch \subseteq Nat /\ \A id \in sandboxes : id \in Nat
  BY ConstantsAssumption DEF TypeOK, Id
<1>2. ASSUME NEW id \in sandboxes
      PROVE  id \in EndedIn(batch) <=> PidfdToken(id) \in batch
  <2>1. ASSUME NEW t \in batch, decode_token(t) = <<id, 0>> PROVE t = PidfdToken(id)
    BY <2>1, <1>1, TokenRoundTrip DEF PidfdToken, TOKEN_TYPE_PIDFD
  <2>2. decode_token(PidfdToken(id)) = <<id, 0>>
    BY <1>1, TokenRoundTrip DEF PidfdToken, TOKEN_TYPE_PIDFD
  <2>3. QED BY <2>1, <2>2 DEF EndedIn, TOKEN_TYPE_PIDFD
<1>3. ASSUME NEW id \in sandboxes, NEW s \in Stream
      PROVE  <<id, s>> \in ReadsOf(batch) <=> PipeToken(id, s) \in batch
  <2>0. TokenType(s) \in 0..3 /\ TokenType(s) \in Nat
    BY DEF TokenType
  <2>1. ASSUME NEW t \in batch, decode_token(t) = <<id, TokenType(s)>> PROVE t = PipeToken(id, s)
    BY <2>0, <2>1, <1>1, TokenRoundTrip DEF PipeToken
  <2>2. decode_token(PipeToken(id, s)) = <<id, TokenType(s)>>
    BY <1>1, <2>0, TokenRoundTrip DEF PipeToken
  <2>3. QED BY <2>1, <2>2 DEF ReadsOf
<1>4. QED BY <1>2, <1>3 DEF EndedIn, ReadsOf

(* Max and Min of a pair, as calculate_timeout and read() use them. *)
LEMMA PairBounds ==
  ASSUME NEW a \in Int, NEW b \in Int
  PROVE  /\ Min({a, b}) = IF a <= b THEN a ELSE b
         /\ Max({a, b}) = IF a <= b THEN b ELSE a
BY DEF Min, Max

(* They are numbers again. *)
LEMMA PairInNat == \A a, b \in Nat : Min({a, b}) \in Nat /\ Max({a, b}) \in Nat
BY DEF Min, Max

(* The larger of two is one of them. *)
LEMMA PairMember == \A a, b \in Nat : Max({a, b}) = a \/ Max({a, b}) = b
BY DEF Max

(* The smaller of two is at most the second. *)
LEMMA MinBound == \A a, b \in Nat : Min({a, b}) <= b
BY DEF Min

(* While the bound is not reached, next_id is an id. *)
LEMMA NextIdIsFree ==
  ASSUME TypeOK, next_id < MaxId
  PROVE  next_id \in Id
BY ConstantsAssumption DEF TypeOK, Id

(* A read() takes at least one unit of a non-empty pipe and never more     *)
(* than it holds.                                                          *)
LEMMA ReadLength ==
  ASSUME Inductive, NEW i \in Id, NEW r \in Stream, pipe[i][r] > 0
  PROVE  read_len(i, r) \in Nat /\ read_len(i, r) > 0 /\ read_len(i, r) <= pipe[i][r]
<1>1. pipe[i][r] \in Nat /\ BufLen \in Nat /\ BufLen > 0
  BY ConstantsAssumption DEF Inductive, TypeOK
<1>2. QED BY <1>1, PairBounds DEF read_len

(* Collecting more output never brings a sandbox back within its limit.    *)
LEMMA OverLimitMonotone ==
  ASSUME Inductive, NEW i \in Id, NEW r \in Stream, ReadData(i, r), over_limit(output[i])
  PROVE  over_limit(output'[i])
<1>1. read_len(i, r) \in Nat
  BY ReadLength DEF ReadData
<1>2. output[i] \in [Stream -> Nat] /\ output'[i] = [output[i] EXCEPT ![r] = @ + read_len(i, r)]
  BY DEF ReadData, Inductive, TypeOK
<1>3. "stdout" \in Stream /\ "stderr" \in Stream
  BY DEF Stream
<1>4. /\ output[i]["stdout"] \in Nat /\ output[i]["stderr"] \in Nat
      /\ output'[i]["stdout"] \in Nat /\ output'[i]["stdout"] >= output[i]["stdout"]
      /\ output'[i]["stderr"] \in Nat /\ output'[i]["stderr"] >= output[i]["stderr"]
  BY <1>1, <1>2, <1>3
<1>5. QED BY <1>4, ConstantsAssumption DEF over_limit, total

(* The call of spawn preserves the invariant. *)
LEMMA SpawnStartInductive ==
  ASSUME Inductive, SpawnStart
  PROVE  Inductive'
<1>1. TypeOK'
  BY ConstantsAssumption DEF SpawnStart, Inductive, TypeOK,
     execVars, callVars, kernVars, userVars
<1>2. Fresh'
  BY ConstantsAssumption DEF SpawnStart, Inductive, TypeOK, Fresh,
     execVars, callVars, kernVars, userVars
<1>3. CallState'
  BY ConstantsAssumption DEF SpawnStart, Inductive, TypeOK, CallState,
     execVars, callVars, kernVars, userVars
<1>4. Conservation'
  BY ConstantsAssumption DEF SpawnStart, Inductive, TypeOK, Conservation,
     execVars, callVars, kernVars, userVars
<1>5. PidfdSound'
  BY ConstantsAssumption DEF SpawnStart, Inductive, TypeOK, PidfdSound,
     execVars, callVars, kernVars, userVars
<1>6. NoLostWakeup'
  BY ConstantsAssumption DEF SpawnStart, Inductive, TypeOK, NoLostWakeup, PipeWakeup,
     PidfdWakeup, over_limit, total,
     execVars, callVars, kernVars, userVars
<1>7. OverLimitKilled'
  BY ConstantsAssumption DEF SpawnStart, Inductive, TypeOK, OverLimitKilled, over_limit, total,
     execVars, callVars, kernVars, userVars
<1>8. Lifecycle'
  BY ConstantsAssumption DEF SpawnStart, Inductive, TypeOK, Lifecycle, LifecycleOf,
     execVars, callVars, kernVars, userVars
<1>9. LostOnlyAfterDeadline'
  BY ConstantsAssumption DEF SpawnStart, Inductive, TypeOK, LostOnlyAfterDeadline,
     execVars, callVars, kernVars, userVars
<1>10. ReportTruthful'
  BY ConstantsAssumption DEF SpawnStart, Inductive, TypeOK, ReportTruthful, over_limit, total,
     execVars, callVars, kernVars, userVars
<1>11. QED BY <1>1, <1>2, <1>3, <1>4, <1>5, <1>6, <1>7, <1>8, <1>9, <1>10 DEF Inductive

(* A successful spawn preserves the invariant. *)
LEMMA SpawnInductive ==
  ASSUME Inductive, NEW t \in Timeouts, Spawn(t)
  PROVE  Inductive'
<1>1. TypeOK'
  <2>1. next_id \in Id /\ t \in Nat /\ now \in Nat
    BY NextIdIsFree, ConstantsAssumption DEF Spawn, Inductive, TypeOK
  <2>2. next_id' \in 0..MaxId /\ sandboxes' \in SUBSET Id /\ tmpdirs' \in SUBSET Id
    BY <2>1, ConstantsAssumption DEF Spawn, Inductive, TypeOK
  <2>3. deadline' \in [Id -> Nat] /\ stdin_closes' \in [Id -> Nat] /\ stdin_fd' \in [Id -> BOOLEAN]
    BY <2>1 DEF Spawn, Inductive, TypeOK
  <2>4. proc' \in [Id -> {"none", "orphan", "running", "zombie", "reaped", "lost"}]
    BY <2>1 DEF Spawn, Inductive, TypeOK
  <2>5. writers' \in [Id -> [Stream -> SUBSET Process]]
    BY <2>1 DEF Spawn, Inductive, TypeOK, Process
  <2>6. QED BY <2>2, <2>3, <2>4, <2>5 DEF Spawn, Inductive, TypeOK, callVars
<1>2. Fresh'
  <2>1. next_id \in Id /\ t \in Nat
    BY NextIdIsFree, ConstantsAssumption DEF Spawn, Inductive, TypeOK
  <2>2. \A id \in Id : id \in Nat
    BY ConstantsAssumption DEF Id
  <2>3. QED
    BY <2>1, <2>2, ConstantsAssumption DEF Spawn, Inductive, TypeOK, Fresh, Lifecycle, LifecycleOf,
       execVars, callVars, kernVars, userVars
<1>3. CallState'
  <2>1. pc' = "idle" /\ reading' = {} /\ to_remove' = {}
    BY DEF Spawn, Spawning, Inductive, CallState
  <2>2. QED BY <2>1 DEF CallState
<1>4. Conservation'
  <2>1. next_id \in Id /\ t \in Nat
    BY NextIdIsFree, ConstantsAssumption DEF Spawn, Inductive, TypeOK
  <2>2. \A id \in Id : id \in Nat
    BY ConstantsAssumption DEF Id
  <2>3. QED
    BY <2>1, <2>2, ConstantsAssumption DEF Spawn, Inductive, TypeOK, Conservation, Fresh,
       execVars, callVars, kernVars, userVars
<1>5. PidfdSound'
  <2>1. next_id \in Id /\ t \in Nat
    BY NextIdIsFree, ConstantsAssumption DEF Spawn, Inductive, TypeOK
  <2>2. \A id \in Id : id \in Nat
    BY ConstantsAssumption DEF Id
  <2>3. QED
    BY <2>1, <2>2, ConstantsAssumption DEF Spawn, Inductive, TypeOK, PidfdSound, Fresh,
       execVars, callVars, kernVars, userVars
<1>6. NoLostWakeup'
  <2>1. next_id \in Id
    BY NextIdIsFree DEF Spawn, Inductive
  <2>2. \A s \in Stream : pipe[next_id][s] = 0 /\ writers'[next_id][s] # {} /\ proc'[next_id] = "running"
    BY <2>1, ConstantsAssumption DEF Spawn, Inductive, TypeOK, Fresh, Id
  <2>3. \A id \in Id : id # next_id => proc'[id] = proc[id] /\ writers'[id] = writers[id]
    BY <2>1 DEF Spawn, Inductive, TypeOK
  <2>4. "stdout" \in Stream
    BY DEF Stream
  <2>5. ASSUME NEW id \in sandboxes' PROVE PidfdWakeup(id)' /\ \A s \in Stream : PipeWakeup(id, s)'
    <3>1. CASE id = next_id
      BY <2>2, <2>4, <3>1 DEF Spawn, PidfdWakeup, PipeWakeup
    <3>2. CASE id # next_id
      <4>1. id \in sandboxes /\ id \in Id
        BY <3>2 DEF Spawn, Inductive, TypeOK
      <4>2. QED BY <2>3, <3>2, <4>1 DEF Spawn, Inductive, NoLostWakeup, PidfdWakeup, PipeWakeup,
         callVars
    <3>3. QED BY <3>1, <3>2
  <2>6. QED BY <2>5 DEF NoLostWakeup
<1>7. OverLimitKilled'
  BY ConstantsAssumption DEF Spawn, Inductive, TypeOK, OverLimitKilled, over_limit, total,
     execVars, callVars, kernVars, userVars
<1>8. Lifecycle'
  <2>1. next_id \in Id /\ next_id \in Nat
    BY NextIdIsFree, ConstantsAssumption DEF Spawn, Inductive, TypeOK
  <2>2. report[next_id] = "none" /\ proc'[next_id] = "running"
        /\ stdin_closes'[next_id] = IF stdin_fd'[next_id] THEN 0 ELSE 1
    <3>1. report[next_id] = "none" /\ proc'[next_id] = "running"
      BY <2>1 DEF Spawn, Inductive, TypeOK, Fresh
    <3>2. stdin_fd'[next_id] = (pc = "spawn") /\ stdin_closes'[next_id] = IF pc = "spawn" THEN 0 ELSE 1
      BY <2>1 DEF Spawn, Inductive, TypeOK
    <3>3. CASE pc # "spawn"
      BY <3>1, <3>2, <3>3
    <3>4. CASE pc = "spawn"
      BY <3>1, <3>2, <3>4
    <3>5. QED BY <3>3, <3>4
  <2>3. ASSUME NEW id \in Id, id # next_id
        PROVE  /\ (id \in sandboxes') = (id \in sandboxes) /\ (id \in tmpdirs') = (id \in tmpdirs)
               /\ proc'[id] = proc[id] /\ stdin_fd'[id] = stdin_fd[id]
               /\ stdin_closes'[id] = stdin_closes[id]
    BY <2>1, <2>3 DEF Spawn, Inductive, TypeOK
  <2>4. \A id \in Id : id \in Nat
    BY DEF Id
  <2>5. next_id \in sandboxes' /\ next_id \in tmpdirs' /\ next_id' = next_id + 1 /\ report' = report
    BY DEF Spawn
  <2>6. ASSUME NEW id \in Id, id = next_id PROVE LifecycleOf(id)'
    BY <2>1, <2>2, <2>5, <2>6 DEF LifecycleOf
  <2>7. ASSUME NEW id \in Id, id # next_id PROVE LifecycleOf(id)'
    <3>1. LifecycleOf(id) /\ id \in Nat
      BY <2>4 DEF Inductive, Lifecycle, LifecycleOf
    <3>2. QED BY <2>1, <2>3, <2>5, <2>7, <3>1 DEF LifecycleOf
  <2>8. QED BY <2>6, <2>7 DEF Lifecycle, LifecycleOf
<1>9. LostOnlyAfterDeadline'
  BY ConstantsAssumption DEF Spawn, Inductive, TypeOK, LostOnlyAfterDeadline,
     execVars, callVars, kernVars, userVars
<1>10. ReportTruthful'
  <2>1. next_id \in Id /\ t \in Nat
    BY NextIdIsFree, ConstantsAssumption DEF Spawn, Inductive, TypeOK
  <2>2. \A id \in Id : id \in Nat
    BY ConstantsAssumption DEF Id
  <2>3. QED
    BY <2>1, <2>2, ConstantsAssumption DEF Spawn, Inductive, TypeOK, ReportTruthful, Fresh,
       over_limit, total, Lifecycle, LifecycleOf,
       execVars, callVars, kernVars, userVars
<1>11. QED BY <1>1, <1>2, <1>3, <1>4, <1>5, <1>6, <1>7, <1>8, <1>9, <1>10 DEF Inductive

(* A failed spawn preserves the invariant. *)
LEMMA SpawnErrorInductive ==
  ASSUME Inductive, SpawnError
  PROVE  Inductive'
<1>1. TypeOK'
  <2>1. next_id \in Id
    BY NextIdIsFree DEF SpawnError, Inductive, TypeOK
  <2>2. \A id \in Id : id \in Nat
    BY ConstantsAssumption DEF Id
  <2>3. QED
    BY <2>1, <2>2, ConstantsAssumption DEF SpawnError, Inductive, TypeOK,
       execVars, callVars, kernVars, userVars
<1>2. Fresh'
  <2>1. next_id \in Id
    BY NextIdIsFree DEF SpawnError, Inductive, TypeOK
  <2>2. \A id \in Id : id \in Nat
    BY ConstantsAssumption DEF Id
  <2>3. QED
    BY <2>1, <2>2, ConstantsAssumption DEF SpawnError, Inductive, TypeOK, Fresh, Lifecycle,
       LifecycleOf,
       execVars, callVars, kernVars, userVars
<1>3. CallState'
  <2>1. pc' = "idle" /\ reading' = {} /\ to_remove' = {}
    BY DEF SpawnError, Spawning, Inductive, CallState
  <2>2. QED BY <2>1 DEF CallState
<1>4. Conservation'
  BY ConstantsAssumption DEF SpawnError, Inductive, TypeOK, Conservation,
     execVars, callVars, kernVars, userVars
<1>5. PidfdSound'
  <2>1. next_id \in Id
    BY NextIdIsFree DEF SpawnError, Inductive, TypeOK
  <2>2. \A id \in Id : id \in Nat
    BY ConstantsAssumption DEF Id
  <2>3. QED
    BY <2>1, <2>2, ConstantsAssumption DEF SpawnError, Inductive, TypeOK, PidfdSound, Fresh,
       execVars, callVars, kernVars, userVars
<1>6. NoLostWakeup'
  BY ConstantsAssumption DEF SpawnError, Inductive, TypeOK, NoLostWakeup, PipeWakeup,
     PidfdWakeup, over_limit, total,
     execVars, callVars, kernVars, userVars
<1>7. OverLimitKilled'
  BY ConstantsAssumption DEF SpawnError, Inductive, TypeOK, OverLimitKilled, over_limit, total,
     execVars, callVars, kernVars, userVars
<1>8. Lifecycle'
  <2>1. next_id \in Id
    BY NextIdIsFree DEF SpawnError, Inductive, TypeOK
  <2>2. \A id \in Id : id \in Nat
    BY ConstantsAssumption DEF Id
  <2>3. QED
    BY <2>1, <2>2, ConstantsAssumption DEF SpawnError, Inductive, TypeOK, Lifecycle, LifecycleOf,
       Fresh,
       execVars, callVars, kernVars, userVars
<1>9. LostOnlyAfterDeadline'
  BY ConstantsAssumption DEF SpawnError, Inductive, TypeOK, LostOnlyAfterDeadline,
     execVars, callVars, kernVars, userVars
<1>10. ReportTruthful'
  BY ConstantsAssumption DEF SpawnError, Inductive, TypeOK, ReportTruthful, over_limit, total,
     execVars, callVars, kernVars, userVars
<1>11. QED BY <1>1, <1>2, <1>3, <1>4, <1>5, <1>6, <1>7, <1>8, <1>9, <1>10 DEF Inductive

(* kill preserves the invariant. *)
LEMMA KillInductive ==
  ASSUME Inductive, NEW i \in Id, Kill(i)
  PROVE  Inductive'
<1>1. TypeOK'
  BY DEF Kill, SendKill, Inductive, TypeOK, Reason,
     execVars, callVars, kernVars, userVars
<1>2. Fresh'
  <2>1. \A id \in Id : id >= next_id => id \notin sandboxes
    BY ConstantsAssumption DEF Inductive, TypeOK, Lifecycle, LifecycleOf, Id
  <2>2. QED
    BY <2>1 DEF Kill, SendKill, Inductive, Fresh,
       execVars, callVars, kernVars, userVars
<1>3. CallState'
  BY ConstantsAssumption DEF Kill, SendKill, Inductive, TypeOK, CallState,
     execVars, callVars, kernVars, userVars
<1>4. Conservation'
  BY ConstantsAssumption DEF Kill, SendKill, Inductive, TypeOK, Conservation,
     execVars, callVars, kernVars, userVars
<1>5. PidfdSound'
  BY ConstantsAssumption DEF Kill, SendKill, Inductive, TypeOK, PidfdSound,
     execVars, callVars, kernVars, userVars
<1>6. NoLostWakeup'
  BY ConstantsAssumption DEF Kill, SendKill, Inductive, TypeOK, NoLostWakeup, PipeWakeup,
     PidfdWakeup, over_limit, total,
     execVars, callVars, kernVars, userVars
<1>7. OverLimitKilled'
  BY ConstantsAssumption DEF Kill, SendKill, Inductive, TypeOK, OverLimitKilled, over_limit, total,
     execVars, callVars, kernVars, userVars
<1>8. Lifecycle'
  BY ConstantsAssumption DEF Kill, SendKill, Inductive, TypeOK, Lifecycle, LifecycleOf,
     execVars, callVars, kernVars, userVars
<1>9. LostOnlyAfterDeadline'
  BY ConstantsAssumption DEF Kill, SendKill, Inductive, TypeOK, LostOnlyAfterDeadline,
     execVars, callVars, kernVars, userVars
<1>10. ReportTruthful'
  BY ConstantsAssumption DEF Kill, SendKill, Inductive, TypeOK, ReportTruthful, over_limit, total,
     execVars, callVars, kernVars, userVars
<1>11. QED BY <1>1, <1>2, <1>3, <1>4, <1>5, <1>6, <1>7, <1>8, <1>9, <1>10 DEF Inductive

(* A write_stdin that blocks preserves the invariant. *)
LEMMA WriteStdinBlockInductive ==
  ASSUME Inductive, NEW i \in Id, WriteStdinBlock(i)
  PROVE  Inductive'
<1>1. TypeOK'
  BY ConstantsAssumption DEF WriteStdinBlock, Inductive, TypeOK,
     execVars, callVars, kernVars, userVars
<1>2. Fresh'
  BY ConstantsAssumption DEF WriteStdinBlock, Inductive, TypeOK, Fresh,
     execVars, callVars, kernVars, userVars
<1>3. CallState'
  BY ConstantsAssumption DEF WriteStdinBlock, Inductive, TypeOK, CallState,
     execVars, callVars, kernVars, userVars
<1>4. Conservation'
  BY ConstantsAssumption DEF WriteStdinBlock, Inductive, TypeOK, Conservation,
     execVars, callVars, kernVars, userVars
<1>5. PidfdSound'
  BY ConstantsAssumption DEF WriteStdinBlock, Inductive, TypeOK, PidfdSound,
     execVars, callVars, kernVars, userVars
<1>6. NoLostWakeup'
  BY ConstantsAssumption DEF WriteStdinBlock, Inductive, TypeOK, NoLostWakeup, PipeWakeup,
     PidfdWakeup, over_limit, total,
     execVars, callVars, kernVars, userVars
<1>7. OverLimitKilled'
  BY ConstantsAssumption DEF WriteStdinBlock, Inductive, TypeOK, OverLimitKilled, over_limit, total,
     execVars, callVars, kernVars, userVars
<1>8. Lifecycle'
  BY ConstantsAssumption DEF WriteStdinBlock, Inductive, TypeOK, Lifecycle, LifecycleOf,
     execVars, callVars, kernVars, userVars
<1>9. LostOnlyAfterDeadline'
  BY ConstantsAssumption DEF WriteStdinBlock, Inductive, TypeOK, LostOnlyAfterDeadline,
     execVars, callVars, kernVars, userVars
<1>10. ReportTruthful'
  BY ConstantsAssumption DEF WriteStdinBlock, Inductive, TypeOK, ReportTruthful, over_limit, total,
     execVars, callVars, kernVars, userVars
<1>11. QED BY <1>1, <1>2, <1>3, <1>4, <1>5, <1>6, <1>7, <1>8, <1>9, <1>10 DEF Inductive

(* close_stdin preserves the invariant. *)
LEMMA CloseStdinInductive ==
  ASSUME Inductive, NEW i \in Id, CloseStdin(i)
  PROVE  Inductive'
<1>1. TypeOK'
  BY ConstantsAssumption DEF CloseStdin, Inductive, TypeOK,
     execVars, callVars, kernVars, userVars
<1>2. Fresh'
  BY ConstantsAssumption DEF CloseStdin, Inductive, TypeOK, Fresh,
     execVars, callVars, kernVars, userVars
<1>3. CallState'
  BY ConstantsAssumption DEF CloseStdin, Inductive, TypeOK, CallState,
     execVars, callVars, kernVars, userVars
<1>4. Conservation'
  BY ConstantsAssumption DEF CloseStdin, Inductive, TypeOK, Conservation,
     execVars, callVars, kernVars, userVars
<1>5. PidfdSound'
  BY ConstantsAssumption DEF CloseStdin, Inductive, TypeOK, PidfdSound,
     execVars, callVars, kernVars, userVars
<1>6. NoLostWakeup'
  BY ConstantsAssumption DEF CloseStdin, Inductive, TypeOK, NoLostWakeup, PipeWakeup,
     PidfdWakeup, over_limit, total,
     execVars, callVars, kernVars, userVars
<1>7. OverLimitKilled'
  BY ConstantsAssumption DEF CloseStdin, Inductive, TypeOK, OverLimitKilled, over_limit, total,
     execVars, callVars, kernVars, userVars
<1>8. Lifecycle'
  BY ConstantsAssumption DEF CloseStdin, Inductive, TypeOK, Lifecycle, LifecycleOf,
     execVars, callVars, kernVars, userVars
<1>9. LostOnlyAfterDeadline'
  BY ConstantsAssumption DEF CloseStdin, Inductive, TypeOK, LostOnlyAfterDeadline,
     execVars, callVars, kernVars, userVars
<1>10. ReportTruthful'
  BY ConstantsAssumption DEF CloseStdin, Inductive, TypeOK, ReportTruthful, over_limit, total,
     execVars, callVars, kernVars, userVars
<1>11. QED BY <1>1, <1>2, <1>3, <1>4, <1>5, <1>6, <1>7, <1>8, <1>9, <1>10 DEF Inductive

(* Going to sleep in epoll_wait preserves the invariant. *)
LEMMA PollStartInductive ==
  ASSUME Inductive, PollStart
  PROVE  Inductive'
<1>1. TypeOK'
  <2>1. PICK id \in sandboxes :
           \/ wake_at' = Max({now, deadline[id]})
           \/ \E t \in PollTimeouts : wake_at' = Min({now + t, Max({now, deadline[id]})})
    BY DEF PollStart
  <2>2. now \in Nat /\ deadline[id] \in Nat
    BY ConstantsAssumption DEF Inductive, TypeOK
  <2>3. Max({now, deadline[id]}) \in Nat
    BY <2>2, PairInNat
  <2>4. \A t \in PollTimeouts : Min({now + t, Max({now, deadline[id]})}) \in Nat
    <3>1. ASSUME NEW t \in PollTimeouts, NEW m \in Nat PROVE Min({now + t, m}) \in Nat
      <4>1. now + t \in Nat
        BY <2>2, ConstantsAssumption
      <4>2. QED BY <4>1, PairInNat
    <3>2. QED BY <2>3, <3>1
  <2>5. wake_at' \in Nat
    BY <2>1, <2>3, <2>4
  <2>6. QED
    BY <2>5 DEF PollStart, Inductive, TypeOK,
       execVars, callVars, kernVars, userVars
<1>2. Fresh'
  BY PairBounds, ConstantsAssumption DEF PollStart, Inductive, TypeOK, Fresh,
     execVars, callVars, kernVars, userVars
<1>3. CallState'
  BY PairBounds, ConstantsAssumption DEF PollStart, Inductive, TypeOK, CallState,
     execVars, callVars, kernVars, userVars
<1>4. Conservation'
  BY PairBounds, ConstantsAssumption DEF PollStart, Inductive, TypeOK, Conservation,
     execVars, callVars, kernVars, userVars
<1>5. PidfdSound'
  BY PairBounds, ConstantsAssumption DEF PollStart, Inductive, TypeOK, PidfdSound,
     execVars, callVars, kernVars, userVars
<1>6. NoLostWakeup'
  BY PairBounds, ConstantsAssumption DEF PollStart, Inductive, TypeOK, NoLostWakeup, PipeWakeup,
     PidfdWakeup, over_limit, total,
     execVars, callVars, kernVars, userVars
<1>7. OverLimitKilled'
  BY PairBounds, ConstantsAssumption DEF PollStart, Inductive, TypeOK, OverLimitKilled,
     over_limit, total,
     execVars, callVars, kernVars, userVars
<1>8. Lifecycle'
  BY PairBounds, ConstantsAssumption DEF PollStart, Inductive, TypeOK, Lifecycle, LifecycleOf,
     execVars, callVars, kernVars, userVars
<1>9. LostOnlyAfterDeadline'
  BY PairBounds, ConstantsAssumption DEF PollStart, Inductive, TypeOK, LostOnlyAfterDeadline,
     execVars, callVars, kernVars, userVars
<1>10. ReportTruthful'
  BY PairBounds, ConstantsAssumption DEF PollStart, Inductive, TypeOK, ReportTruthful,
     over_limit, total,
     execVars, callVars, kernVars, userVars
<1>11. QED BY <1>1, <1>2, <1>3, <1>4, <1>5, <1>6, <1>7, <1>8, <1>9, <1>10 DEF Inductive

(* A batch of events preserves the invariant. *)
LEMMA PollReturnInductive ==
  ASSUME Inductive, NEW batch \in SUBSET epoll, PollReturn(batch)
  PROVE  Inductive'
<1>1. TypeOK'
  <2>1. reading' \in SUBSET (sandboxes \X Stream)
    BY BatchDecoded DEF PollReturn, Inductive
  <2>2. current' = {}
    BY DEF PollReturn, Inductive, TypeOK, CallState
  <2>3. pidfd_ready' \in [Id -> BOOLEAN]
    BY DEF PollReturn
  <2>4. epoll' \in SUBSET Nat /\ pc' \in {"idle", "stdin", "wait", "read", "check", "complete"}
    BY DEF PollReturn, Inductive, TypeOK
  <2>5. QED
    BY <2>1, <2>2, <2>3, <2>4 DEF PollReturn, Inductive, TypeOK,
       execVars, callVars, kernVars, userVars
<1>2. Fresh'
  <2>1. \A id \in Id : id >= next_id => id \notin EndedIn(batch)
    <3>1. EndedIn(batch) \subseteq sandboxes
      BY BatchDecoded DEF Inductive
    <3>2. QED BY <3>1, ConstantsAssumption DEF Inductive, TypeOK, Lifecycle, LifecycleOf, Id
  <2>2. QED
    BY <2>1 DEF PollReturn, Inductive, Fresh,
       execVars, callVars, kernVars, userVars
<1>3. CallState'
  BY BatchDecoded, ConstantsAssumption DEF PollReturn, Inductive, TypeOK, CallState,
     execVars, callVars, kernVars, userVars
<1>4. Conservation'
  BY BatchDecoded, ConstantsAssumption DEF PollReturn, Inductive, TypeOK, Conservation,
     execVars, callVars, kernVars, userVars
<1>5. PidfdSound'
  BY TokensDistinct, BatchDecoded, ConstantsAssumption DEF PollReturn, Inductive, TypeOK,
     PidfdSound,
     execVars, callVars, kernVars, userVars
<1>6. NoLostWakeup'
  <2>1. reading = {}
    BY DEF PollReturn, Inductive, CallState
  <2>2. ASSUME NEW id \in sandboxes PROVE PidfdWakeup(id)'
    BY BatchDecoded DEF PollReturn, Inductive, TypeOK, NoLostWakeup, PidfdWakeup
  <2>3. ASSUME NEW id \in sandboxes, NEW s \in Stream PROVE PipeWakeup(id, s)'
    BY <2>1, BatchDecoded DEF PollReturn, Inductive, NoLostWakeup, PipeWakeup
  <2>4. QED BY <2>2, <2>3 DEF PollReturn, NoLostWakeup
<1>7. OverLimitKilled'
  BY BatchDecoded, ConstantsAssumption DEF PollReturn, Inductive, TypeOK, OverLimitKilled,
     over_limit, total,
     execVars, callVars, kernVars, userVars
<1>8. Lifecycle'
  BY BatchDecoded, ConstantsAssumption DEF PollReturn, Inductive, TypeOK, Lifecycle, LifecycleOf,
     execVars, callVars, kernVars, userVars
<1>9. LostOnlyAfterDeadline'
  BY BatchDecoded, ConstantsAssumption DEF PollReturn, Inductive, TypeOK, LostOnlyAfterDeadline,
     execVars, callVars, kernVars, userVars
<1>10. ReportTruthful'
  BY BatchDecoded, ConstantsAssumption DEF PollReturn, Inductive, TypeOK, ReportTruthful,
     over_limit, total,
     execVars, callVars, kernVars, userVars
<1>11. QED BY <1>1, <1>2, <1>3, <1>4, <1>5, <1>6, <1>7, <1>8, <1>9, <1>10 DEF Inductive

(* A read() that would block preserves the invariant. *)
LEMMA ReadWouldBlockInductive ==
  ASSUME Inductive, NEW i \in Id, NEW r \in Stream, ReadWouldBlock(i, r)
  PROVE  Inductive'
<1>1. TypeOK'
  BY ConstantsAssumption DEF ReadWouldBlock, Reading, Break, Inductive, TypeOK,
     execVars, callVars, kernVars, userVars
<1>2. Fresh'
  BY ConstantsAssumption DEF ReadWouldBlock, Reading, Break, Inductive, TypeOK, Fresh,
     execVars, callVars, kernVars, userVars
<1>3. CallState'
  BY ConstantsAssumption DEF ReadWouldBlock, Reading, Break, Inductive, TypeOK, CallState,
     execVars, callVars, kernVars, userVars
<1>4. Conservation'
  BY ConstantsAssumption DEF ReadWouldBlock, Reading, Break, Inductive, TypeOK, Conservation,
     execVars, callVars, kernVars, userVars
<1>5. PidfdSound'
  BY ConstantsAssumption DEF ReadWouldBlock, Reading, Break, Inductive, TypeOK, PidfdSound,
     execVars, callVars, kernVars, userVars
<1>6. NoLostWakeup'
  BY ConstantsAssumption DEF ReadWouldBlock, Reading, Break, Inductive, TypeOK, NoLostWakeup,
     PipeWakeup, PidfdWakeup, over_limit, total,
     execVars, callVars, kernVars, userVars
<1>7. OverLimitKilled'
  BY ConstantsAssumption DEF ReadWouldBlock, Reading, Break, Inductive, TypeOK, OverLimitKilled,
     over_limit, total,
     execVars, callVars, kernVars, userVars
<1>8. Lifecycle'
  BY ConstantsAssumption DEF ReadWouldBlock, Reading, Break, Inductive, TypeOK, Lifecycle,
     LifecycleOf,
     execVars, callVars, kernVars, userVars
<1>9. LostOnlyAfterDeadline'
  BY ConstantsAssumption DEF ReadWouldBlock, Reading, Break, Inductive, TypeOK,
     LostOnlyAfterDeadline,
     execVars, callVars, kernVars, userVars
<1>10. ReportTruthful'
  BY ConstantsAssumption DEF ReadWouldBlock, Reading, Break, Inductive, TypeOK, ReportTruthful,
     over_limit, total,
     execVars, callVars, kernVars, userVars
<1>11. QED BY <1>1, <1>2, <1>3, <1>4, <1>5, <1>6, <1>7, <1>8, <1>9, <1>10 DEF Inductive

(* A read() at the end of a pipe preserves the invariant. *)
LEMMA ReadEofInductive ==
  ASSUME Inductive, NEW i \in Id, NEW r \in Stream, ReadEof(i, r)
  PROVE  Inductive'
<1>1. TypeOK'
  BY ConstantsAssumption DEF ReadEof, Reading, Break, Inductive, TypeOK,
     execVars, callVars, kernVars, userVars
<1>2. Fresh'
  <2>1. i \in sandboxes /\ ~(i >= next_id)
    BY ConstantsAssumption DEF ReadEof, Reading, Inductive, TypeOK, Lifecycle, LifecycleOf, Id
  <2>2. QED
    BY <2>1 DEF ReadEof, Break, Inductive, TypeOK, Fresh,
       execVars, callVars, kernVars, userVars
<1>3. CallState'
  BY ConstantsAssumption DEF ReadEof, Reading, Break, Inductive, TypeOK, CallState,
     execVars, callVars, kernVars, userVars
<1>4. Conservation'
  BY ConstantsAssumption DEF ReadEof, Reading, Break, Inductive, TypeOK, Conservation,
     execVars, callVars, kernVars, userVars
<1>5. PidfdSound'
  BY ConstantsAssumption DEF ReadEof, Reading, Break, Inductive, TypeOK, PidfdSound,
     execVars, callVars, kernVars, userVars
<1>6. NoLostWakeup'
  BY ConstantsAssumption DEF ReadEof, Reading, Break, Inductive, TypeOK, NoLostWakeup,
     PipeWakeup, PidfdWakeup, over_limit, total,
     execVars, callVars, kernVars, userVars
<1>7. OverLimitKilled'
  BY ConstantsAssumption DEF ReadEof, Reading, Break, Inductive, TypeOK, OverLimitKilled,
     over_limit, total,
     execVars, callVars, kernVars, userVars
<1>8. Lifecycle'
  BY ConstantsAssumption DEF ReadEof, Reading, Break, Inductive, TypeOK, Lifecycle, LifecycleOf,
     execVars, callVars, kernVars, userVars
<1>9. LostOnlyAfterDeadline'
  BY ConstantsAssumption DEF ReadEof, Reading, Break, Inductive, TypeOK, LostOnlyAfterDeadline,
     execVars, callVars, kernVars, userVars
<1>10. ReportTruthful'
  BY ConstantsAssumption DEF ReadEof, Reading, Break, Inductive, TypeOK, ReportTruthful,
     over_limit, total,
     execVars, callVars, kernVars, userVars
<1>11. QED BY <1>1, <1>2, <1>3, <1>4, <1>5, <1>6, <1>7, <1>8, <1>9, <1>10 DEF Inductive

(* A read() of data, past the limit or not, preserves the invariant. *)
LEMMA ReadDataInductive ==
  ASSUME Inductive, NEW i \in Id, NEW r \in Stream, ReadData(i, r)
  PROVE  Inductive'
<1>1. TypeOK'
  <2>1. read_len(i, r) \in Nat /\ read_len(i, r) <= pipe[i][r] /\ i \in sandboxes
    BY ReadLength DEF ReadData, Reading, Inductive, TypeOK
  <2>2. output' \in [Id -> [Stream -> Nat]]
    BY <2>1 DEF ReadData, Inductive, TypeOK
  <2>3. pipe' \in [Id -> [Stream -> 0..PipeCap]]
    <3>1. pipe[i][r] - read_len(i, r) \in 0..PipeCap
      BY <2>1, ConstantsAssumption DEF Inductive, TypeOK
    <3>2. QED BY <3>1 DEF ReadData, Inductive, TypeOK
  <2>4. kills' \in [Id -> SUBSET Reason]
    BY DEF ReadData, SendKill, Inductive, TypeOK, Reason
  <2>5. /\ reading' \in SUBSET (sandboxes \X Stream) /\ current' \in SUBSET reading'
        /\ pc' \in {"idle", "stdin", "wait", "read", "check", "complete"}
    <3>1. Break(i, r) \/ Continue(i, r)
      BY DEF ReadData, AfterRead
    <3>2. QED BY <3>1 DEF ReadData, Reading, Break, Continue, Inductive, TypeOK
  <2>6. QED BY <2>2, <2>3, <2>4, <2>5 DEF ReadData, Inductive, TypeOK,
     execVars, callVars, kernVars, userVars
<1>2. Fresh'
  BY PairBounds, ConstantsAssumption DEF ReadData, Reading, Break, Continue, AfterRead, read_len,
     SendKill, Inductive, TypeOK, Fresh,
     execVars, callVars, kernVars, userVars
<1>3. CallState'
  BY PairBounds, ConstantsAssumption DEF ReadData, Reading, Break, Continue, AfterRead, read_len,
     SendKill, Inductive, TypeOK, CallState,
     execVars, callVars, kernVars, userVars
<1>4. Conservation'
  <2>1. read_len(i, r) \in Nat /\ read_len(i, r) <= pipe[i][r]
    BY ReadLength DEF ReadData, Inductive
  <2>2. ASSUME NEW id \in Id, NEW s \in Stream
        PROVE  output'[id][s] + pipe'[id][s] = written[id][s]
    <3>1. /\ output[id][s] + pipe[id][s] = written[id][s]
          /\ output[id][s] \in Nat /\ pipe[id][s] \in Nat
      BY ConstantsAssumption DEF Inductive, TypeOK, Conservation
    <3>2. CASE id = i /\ s = r
      <4>1. output'[id][s] = output[id][s] + read_len(i,
         r) /\ pipe'[id][s] = pipe[id][s] - read_len(i, r)
        BY <3>2 DEF ReadData, Inductive, TypeOK
      <4>2. QED BY <2>1, <3>1, <4>1
    <3>3. CASE ~(id = i /\ s = r)
      <4>1. output'[id][s] = output[id][s] /\ pipe'[id][s] = pipe[id][s]
        BY <3>3 DEF ReadData, Inductive, TypeOK
      <4>2. QED BY <3>1, <4>1
    <3>4. QED BY <3>2, <3>3
  <2>3. ASSUME NEW id \in Id, NEW s \in Stream, closed[id][s]
        PROVE  pipe'[id][s] = 0 /\ writers[id][s] = {}
    BY <2>3 DEF ReadData, Inductive, TypeOK, Conservation
  <2>4. QED BY <2>2, <2>3 DEF ReadData, Inductive, Conservation,
     execVars, callVars, kernVars, userVars
<1>5. PidfdSound'
  BY PairBounds, ConstantsAssumption DEF ReadData, Reading, Break, Continue, AfterRead, read_len,
     SendKill, Inductive, TypeOK, PidfdSound,
     execVars, callVars, kernVars, userVars
<1>6. NoLostWakeup'
  <2>1. \A id \in Id : id # i => output'[id] = output[id]
    BY DEF ReadData, Inductive, TypeOK
  <2>2. output'[i] = [output[i] EXCEPT ![r] = @ + read_len(i, r)]
    BY DEF ReadData, Inductive, TypeOK
  <2>3. over_limit(output[i]) => over_limit(output'[i])
    BY OverLimitMonotone DEF ReadData, Inductive
  <2>4. ASSUME NEW id \in sandboxes, NEW s \in Stream PROVE PipeWakeup(id, s)'
    <3>1. PipeWakeup(id, s) /\ id \in Id
      BY DEF Inductive, TypeOK, NoLostWakeup
    <3>2. CASE id = i /\ s = r
      BY <2>2, <3>2 DEF ReadData, Reading, AfterRead, Break, Continue, PipeWakeup
    <3>3. CASE ~(id = i /\ s = r)
      <4>1. pipe'[id][s] = pipe[id][s]
        BY <3>1, <3>3 DEF ReadData, Inductive, TypeOK
      <4>2. <<id, s>> \in reading => <<id, s>> \in reading'
        BY <3>3 DEF ReadData, AfterRead, Break, Continue
      <4>3. over_limit(output[id]) => over_limit(output'[id])
        BY <2>1, <2>3, <3>1
      <4>4. QED BY <3>1, <4>1, <4>2, <4>3 DEF ReadData, PipeWakeup
    <3>4. QED BY <3>2, <3>3
  <2>5. ASSUME NEW id \in sandboxes PROVE PidfdWakeup(id)'
    BY DEF ReadData, Inductive, NoLostWakeup, PidfdWakeup
  <2>6. QED BY <2>4, <2>5 DEF ReadData, NoLostWakeup
<1>7. OverLimitKilled'
  <2>1. output'[i] = [output[i] EXCEPT ![r] = @ + read_len(i, r)] /\ i \in sandboxes
    BY DEF ReadData, Reading, Inductive, TypeOK
  <2>2. \A id \in Id : id # i => output'[id] = output[id]
    BY DEF ReadData, Inductive, TypeOK
  <2>3. over_limit(output[i]) => over_limit(output'[i])
    BY OverLimitMonotone DEF ReadData, Inductive
  <2>4. kills' = [id \in Id |-> IF id \in (IF over_limit(output'[i]) THEN {i} ELSE {})
                                THEN kills[id] \cup {"output"} ELSE kills[id]]
    BY <2>1 DEF ReadData, SendKill
  <2>5. QED BY <2>1, <2>2, <2>3, <2>4 DEF Inductive, OverLimitKilled
<1>8. Lifecycle'
  BY PairBounds, ConstantsAssumption DEF ReadData, Reading, Break, Continue, AfterRead, read_len,
     SendKill, Inductive, TypeOK, Lifecycle, LifecycleOf,
     execVars, callVars, kernVars, userVars
<1>9. LostOnlyAfterDeadline'
  BY PairBounds, ConstantsAssumption DEF ReadData, Reading, Break, Continue, AfterRead, read_len,
     SendKill, Inductive, TypeOK, LostOnlyAfterDeadline,
     execVars, callVars, kernVars, userVars
<1>10. ReportTruthful'
  <2>1. i \in sandboxes /\ report[i] = "none"
    BY DEF ReadData, Reading, Inductive, TypeOK, Lifecycle, LifecycleOf
  <2>2. \A id \in Id : id # i => output'[id] = output[id] /\ kills'[id] = kills[id]
    BY DEF ReadData, SendKill, Inductive, TypeOK
  <2>3. QED BY <2>1, <2>2 DEF ReadData, Inductive, ReportTruthful,
     execVars, callVars, kernVars, userVars
<1>11. QED BY <1>1, <1>2, <1>3, <1>4, <1>5, <1>6, <1>7, <1>8, <1>9, <1>10 DEF Inductive

(* The scan of check_completions preserves the invariant. *)
LEMMA CheckDeadlinesInductive ==
  ASSUME Inductive, CheckDeadlines
  PROVE  Inductive'
<1>1. TypeOK'
  <2>1. kills' \in [Id -> SUBSET Reason]
    BY DEF CheckDeadlines, SendKill, Inductive, TypeOK, Reason
  <2>2. pidfd_ready' \in [Id -> BOOLEAN]
    BY DEF CheckDeadlines
  <2>3. to_remove' \in SUBSET sandboxes /\ pc' \in {"idle", "stdin", "wait", "read", "check",
     "complete"}
    BY DEF CheckDeadlines
  <2>4. QED BY <2>1, <2>2, <2>3 DEF CheckDeadlines, Inductive, TypeOK,
     execVars, callVars, kernVars, userVars
<1>2. Fresh'
  <2>1. \A id \in Id : id >= next_id => id \notin sandboxes
    BY ConstantsAssumption DEF Inductive, TypeOK, Lifecycle, LifecycleOf, Id
  <2>2. QED
    BY <2>1 DEF CheckDeadlines, SendKill, Inductive, Fresh,
       execVars, callVars, kernVars, userVars
<1>3. CallState'
  <2>1. \A id \in to_remove' : pidfd_ready'[id] /\ \A s \in Stream : closed[id][s]
    BY DEF CheckDeadlines, is_done, Inductive, TypeOK, Stream
  <2>2. QED
    BY <2>1 DEF CheckDeadlines, Inductive, CallState,
       execVars, callVars, kernVars, userVars
<1>4. Conservation'
  BY ConstantsAssumption DEF CheckDeadlines, SendKill, expired, is_done, Inductive, TypeOK,
     Conservation,
     execVars, callVars, kernVars, userVars
<1>5. PidfdSound'
  BY ConstantsAssumption DEF CheckDeadlines, SendKill, expired, is_done, Inductive, TypeOK,
     PidfdSound,
     execVars, callVars, kernVars, userVars
<1>6. NoLostWakeup'
  BY ConstantsAssumption DEF CheckDeadlines, SendKill, expired, is_done, Inductive, TypeOK,
     NoLostWakeup, PipeWakeup, PidfdWakeup, over_limit, total,
     execVars, callVars, kernVars, userVars
<1>7. OverLimitKilled'
  BY ConstantsAssumption DEF CheckDeadlines, SendKill, expired, is_done, Inductive, TypeOK,
     OverLimitKilled, over_limit, total,
     execVars, callVars, kernVars, userVars
<1>8. Lifecycle'
  BY ConstantsAssumption DEF CheckDeadlines, SendKill, expired, is_done, Inductive, TypeOK,
     Lifecycle, LifecycleOf,
     execVars, callVars, kernVars, userVars
<1>9. LostOnlyAfterDeadline'
  BY ConstantsAssumption DEF CheckDeadlines, SendKill, expired, is_done, Inductive, TypeOK,
     LostOnlyAfterDeadline,
     execVars, callVars, kernVars, userVars
<1>10. ReportTruthful'
  <2>1. \A id \in Id : report[id] # "none" => id \notin sandboxes
    BY DEF Inductive, Lifecycle, LifecycleOf
  <2>2. \A id \in Id : report[id] # "none" => kills'[id] = kills[id]
    BY <2>1 DEF CheckDeadlines, SendKill
  <2>3. QED BY <2>2 DEF CheckDeadlines, Inductive, ReportTruthful,
     execVars, callVars, kernVars, userVars
<1>11. QED BY <1>1, <1>2, <1>3, <1>4, <1>5, <1>6, <1>7, <1>8, <1>9, <1>10 DEF Inductive

(* A terminal event preserves the invariant. *)
LEMMA CompleteInductive ==
  ASSUME Inductive, NEW i \in Id, Complete(i)
  PROVE  Inductive'
<1>1. TypeOK'
  <2>1. i \in sandboxes /\ reading = {} /\ current = {}
    BY DEF Complete, Inductive, TypeOK, CallState
  <2>2. /\ sandboxes' \in SUBSET Id /\ to_remove' \in SUBSET sandboxes' /\ epoll' \in SUBSET Nat
        /\ tmpdirs' \in SUBSET Id /\ reading' = {} /\ current' = {}
    BY <2>1 DEF Complete, Remove, Inductive, TypeOK
  <2>3. stdin_fd' \in [Id -> BOOLEAN] /\ stdin_closes' \in [Id -> Nat]
    BY DEF Complete, Remove, Inductive, TypeOK
  <2>4. /\ proc' \in [Id -> {"none", "orphan", "running", "zombie", "reaped", "lost"}]
        /\ pc' \in {"idle", "stdin", "wait", "read", "check",
           "complete"} /\ report' \in [Id -> Status \cup {"none"}]
    BY DEF Complete, wait_for_exit, exit_status, Status, Inductive, TypeOK
  <2>5. QED BY <2>2, <2>3, <2>4 DEF Complete, Inductive, TypeOK
<1>2. Fresh'
  BY ConstantsAssumption DEF Complete, Remove, wait_for_exit, TokensOf, Inductive, TypeOK, Fresh,
     execVars, callVars, kernVars, userVars
<1>3. CallState'
  BY ConstantsAssumption DEF Complete, Remove, wait_for_exit, TokensOf, Inductive, TypeOK,
     CallState,
     execVars, callVars, kernVars, userVars
<1>4. Conservation'
  <2>1. \A s \in Stream : closed[i][s]
    BY DEF Complete, Inductive, CallState
  <2>2. \A id \in Id : id # i => report'[id] = report[id]
    BY DEF Complete, Inductive, TypeOK
  <2>3. QED BY <2>1, <2>2 DEF Complete, Inductive, Conservation
<1>5. PidfdSound'
  BY TokensDistinct, ConstantsAssumption DEF Complete, Remove, wait_for_exit, TokensOf,
     Inductive, TypeOK, PidfdSound,
     execVars, callVars, kernVars, userVars
<1>6. NoLostWakeup'
  BY TokensDistinct, ConstantsAssumption DEF Complete, Remove, wait_for_exit, TokensOf,
     Inductive, TypeOK, NoLostWakeup, PipeWakeup, PidfdWakeup, over_limit, total,
     execVars, callVars, kernVars, userVars
<1>7. OverLimitKilled'
  BY ConstantsAssumption DEF Complete, Remove, wait_for_exit, TokensOf, Inductive, TypeOK,
     OverLimitKilled, over_limit, total,
     execVars, callVars, kernVars, userVars
<1>8. Lifecycle'
  <2>1. i \in sandboxes /\ stdin_closes[i] = (IF stdin_fd[i] THEN 0 ELSE 1) /\ report[i] = "none"
    BY DEF Complete, Inductive, TypeOK, Lifecycle, LifecycleOf
  <2>2. i \notin sandboxes' /\ i \notin tmpdirs' /\ stdin_closes'[i] = 1
    BY <2>1 DEF Complete, Remove, Inductive, TypeOK
  <2>3. proc'[i] = "reaped" /\ report'[i] # "none"
    BY <2>1 DEF Complete, wait_for_exit, exit_status, Inductive, TypeOK
  <2>4. ASSUME NEW id \in Id, id # i
        PROVE  /\ (id \in sandboxes') = (id \in sandboxes) /\ (id \in tmpdirs') = (id \in tmpdirs)
               /\ proc'[id] = proc[id] /\ report'[id] = report[id] /\ stdin_fd'[id] = stdin_fd[id]
               /\ stdin_closes'[id] = stdin_closes[id] /\ next_id' = next_id
    BY <2>4 DEF Complete, Remove, wait_for_exit, Inductive, TypeOK
  <2>5. QED BY <2>2, <2>3, <2>4 DEF Inductive, Lifecycle, LifecycleOf
<1>9. LostOnlyAfterDeadline'
  BY ConstantsAssumption DEF Complete, Remove, wait_for_exit, TokensOf, Inductive, TypeOK,
     LostOnlyAfterDeadline,
     execVars, callVars, kernVars, userVars
<1>10. ReportTruthful'
  <2>1. cause[i] \in {"exit", "signal"} /\ i \in Id
    BY DEF Complete, wait_for_exit, Inductive, TypeOK, PidfdSound
  <2>2. report'[i] = exit_status(i) /\ \A id \in Id : id # i => report'[id] = report[id]
    BY DEF Complete, Inductive, TypeOK
  <2>3. "deadline" \in kills[i] => now >= deadline[i]
    BY DEF Inductive, PidfdSound
  <2>4. QED BY <2>1, <2>2, <2>3 DEF Complete, exit_status, Inductive, ReportTruthful
<1>11. QED BY <1>1, <1>2, <1>3, <1>4, <1>5, <1>6, <1>7, <1>8, <1>9, <1>10 DEF Inductive

(* An interrupted waitid preserves the invariant. *)
LEMMA CompleteInterruptedInductive ==
  ASSUME Inductive, NEW i \in Id, CompleteInterrupted(i)
  PROVE  Inductive'
<1>1. TypeOK'
  <2>1. i \in sandboxes /\ reading = {} /\ current = {}
    BY DEF CompleteInterrupted, Inductive, TypeOK, CallState
  <2>2. /\ sandboxes' \in SUBSET Id /\ to_remove' \in SUBSET sandboxes' /\ epoll' \in SUBSET Nat
        /\ tmpdirs' \in SUBSET Id /\ reading' = {} /\ current' = {}
    BY <2>1 DEF CompleteInterrupted, Remove, Inductive, TypeOK
  <2>3. stdin_fd' \in [Id -> BOOLEAN] /\ stdin_closes' \in [Id -> Nat]
    BY DEF CompleteInterrupted, Remove, Inductive, TypeOK
  <2>4. /\ proc' \in [Id -> {"none", "orphan", "running", "zombie", "reaped", "lost"}]
        /\ pc' \in {"idle", "stdin", "wait", "read", "check", "complete"} 
    BY DEF CompleteInterrupted, Inductive, TypeOK
  <2>5. QED BY <2>2, <2>3, <2>4 DEF CompleteInterrupted, Inductive, TypeOK
<1>2. Fresh'
  BY ConstantsAssumption DEF CompleteInterrupted, Remove, TokensOf, Inductive, TypeOK, Fresh,
     execVars, callVars, kernVars, userVars
<1>3. CallState'
  BY ConstantsAssumption DEF CompleteInterrupted, Remove, TokensOf, Inductive, TypeOK, CallState,
     execVars, callVars, kernVars, userVars
<1>4. Conservation'
  BY ConstantsAssumption DEF CompleteInterrupted, Remove, TokensOf, Inductive, TypeOK, Conservation,
     execVars, callVars, kernVars, userVars
<1>5. PidfdSound'
  BY TokensDistinct, ConstantsAssumption DEF CompleteInterrupted, Remove, TokensOf, Inductive,
     TypeOK, PidfdSound,
     execVars, callVars, kernVars, userVars
<1>6. NoLostWakeup'
  BY TokensDistinct, ConstantsAssumption DEF CompleteInterrupted, Remove, TokensOf, Inductive,
     TypeOK, NoLostWakeup, PipeWakeup, PidfdWakeup, over_limit, total,
     execVars, callVars, kernVars, userVars
<1>7. OverLimitKilled'
  BY ConstantsAssumption DEF CompleteInterrupted, Remove, TokensOf, Inductive, TypeOK,
     OverLimitKilled, over_limit, total,
     execVars, callVars, kernVars, userVars
<1>8. Lifecycle'
  <2>1. i \in sandboxes /\ stdin_closes[i] = (IF stdin_fd[i] THEN 0 ELSE 1) /\ report[i] = "none"
    BY DEF CompleteInterrupted, Inductive, TypeOK, Lifecycle, LifecycleOf
  <2>2. i \notin sandboxes' /\ i \notin tmpdirs' /\ stdin_closes'[i] = 1
    BY <2>1 DEF CompleteInterrupted, Remove, Inductive, TypeOK
  <2>3. proc'[i] = "lost" /\ report'[i] = "none"
    BY <2>1 DEF CompleteInterrupted, wait_for_exit, exit_status, Inductive, TypeOK
  <2>4. ASSUME NEW id \in Id, id # i
        PROVE  /\ (id \in sandboxes') = (id \in sandboxes) /\ (id \in tmpdirs') = (id \in tmpdirs)
               /\ proc'[id] = proc[id] /\ report'[id] = report[id] /\ stdin_fd'[id] = stdin_fd[id]
               /\ stdin_closes'[id] = stdin_closes[id] /\ next_id' = next_id
    BY <2>4 DEF CompleteInterrupted, Remove, wait_for_exit, Inductive, TypeOK
  <2>5. QED BY <2>2, <2>3, <2>4 DEF Inductive, Lifecycle, LifecycleOf
<1>9. LostOnlyAfterDeadline'
  <2>1. /\ \A s \in Stream : closed[i][s]
        /\ "deadline" \in kills[i] /\ now >= deadline[i]
    BY DEF CompleteInterrupted, Inductive, TypeOK, CallState, PidfdSound
  <2>2. \A id \in Id : id # i => proc'[id] = proc[id]
    BY DEF CompleteInterrupted, Inductive, TypeOK
  <2>3. QED BY <2>1, <2>2 DEF CompleteInterrupted, Inductive, LostOnlyAfterDeadline
<1>10. ReportTruthful'
  BY ConstantsAssumption DEF CompleteInterrupted, Remove, TokensOf, Inductive, TypeOK,
     ReportTruthful, over_limit, total,
     execVars, callVars, kernVars, userVars
<1>11. QED BY <1>1, <1>2, <1>3, <1>4, <1>5, <1>6, <1>7, <1>8, <1>9, <1>10 DEF Inductive

(* The return of a blocked write_stdin preserves the invariant. *)
LEMMA WriteStdinReturnInductive ==
  ASSUME Inductive, WriteStdinReturn
  PROVE  Inductive'
<1>1. TypeOK'
  BY ConstantsAssumption DEF WriteStdinReturn, Inductive, TypeOK,
     execVars, callVars, kernVars, userVars
<1>2. Fresh'
  BY ConstantsAssumption DEF WriteStdinReturn, Inductive, TypeOK, Fresh,
     execVars, callVars, kernVars, userVars
<1>3. CallState'
  BY ConstantsAssumption DEF WriteStdinReturn, Inductive, TypeOK, CallState,
     execVars, callVars, kernVars, userVars
<1>4. Conservation'
  BY ConstantsAssumption DEF WriteStdinReturn, Inductive, TypeOK, Conservation,
     execVars, callVars, kernVars, userVars
<1>5. PidfdSound'
  BY ConstantsAssumption DEF WriteStdinReturn, Inductive, TypeOK, PidfdSound,
     execVars, callVars, kernVars, userVars
<1>6. NoLostWakeup'
  BY ConstantsAssumption DEF WriteStdinReturn, Inductive, TypeOK, NoLostWakeup, PipeWakeup,
     PidfdWakeup, over_limit, total,
     execVars, callVars, kernVars, userVars
<1>7. OverLimitKilled'
  BY ConstantsAssumption DEF WriteStdinReturn, Inductive, TypeOK, OverLimitKilled, over_limit,
     total,
     execVars, callVars, kernVars, userVars
<1>8. Lifecycle'
  BY ConstantsAssumption DEF WriteStdinReturn, Inductive, TypeOK, Lifecycle, LifecycleOf,
     execVars, callVars, kernVars, userVars
<1>9. LostOnlyAfterDeadline'
  BY ConstantsAssumption DEF WriteStdinReturn, Inductive, TypeOK, LostOnlyAfterDeadline,
     execVars, callVars, kernVars, userVars
<1>10. ReportTruthful'
  BY ConstantsAssumption DEF WriteStdinReturn, Inductive, TypeOK, ReportTruthful, over_limit, total,
     execVars, callVars, kernVars, userVars
<1>11. QED BY <1>1, <1>2, <1>3, <1>4, <1>5, <1>6, <1>7, <1>8, <1>9, <1>10 DEF Inductive

(* An interrupted epoll_wait preserves the invariant. *)
LEMMA PollInterruptedInductive ==
  ASSUME Inductive, PollInterrupted
  PROVE  Inductive'
<1>1. TypeOK'
  BY ConstantsAssumption DEF PollInterrupted, Inductive, TypeOK,
     execVars, callVars, kernVars, userVars
<1>2. Fresh'
  BY ConstantsAssumption DEF PollInterrupted, Inductive, TypeOK, Fresh,
     execVars, callVars, kernVars, userVars
<1>3. CallState'
  BY ConstantsAssumption DEF PollInterrupted, Inductive, TypeOK, CallState,
     execVars, callVars, kernVars, userVars
<1>4. Conservation'
  BY ConstantsAssumption DEF PollInterrupted, Inductive, TypeOK, Conservation,
     execVars, callVars, kernVars, userVars
<1>5. PidfdSound'
  BY ConstantsAssumption DEF PollInterrupted, Inductive, TypeOK, PidfdSound,
     execVars, callVars, kernVars, userVars
<1>6. NoLostWakeup'
  BY ConstantsAssumption DEF PollInterrupted, Inductive, TypeOK, NoLostWakeup, PipeWakeup,
     PidfdWakeup, over_limit, total,
     execVars, callVars, kernVars, userVars
<1>7. OverLimitKilled'
  BY ConstantsAssumption DEF PollInterrupted, Inductive, TypeOK, OverLimitKilled, over_limit, total,
     execVars, callVars, kernVars, userVars
<1>8. Lifecycle'
  BY ConstantsAssumption DEF PollInterrupted, Inductive, TypeOK, Lifecycle, LifecycleOf,
     execVars, callVars, kernVars, userVars
<1>9. LostOnlyAfterDeadline'
  BY ConstantsAssumption DEF PollInterrupted, Inductive, TypeOK, LostOnlyAfterDeadline,
     execVars, callVars, kernVars, userVars
<1>10. ReportTruthful'
  BY ConstantsAssumption DEF PollInterrupted, Inductive, TypeOK, ReportTruthful, over_limit, total,
     execVars, callVars, kernVars, userVars
<1>11. QED BY <1>1, <1>2, <1>3, <1>4, <1>5, <1>6, <1>7, <1>8, <1>9, <1>10 DEF Inductive

(* A write by a child or a descendant preserves the invariant. *)
LEMMA WriteInductive ==
  ASSUME Inductive, NEW i \in Id, NEW r \in Stream, Write(i, r)
  PROVE  Inductive'
<1>1. TypeOK'
  <2>1. pipe[i][r] + 1 \in 0..PipeCap /\ written[i][r] + 1 \in Nat
    BY ConstantsAssumption DEF Write, Inductive, TypeOK
  <2>2. pipe' \in [Id -> [Stream -> 0..PipeCap]] /\ written' \in [Id -> [Stream -> Nat]]
    BY <2>1 DEF Write, Inductive, TypeOK
  <2>3. epoll' \in SUBSET Nat
    <3>1. PipeToken(i, r) \in Nat BY TokensDistinct
    <3>2. QED BY <3>1 DEF Write, Edge, Inductive, TypeOK
  <2>4. QED
    BY <2>2, <2>3 DEF Write, Inductive, TypeOK,
       execVars, callVars, kernVars, userVars
<1>2. Fresh'
  BY ConstantsAssumption DEF Write, Edge, Inductive, TypeOK, Fresh,
     execVars, callVars, kernVars, userVars
<1>3. CallState'
  BY ConstantsAssumption DEF Write, Edge, Inductive, TypeOK, CallState,
     execVars, callVars, kernVars, userVars
<1>4. Conservation'
  BY ConstantsAssumption DEF Write, Edge, Inductive, TypeOK, Conservation,
     execVars, callVars, kernVars, userVars
<1>5. PidfdSound'
  BY TokensDistinct, ConstantsAssumption DEF Write, Edge, Inductive, TypeOK, PidfdSound,
     execVars, callVars, kernVars, userVars
<1>6. NoLostWakeup'
  BY TokensDistinct, ConstantsAssumption DEF Write, Edge, Inductive, TypeOK, NoLostWakeup,
     PipeWakeup, PidfdWakeup, over_limit, total,
     execVars, callVars, kernVars, userVars
<1>7. OverLimitKilled'
  BY ConstantsAssumption DEF Write, Edge, Inductive, TypeOK, OverLimitKilled, over_limit, total,
     execVars, callVars, kernVars, userVars
<1>8. Lifecycle'
  BY ConstantsAssumption DEF Write, Edge, Inductive, TypeOK, Lifecycle, LifecycleOf,
     execVars, callVars, kernVars, userVars
<1>9. LostOnlyAfterDeadline'
  BY ConstantsAssumption DEF Write, Edge, Inductive, TypeOK, LostOnlyAfterDeadline,
     execVars, callVars, kernVars, userVars
<1>10. ReportTruthful'
  BY ConstantsAssumption DEF Write, Edge, Inductive, TypeOK, ReportTruthful, over_limit, total,
     execVars, callVars, kernVars, userVars
<1>11. QED BY <1>1, <1>2, <1>3, <1>4, <1>5, <1>6, <1>7, <1>8, <1>9, <1>10 DEF Inductive

(* A close of a stream preserves the invariant. *)
LEMMA CloseInductive ==
  ASSUME Inductive, NEW i \in Id, NEW p \in Process, NEW r \in Stream, Close(i, p, r)
  PROVE  Inductive'
<1>1. TypeOK'
  <2>1. writers' \in [Id -> [Stream -> SUBSET Process]]
    BY DEF Close, Inductive, TypeOK
  <2>2. epoll' \in SUBSET Nat
    <3>1. PipeToken(i, r) \in Nat BY TokensDistinct
    <3>2. QED BY <3>1 DEF Close, Edge, Inductive, TypeOK
  <2>3. QED
    BY <2>1, <2>2 DEF Close, Inductive, TypeOK,
       execVars, callVars, kernVars, userVars
<1>2. Fresh'
  BY ConstantsAssumption DEF Close, Edge, Inductive, TypeOK, Fresh,
     execVars, callVars, kernVars, userVars
<1>3. CallState'
  BY ConstantsAssumption DEF Close, Edge, Inductive, TypeOK, CallState,
     execVars, callVars, kernVars, userVars
<1>4. Conservation'
  BY ConstantsAssumption DEF Close, Edge, Inductive, TypeOK, Conservation,
     execVars, callVars, kernVars, userVars
<1>5. PidfdSound'
  BY TokensDistinct, ConstantsAssumption DEF Close, Edge, Inductive, TypeOK, PidfdSound,
     execVars, callVars, kernVars, userVars
<1>6. NoLostWakeup'
  BY TokensDistinct, ConstantsAssumption DEF Close, Edge, Inductive, TypeOK, NoLostWakeup,
     PipeWakeup, PidfdWakeup, over_limit, total,
     execVars, callVars, kernVars, userVars
<1>7. OverLimitKilled'
  BY ConstantsAssumption DEF Close, Edge, Inductive, TypeOK, OverLimitKilled, over_limit, total,
     execVars, callVars, kernVars, userVars
<1>8. Lifecycle'
  BY ConstantsAssumption DEF Close, Edge, Inductive, TypeOK, Lifecycle, LifecycleOf,
     execVars, callVars, kernVars, userVars
<1>9. LostOnlyAfterDeadline'
  BY ConstantsAssumption DEF Close, Edge, Inductive, TypeOK, LostOnlyAfterDeadline,
     execVars, callVars, kernVars, userVars
<1>10. ReportTruthful'
  BY ConstantsAssumption DEF Close, Edge, Inductive, TypeOK, ReportTruthful, over_limit, total,
     execVars, callVars, kernVars, userVars
<1>11. QED BY <1>1, <1>2, <1>3, <1>4, <1>5, <1>6, <1>7, <1>8, <1>9, <1>10 DEF Inductive

(* A fork preserves the invariant. *)
LEMMA ForkInductive ==
  ASSUME Inductive, NEW i \in Id, NEW d \in Descendants, Fork(i, d)
  PROVE  Inductive'
<1>1. TypeOK'
  <2>1. writers' \in [Id -> [Stream -> SUBSET Process]]
    BY DEF Fork, Inductive, TypeOK, Process
  <2>2. QED
    BY <2>1 DEF Fork, Inductive, TypeOK,
       execVars, callVars, kernVars, userVars
<1>2. Fresh'
  BY ConstantsAssumption DEF Fork, Inductive, TypeOK, Fresh,
     execVars, callVars, kernVars, userVars
<1>3. CallState'
  BY ConstantsAssumption DEF Fork, Inductive, TypeOK, CallState,
     execVars, callVars, kernVars, userVars
<1>4. Conservation'
  BY ConstantsAssumption DEF Fork, Inductive, TypeOK, Conservation,
     execVars, callVars, kernVars, userVars
<1>5. PidfdSound'
  BY ConstantsAssumption DEF Fork, Inductive, TypeOK, PidfdSound,
     execVars, callVars, kernVars, userVars
<1>6. NoLostWakeup'
  BY ConstantsAssumption DEF Fork, Inductive, TypeOK, NoLostWakeup, PipeWakeup, PidfdWakeup,
     over_limit, total,
     execVars, callVars, kernVars, userVars
<1>7. OverLimitKilled'
  BY ConstantsAssumption DEF Fork, Inductive, TypeOK, OverLimitKilled, over_limit, total,
     execVars, callVars, kernVars, userVars
<1>8. Lifecycle'
  BY ConstantsAssumption DEF Fork, Inductive, TypeOK, Lifecycle, LifecycleOf,
     execVars, callVars, kernVars, userVars
<1>9. LostOnlyAfterDeadline'
  BY ConstantsAssumption DEF Fork, Inductive, TypeOK, LostOnlyAfterDeadline,
     execVars, callVars, kernVars, userVars
<1>10. ReportTruthful'
  BY ConstantsAssumption DEF Fork, Inductive, TypeOK, ReportTruthful, over_limit, total,
     execVars, callVars, kernVars, userVars
<1>11. QED BY <1>1, <1>2, <1>3, <1>4, <1>5, <1>6, <1>7, <1>8, <1>9, <1>10 DEF Inductive

(* The death of a child preserves the invariant. *)
LEMMA ChildEndInductive ==
  ASSUME Inductive, NEW i \in Id, NEW how \in {"exit", "signal"}, ChildEnd(i, how)
  PROVE  Inductive'
<1>1. TypeOK'
  BY TokensDistinct, ConstantsAssumption DEF ChildEnd, Edge, Inductive, TypeOK,
     execVars, callVars, kernVars, userVars
<1>2. Fresh'
  BY ConstantsAssumption DEF ChildEnd, Edge, Inductive, TypeOK, Fresh,
     execVars, callVars, kernVars, userVars
<1>3. CallState'
  BY ConstantsAssumption DEF ChildEnd, Edge, Inductive, TypeOK, CallState,
     execVars, callVars, kernVars, userVars
<1>4. Conservation'
  BY ConstantsAssumption DEF ChildEnd, Edge, Inductive, TypeOK, Conservation,
     execVars, callVars, kernVars, userVars
<1>5. PidfdSound'
  BY TokensDistinct, ConstantsAssumption DEF ChildEnd, Edge, Inductive, TypeOK, PidfdSound,
     execVars, callVars, kernVars, userVars
<1>6. NoLostWakeup'
  <2>1. ASSUME NEW id \in sandboxes, NEW s \in Stream PROVE PipeWakeup(id, s)'
    <3>1. id \in Id /\ PipeWakeup(id, s) /\ epoll \subseteq epoll'
      BY DEF ChildEnd, Edge, Inductive, TypeOK, NoLostWakeup
    <3>2. CASE id = i /\ writers[i][s] = {"child"}
      <4>1. PipeToken(id, s) \in epoll'
        BY <3>2 DEF ChildEnd, Edge
      <4>2. QED BY <4>1 DEF PipeWakeup
    <3>3. CASE ~(id = i /\ writers[i][s] = {"child"})
      <4>1. writers'[id][s] = {} => writers[id][s] = {}
        BY <3>1, <3>3 DEF ChildEnd, Inductive, TypeOK
      <4>2. QED BY <3>1, <4>1 DEF ChildEnd, PipeWakeup, execVars, callVars
    <3>4. QED BY <3>2, <3>3
  <2>2. ASSUME NEW id \in sandboxes PROVE PidfdWakeup(id)'
    BY DEF ChildEnd, Edge, Inductive, TypeOK, NoLostWakeup, PidfdWakeup, execVars
  <2>3. QED BY <2>1, <2>2 DEF ChildEnd, NoLostWakeup, execVars
<1>7. OverLimitKilled'
  BY ConstantsAssumption DEF ChildEnd, Edge, Inductive, TypeOK, OverLimitKilled, over_limit, total,
     execVars, callVars, kernVars, userVars
<1>8. Lifecycle'
  BY ConstantsAssumption DEF ChildEnd, Edge, Inductive, TypeOK, Lifecycle, LifecycleOf,
     execVars, callVars, kernVars, userVars
<1>9. LostOnlyAfterDeadline'
  BY ConstantsAssumption DEF ChildEnd, Edge, Inductive, TypeOK, LostOnlyAfterDeadline,
     execVars, callVars, kernVars, userVars
<1>10. ReportTruthful'
  <2>1. \A id \in Id : report[id] # "none" => id # i
    BY DEF ChildEnd, Inductive, Lifecycle, LifecycleOf
  <2>2. \A id \in Id : id # i => cause'[id] = cause[id]
    BY DEF ChildEnd, Inductive, TypeOK
  <2>3. QED BY <2>1, <2>2 DEF ChildEnd, Inductive, ReportTruthful, execVars, userVars
<1>11. QED BY <1>1, <1>2, <1>3, <1>4, <1>5, <1>6, <1>7, <1>8, <1>9, <1>10 DEF Inductive

(* The passing of time preserves the invariant. *)
LEMMA TickInductive ==
  ASSUME Inductive, Tick
  PROVE  Inductive'
<1>1. TypeOK'
  BY ConstantsAssumption DEF Tick, Inductive, TypeOK,
     execVars, callVars, kernVars, userVars
<1>2. Fresh'
  BY ConstantsAssumption DEF Tick, Inductive, TypeOK, Fresh,
     execVars, callVars, kernVars, userVars
<1>3. CallState'
  BY ConstantsAssumption DEF Tick, Inductive, TypeOK, CallState,
     execVars, callVars, kernVars, userVars
<1>4. Conservation'
  BY ConstantsAssumption DEF Tick, Inductive, TypeOK, Conservation,
     execVars, callVars, kernVars, userVars
<1>5. PidfdSound'
  BY ConstantsAssumption DEF Tick, Inductive, TypeOK, PidfdSound,
     execVars, callVars, kernVars, userVars
<1>6. NoLostWakeup'
  BY ConstantsAssumption DEF Tick, Inductive, TypeOK, NoLostWakeup, PipeWakeup, PidfdWakeup,
     over_limit, total,
     execVars, callVars, kernVars, userVars
<1>7. OverLimitKilled'
  BY ConstantsAssumption DEF Tick, Inductive, TypeOK, OverLimitKilled, over_limit, total,
     execVars, callVars, kernVars, userVars
<1>8. Lifecycle'
  BY ConstantsAssumption DEF Tick, Inductive, TypeOK, Lifecycle, LifecycleOf,
     execVars, callVars, kernVars, userVars
<1>9. LostOnlyAfterDeadline'
  BY ConstantsAssumption DEF Tick, Inductive, TypeOK, LostOnlyAfterDeadline,
     execVars, callVars, kernVars, userVars
<1>10. ReportTruthful'
  BY ConstantsAssumption DEF Tick, Inductive, TypeOK, ReportTruthful, over_limit, total,
     execVars, callVars, kernVars, userVars
<1>11. QED BY <1>1, <1>2, <1>3, <1>4, <1>5, <1>6, <1>7, <1>8, <1>9, <1>10 DEF Inductive

(* The invariant holds initially. *)
LEMMA InitInductive == Init => Inductive
<1> SUFFICES ASSUME Init PROVE Inductive
  OBVIOUS
<1>1. TypeOK
  BY ConstantsAssumption DEF Init, TypeOK
<1>2. Fresh /\ CallState /\ Conservation /\ PidfdSound
  BY DEF Init, Fresh, CallState, Conservation, PidfdSound
<1>3. OverLimitKilled
  <2>1. \A id \in Id, s \in Stream : output[id][s] = 0
    BY DEF Init
  <2>2. \A id \in Id : total(output[id]) = 0
    BY <2>1 DEF total, Stream
  <2>3. \A id \in Id : ~over_limit(output[id])
    BY <2>2, ConstantsAssumption DEF over_limit
  <2>4. QED BY <2>3 DEF Init, OverLimitKilled
<1>4. NoLostWakeup /\ Lifecycle /\ LostOnlyAfterDeadline /\ ReportTruthful
  BY DEF Init, NoLostWakeup, Lifecycle, LifecycleOf, LostOnlyAfterDeadline, ReportTruthful
<1>5. QED BY <1>1, <1>2, <1>3, <1>4 DEF Inductive

(* A poll of an empty Executor, or no step at all, preserves the invariant. *)
LEMMA StutterInductive ==
  ASSUME Inductive, UNCHANGED vars
  PROVE  Inductive'
<1>1. TypeOK' /\ Fresh' /\ CallState' /\ Conservation' /\ PidfdSound'
  BY DEF Inductive, TypeOK, Fresh, CallState, Conservation, PidfdSound,
         vars, execVars, callVars, kernVars, userVars
<1>2. NoLostWakeup' /\ OverLimitKilled'
  BY DEF Inductive, NoLostWakeup, PipeWakeup, PidfdWakeup, OverLimitKilled, over_limit, total,
         vars, execVars, callVars, kernVars, userVars
<1>3. Lifecycle' /\ LostOnlyAfterDeadline'
  BY DEF Inductive, Lifecycle, LifecycleOf, LostOnlyAfterDeadline,
         vars, execVars, callVars, kernVars, userVars
<1>4. ReportTruthful'
  BY DEF Inductive, ReportTruthful, over_limit, total,
         vars, execVars, callVars, kernVars, userVars
<1>5. QED BY <1>1, <1>2, <1>3, <1>4 DEF Inductive

(* Every step preserves the invariant. *)
LEMMA NextInductive == Inductive /\ [Next]_vars => Inductive'
<1> SUFFICES ASSUME Inductive, [Next]_vars PROVE Inductive'
  OBVIOUS
<1>1. CASE User
  BY <1>1, SpawnInductive, SpawnErrorInductive, KillInductive, WriteStdinBlockInductive,
     CloseStdinInductive, PollStartInductive, StutterInductive, SpawnStartInductive
     DEF User, SpawnReturn, PollEmpty
<1>2. CASE Loop
  BY <1>2, PollReturnInductive, ReadWouldBlockInductive, ReadEofInductive,
     ReadDataInductive, CheckDeadlinesInductive, CompleteInductive DEF Loop, read_pipe
<1>3. CASE Environment
  BY <1>3, WriteStdinReturnInductive, PollInterruptedInductive, CompleteInterruptedInductive,
     WriteInductive, CloseInductive, ForkInductive, ChildEndInductive, TickInductive
     DEF Environment
<1>4. CASE UNCHANGED vars
  BY <1>4, StutterInductive
<1>5. QED BY <1>1, <1>2, <1>3, <1>4 DEF Next

(* The inductive invariant holds in every reachable state, whatever the    *)
(* number of sandboxes, the limits, the pipe sizes and the descendants.    *)
THEOREM Invariance == Spec => []Inductive
<1>1. Init => Inductive
  BY InitInductive
<1>2. Inductive /\ [Next]_vars => Inductive'
  BY NextInductive
<1>3. QED BY <1>1, <1>2, PTL DEF Spec

(* Every variable of the Executor keeps its type.                          *)
THEOREM TypeCorrect == Spec => []TypeOK
<1>1. Inductive => TypeOK
  BY DEF Inductive
<1>2. QED BY <1>1, Invariance, PTL

(* The edge-triggered loop never loses a wakeup of a pipe that is within   *)
(* its output limit, nor of a pidfd.                                       *)
THEOREM WakeupsKept == Spec => []NoLostWakeup
<1>1. Inductive => NoLostWakeup
  BY DEF Inductive
<1>2. QED BY <1>1, Invariance, PTL

(* A terminal event carries everything the sandbox ever wrote.             *)
THEOREM OutputIsComplete == Spec => []OutputComplete
<1>1. Inductive => OutputComplete
  <2> SUFFICES ASSUME Inductive, NEW id \in Id, report[id] # "none", NEW s \in Stream
               PROVE  output[id][s] = written[id][s] /\ writers[id][s] = {}
    BY DEF OutputComplete
  <2>1. closed[id][s]
    BY DEF Inductive, Conservation
  <2>2. pipe[id][s] = 0 /\ writers[id][s] = {} /\ output[id][s] + pipe[id][s] = written[id][s]
    BY <2>1 DEF Inductive, Conservation
  <2>3. output[id][s] \in Nat
    BY DEF Inductive, TypeOK
  <2>4. QED BY <2>2, <2>3
<1>2. QED BY <1>1, Invariance, PTL

(* SIGKILL for output is sent exactly to the sandboxes past their limit.   *)
THEOREM LimitIsEnforced == Spec => []OverLimitKilled
<1>1. Inductive => OverLimitKilled
  BY DEF Inductive
<1>2. QED BY <1>1, Invariance, PTL

(* The event loop blocks in waitid only for a child dead or sent SIGKILL.  *)
THEOREM WaitsAreBounded == Spec => []WaitIsBounded
<1>1. Inductive => WaitIsBounded
  BY DEF Inductive, TypeOK, CallState, PidfdSound, WaitIsBounded
<1>2. QED BY <1>1, Invariance, PTL

(* No child left unreaped, no workspace left behind, no double close.      *)
THEOREM ResourcesFollowSandbox == Spec => []Lifecycle
<1>1. Inductive => Lifecycle
  BY DEF Inductive
<1>2. QED BY <1>1, Invariance, PTL

(* waitid's error path loses only sandboxes killed at their deadline.      *)
THEOREM LossIsConfined == Spec => []LostOnlyAfterDeadline
<1>1. Inductive => LostOnlyAfterDeadline
  BY DEF Inductive
<1>2. QED BY <1>1, Invariance, PTL

(* The status of a terminal event tells how the sandbox ended.             *)
THEOREM ReportsTellTheTruth == Spec => []ReportTruthful
<1>1. Inductive => ReportTruthful
  BY DEF Inductive
<1>2. QED BY <1>1, Invariance, PTL

(* What a terminal event reported is final, and a sandbox leaves the map   *)
(* only with its event or through waitid's error path.                     *)
THEOREM ReportsAreFinal == Spec => ReportIsFinal
<1> DEFINE Final ==
      \A id \in Id :
        /\ report[id] # "none" =>
             /\ report'[id] = report[id] /\ output'[id] = output[id]
             /\ id \notin sandboxes'
        /\ id \in sandboxes \ sandboxes' => report'[id] # "none" \/ proc'[id] = "lost"
<1>1. Inductive /\ [Next]_vars => [Final]_vars
  <2> SUFFICES ASSUME Inductive, Next PROVE Final
    BY DEF Final
  <2>1. \A id \in Id : report[id] # "none" => id \notin sandboxes
    BY DEF Inductive, Lifecycle, LifecycleOf
  <2>2. CASE sandboxes' = sandboxes /\ report' = report /\ output' = output
    BY <2>1, <2>2
  <2>3. ASSUME NEW t \in Timeouts, Spawn(t) PROVE Final
    <3>1. next_id \in Id /\ report[next_id] = "none"
      BY <2>3, NextIdIsFree DEF Spawn, Inductive, TypeOK, Fresh, Id
    <3>2. QED BY <2>1, <2>3, <3>1 DEF Spawn
  <2>4. ASSUME NEW i \in Id, NEW s \in Stream, ReadData(i, s) PROVE Final
    <3>1. i \in sandboxes /\ sandboxes' = sandboxes /\ report' = report
      BY <2>4 DEF ReadData, Reading, Inductive, TypeOK, userVars
    <3>2. \A id \in Id : id # i => output'[id] = output[id]
      BY <2>4 DEF ReadData, Inductive, TypeOK
    <3>3. QED BY <2>1, <3>1, <3>2
  <2>5. ASSUME NEW i \in Id, Complete(i) PROVE Final
    <3>1. i \in sandboxes /\ sandboxes' = sandboxes \ {i} /\ output' = output
      BY <2>5 DEF Complete, Remove, Inductive, TypeOK
    <3>2. report'[i] # "none" /\ \A id \in Id : id # i => report'[id] = report[id]
      BY <2>5 DEF Complete, exit_status, Inductive, TypeOK
    <3>3. QED BY <2>1, <3>1, <3>2
  <2>6. ASSUME NEW i \in Id, CompleteInterrupted(i) PROVE Final
    <3>1. sandboxes' = sandboxes \ {i} /\ output' = output /\ report' = report /\ proc'[i] = "lost"
      BY <2>6 DEF CompleteInterrupted, Remove, Inductive, TypeOK
    <3>2. QED BY <2>1, <3>1
  <2>7. CASE User
    <3>1. CASE \E t \in Timeouts : Spawn(t)
      BY <3>1, <2>3
    <3>2. CASE ~\E t \in Timeouts : Spawn(t)
      <4>1. sandboxes' = sandboxes /\ report' = report /\ output' = output
        BY <2>7, <3>2 DEF User, SpawnStart, SpawnReturn, SpawnError, Kill, WriteStdinBlock, CloseStdin, PollEmpty, PollStart,
           vars, execVars, userVars
      <4>2. QED BY <4>1, <2>2
    <3>3. QED BY <3>1, <3>2
  <2>8. CASE Loop
    <3>1. CASE \E i \in Id, s \in Stream : ReadData(i, s)
      BY <3>1, <2>4
    <3>2. CASE \E i \in Id : Complete(i)
      BY <3>2, <2>5
    <3>3. CASE ~(\E i \in Id, s \in Stream : ReadData(i, s)) /\ ~(\E i \in Id : Complete(i))
      <4>1. sandboxes' = sandboxes /\ report' = report /\ output' = output
        BY <2>8, <3>3 DEF Loop, PollReturn, read_pipe, ReadWouldBlock, ReadEof, CheckDeadlines,
           execVars, userVars
      <4>2. QED BY <4>1, <2>2
    <3>4. QED BY <3>1, <3>2, <3>3
  <2>9. CASE Environment
    <3>1. CASE \E i \in Id : CompleteInterrupted(i)
      BY <3>1, <2>6
    <3>2. CASE ~\E i \in Id : CompleteInterrupted(i)
      <4>1. sandboxes' = sandboxes /\ report' = report /\ output' = output
        BY <2>9, <3>2 DEF Environment, WriteStdinReturn, PollInterrupted, Write, Close, Fork,
           ChildEnd, Tick, execVars, userVars
      <4>2. QED BY <4>1, <2>2
    <3>3. QED BY <3>1, <3>2
  <2>10. QED BY <2>7, <2>8, <2>9 DEF Next
<1>2. QED BY <1>1, Invariance, PTL DEF Spec, ReportIsFinal

(* epoll_wait is never asked to sleep past a deadline: no step of another  *)
(* process can change a deadline or the map while the Executor sleeps.     *)
THEOREM DeadlinesWakePoll == Spec => []PollWakesForDeadline
<1> DEFINE Sound == Inductive /\ PollWakesForDeadline
<1>1. Init => Sound
  BY InitInductive DEF Init, PollWakesForDeadline
<1>2. Sound /\ [Next]_vars => Sound'
  <2> SUFFICES ASSUME Sound, [Next]_vars PROVE PollWakesForDeadline'
    BY NextInductive
  <2>1. now \in Nat /\ \A id \in Id : deadline[id] \in Nat
    BY ConstantsAssumption DEF Inductive, TypeOK
  <2>2. CASE PollStart
    <3> SUFFICES ASSUME NEW j \in sandboxes PROVE wake_at' <= now \/ wake_at' <= deadline[j]
      BY <2>2 DEF PollStart, PollWakesForDeadline, execVars, kernVars
    <3>1. PICK id \in sandboxes :
            /\ nearest(id)
            /\ \/ wake_at' = Max({now, deadline[id]})
               \/ \E t \in PollTimeouts : wake_at' = Min({now + t, Max({now, deadline[id]})})
      BY <2>2 DEF PollStart
    <3>2. deadline[id] <= deadline[j] /\ deadline[id] \in Nat /\ deadline[j] \in Nat
      BY <2>1, <3>1 DEF nearest, Inductive, TypeOK
    <3>3. PICK m \in Nat : m = Max({now, deadline[id]})
      BY <2>1, <3>2, PairInNat
    <3>4. m = now \/ m = deadline[id]
      BY <2>1, <3>2, <3>3, PairMember
    <3>5. wake_at' \in Nat /\ wake_at' <= m
      <4>1. CASE wake_at' = m
        BY <4>1
      <4>2. ASSUME NEW t \in PollTimeouts, wake_at' = Min({now + t,
         m}) PROVE wake_at' \in Nat /\ wake_at' <= m
        <5>1. now + t \in Nat
          BY <2>1, ConstantsAssumption
        <5>2. QED BY <4>2, <5>1, PairInNat, MinBound
      <4>3. QED BY <3>1, <3>3, <4>1, <4>2
    <3>6. QED BY <2>1, <3>2, <3>4, <3>5
  <2>3. CASE Tick
    <3>1. now <= now' /\ now' \in Nat /\ pc' = pc /\ sandboxes' = sandboxes
          /\ deadline' = deadline /\ wake_at' = wake_at
      BY <2>1, <2>3 DEF Tick, execVars, callVars
    <3>2. wake_at \in Nat
      BY DEF Inductive, TypeOK
    <3>3. QED BY <2>1, <3>1, <3>2 DEF PollWakesForDeadline
  <2>4. CASE ~PollStart /\ ~Tick
    <3>1. pc' # "wait" \/ (/\ pc = "wait" /\ sandboxes' = sandboxes /\ deadline' = deadline
                           /\ wake_at' = wake_at /\ now' = now)
      <4>1. CASE User
        BY <2>4, <4>1 DEF User, SpawnStart, SpawnReturn, Spawn, SpawnError, Spawning, Kill, WriteStdinBlock, CloseStdin, PollEmpty,
           vars, execVars, callVars, kernVars
      <4>2. CASE Loop
        <5>1. ASSUME NEW i \in Id, NEW s \in Stream, read_pipe(i, s) PROVE pc' # "wait"
          <6>1. pc = "read" /\ (Break(i, s) \/ Continue(i, s))
            BY <5>1 DEF read_pipe, ReadWouldBlock, ReadEof, ReadData, AfterRead, Reading
          <6>2. QED BY <6>1 DEF Break, Continue
        <5>2. ASSUME NEW batch \in SUBSET epoll, PollReturn(batch) PROVE pc' # "wait"
          BY <5>2 DEF PollReturn
        <5>3. CheckDeadlines => pc' # "wait"
          BY DEF CheckDeadlines
        <5>4. ASSUME NEW i \in Id, Complete(i) PROVE pc' # "wait"
          BY <5>4 DEF Complete
        <5>5. QED BY <4>2, <5>1, <5>2, <5>3, <5>4 DEF Loop
      <4>3. CASE Environment
        BY <2>4, <4>3 DEF Environment, WriteStdinReturn, PollInterrupted, CompleteInterrupted,
           Write, Close, Fork, ChildEnd, execVars, callVars, kernVars
      <4>4. CASE UNCHANGED vars
        BY <4>4 DEF vars, execVars, callVars, kernVars
      <4>5. QED BY <4>1, <4>2, <4>3, <4>4 DEF Next
    <3>2. QED BY <3>1 DEF PollWakesForDeadline
  <2>5. QED BY <2>2, <2>3, <2>4
<1>3. Sound => PollWakesForDeadline
  OBVIOUS
<1>4. QED BY <1>1, <1>2, <1>3, PTL DEF Spec

(* No call of poll keeps the Executor longer than it has to: neither the   *)
(* wait for events nor the wait for an exit stalls another sandbox.        *)
THEOREM PollsAreBounded == Spec => []PollIsBounded
BY WaitsAreBounded, DeadlinesWakePoll, PTL DEF PollIsBounded

(* What one read() adds to the output of a sandbox, and to no other.       *)
LEMMA ReadAdds ==
  ASSUME Inductive, NEW i \in Id, NEW r \in Stream, ReadData(i, r)
  PROVE  /\ total(output[i]) \in Nat /\ total(output'[i]) \in Nat
         /\ total(output[i]) < total(output'[i])
         /\ \A other \in Id \ {i} : output'[other] = output[other]
<1>1. read_len(i, r) \in Nat /\ read_len(i, r) > 0
  BY ReadLength DEF ReadData
<1>2. /\ output[i] \in [Stream -> Nat] /\ output'[i] = [output[i] EXCEPT ![r] = @ + read_len(i, r)]
      /\ \A other \in Id \ {i} : output'[other] = output[other]
  BY DEF ReadData, Inductive, TypeOK
<1>3. /\ output[i]["stdout"] \in Nat /\ output[i]["stderr"] \in Nat
      /\ \/ /\ output'[i]["stdout"] = output[i]["stdout"] + read_len(i, r)
            /\ output'[i]["stderr"] = output[i]["stderr"]
         \/ /\ output'[i]["stdout"] = output[i]["stdout"]
            /\ output'[i]["stderr"] = output[i]["stderr"] + read_len(i, r)
  BY <1>2 DEF Stream
<1>4. QED BY <1>1, <1>2, <1>3 DEF total

(* A read() goes on while the sandbox is within its limit, and otherwise   *)
(* takes its pipe off the list.                                            *)
LEMMA ReadAdvances ==
  ASSUME Inductive, NEW i \in Id, NEW r \in Stream, ReadData(i, r)
  PROVE  Advances
<1> DEFINE over == over_limit([output[i] EXCEPT ![r] = @ + read_len(i, r)])
<1>1. /\ pc = "read" /\ <<i, r>> \in reading /\ to_remove' = to_remove
      /\ IF over THEN Break(i, r) ELSE Continue(i, r)
  BY DEF ReadData, Reading, AfterRead
<1>2. CASE over
  <2>1. reading' \subseteq reading /\ reading' # reading /\ pc' \in {"read", "check"}
    BY <1>1, <1>2 DEF Break
  <2>2. QED BY <1>1, <2>1 DEF Advances, Part
<1>3. CASE ~over
  <2>1. UNCHANGED <<pc, reading, to_remove>>
    BY <1>1, <1>3 DEF Continue
  <2>2. output'[i] = [output[i] EXCEPT ![r] = @ + read_len(i, r)]
    BY DEF ReadData, Inductive, TypeOK
  <2>3. total(output'[i]) <= MaxOutput
    BY <1>3, <2>2, ReadAdds, ConstantsAssumption DEF over_limit
  <2>4. Collects(i)
    BY <2>3, ReadAdds DEF Collects
  <2>5. QED BY <2>1, <2>4 DEF Advances
<1>4. QED BY <1>2, <1>3

(* A poll does a bounded amount of work: read_pipe stops at the limit, so  *)
(* a child that writes as fast as poll reads keeps no deadline of another  *)
(* sandbox waiting.                                                        *)
THEOREM PollsAdvance == Spec => PollAdvances
<1>1. ASSUME Inductive, [Next]_vars, Polling
      PROVE  Advances /\ \A id \in Id : total(output[id]) <= total(output'[id])
  <2>1. ASSUME NEW id \in Id PROVE total(output[id]) \in Nat
    <3>1. output[id] \in [Stream -> Nat]
      BY <1>1 DEF Inductive, TypeOK
    <3>2. output[id]["stdout"] \in Nat /\ output[id]["stderr"] \in Nat
      BY <3>1 DEF Stream
    <3>3. QED BY <3>2 DEF total
  <2>2. CASE output' = output
    <3>1. \A id \in Id : total(output[id]) <= total(output'[id])
      BY <2>1, <2>2
    <3>2. Advances
      <4>1. CASE User
        BY <1>1, <2>2, <4>1 DEF User, SpawnStart, SpawnReturn, Spawn, SpawnError, Spawning, Kill, WriteStdinBlock, CloseStdin, PollEmpty,
           PollStart, Polling, vars, Advances, callVars
      <4>2. ASSUME NEW batch \in SUBSET epoll, PollReturn(batch) PROVE Advances
        BY <4>2 DEF PollReturn, Advances, Part
      <4>3. ASSUME NEW i \in Id, NEW r \in Stream, read_pipe(i, r) PROVE Advances
        <5>1. CASE ReadData(i, r)
          BY <1>1, <5>1, ReadAdvances
        <5>2. CASE ReadWouldBlock(i, r) \/ ReadEof(i, r)
          <6>1. pc = "read" /\ <<i, r>> \in reading /\ Break(i, r) /\ to_remove' = to_remove
            BY <5>2 DEF ReadWouldBlock, ReadEof, Reading
          <6>2. reading' \subseteq reading /\ reading' # reading /\ pc' \in {"read", "check"}
            BY <6>1 DEF Break
          <6>3. QED BY <6>1, <6>2 DEF Advances, Part
        <5>3. QED BY <4>3, <5>1, <5>2 DEF read_pipe
      <4>4. CASE CheckDeadlines
        BY <4>4 DEF CheckDeadlines, Advances, Part
      <4>5. ASSUME NEW i \in Id, Complete(i) PROVE Advances
        <5>1. /\ pc = "complete" /\ i \in to_remove /\ to_remove' = to_remove \ {i}
              /\ pc' \in {"idle", "complete"} /\ reading' = reading
          BY <4>5 DEF Complete
        <5>2. QED BY <5>1 DEF Advances, Part
      <4>6. CASE Environment
        <5>1. CASE WriteStdinReturn
          BY <1>1, <5>1 DEF WriteStdinReturn, Polling
        <5>2. CASE PollInterrupted
          BY <5>2 DEF PollInterrupted, Advances, Part
        <5>3. ASSUME NEW i \in Id, CompleteInterrupted(i) PROVE Advances
          BY <5>3 DEF CompleteInterrupted, Advances, Part
        <5>4. CASE UNCHANGED callVars
          BY <2>2, <5>4 DEF Advances
        <5>5. QED BY <4>6, <5>1, <5>2, <5>3, <5>4 DEF Environment, Write, Close, Fork, ChildEnd, Tick
      <4>7. CASE UNCHANGED vars
        BY <4>7 DEF vars, execVars, Advances
      <4>8. QED BY <1>1, <4>1, <4>2, <4>3, <4>4, <4>5, <4>6, <4>7 DEF Next, Loop
    <3>3. QED BY <3>1, <3>2
  <2>3. ASSUME NEW i \in Id, NEW r \in Stream, ReadData(i, r)
        PROVE  Advances /\ \A id \in Id : total(output[id]) <= total(output'[id])
    <3>1. Advances
      BY <1>1, <2>3, ReadAdvances
    <3>2. /\ total(output[i]) \in Nat /\ total(output'[i]) \in Nat
          /\ total(output[i]) < total(output'[i])
          /\ \A other \in Id \ {i} : output'[other] = output[other]
      BY <1>1, <2>3, ReadAdds
    <3>3. ASSUME NEW id \in Id PROVE total(output[id]) <= total(output'[id])
      BY <2>1, <3>2
    <3>4. QED BY <3>1, <3>3
  <2>4. output' = output \/ \E i \in Id, r \in Stream : ReadData(i, r)
    <3>1. User => output' = output
      BY DEF User, SpawnStart, SpawnReturn, Spawn, SpawnError, Spawning, Kill, WriteStdinBlock, CloseStdin, PollEmpty, PollStart,
         vars, execVars
    <3>2. Loop => output' = output \/ \E i \in Id, r \in Stream : ReadData(i, r)
      BY DEF Loop, PollReturn, read_pipe, ReadWouldBlock, ReadEof, CheckDeadlines, Complete, execVars
    <3>3. Environment => output' = output
      BY DEF Environment, WriteStdinReturn, PollInterrupted, CompleteInterrupted, Write, Close, Fork,
         ChildEnd, Tick, execVars
    <3>4. QED BY <1>1, <3>1, <3>2, <3>3 DEF Next, vars, execVars
  <2>5. QED BY <2>2, <2>3, <2>4
<1>2. Inductive /\ [Next]_vars =>
        [Polling => Advances /\ \A id \in Id : total(output[id]) <= total(output'[id])]_vars
  BY <1>1
<1>3. QED BY <1>2, Invariance, PTL DEF Spec, PollAdvances

-----------------------------------------------------------------------------
(* The Executor implements Sandbox: the initial states map to initial      *)
(* states, and every step to a step of Sandbox or to no change at all.     *)

Mapped == Promise!promiseVars

(* What the mapping looks at, and no step inside a call changes.           *)
Visible == <<next_id, sandboxes, deadline, now, proc, cause, written, report>>

(* A step that leaves these alone, and the output of every sandbox that    *)
(* was reported, is invisible to the user.                                 *)
LEMMA InvisibleStep ==
  ASSUME UNCHANGED Visible, \A id \in Id : report[id] # "none" => output'[id] = output[id]
  PROVE  UNCHANGED Mapped
<1>1. \A id \in Id : stageOf(id)' = stageOf(id)
  BY DEF Visible, stageOf
<1>2. lateIds' = lateIds
  BY DEF Visible, lateIds
<1>3. \A id \in Id : resultOf(id)' = resultOf(id)
  BY DEF Visible, resultOf
<1>4. QED BY <1>1, <1>2, <1>3 DEF Visible, Mapped, Promise!promiseVars

(* Where a sandbox stands, read off the invariant.                         *)
LEMMA StagesOfInvariant ==
  ASSUME Inductive, NEW id \in Id
  PROVE  /\ stageOf(id) = "unused" <=> id >= next_id
         /\ stageOf(id) = "active" <=> id \in sandboxes
         /\ stageOf(id) \in {"unused", "refused"} <=> proc[id] \in {"none", "orphan"}
         /\ id >= next_id => id \notin sandboxes /\ report[id] = "none" /\ id \notin lateIds
<1>1. id >= next_id => proc[id] = "none" /\ id \notin sandboxes /\ report[id] = "none"
  BY ConstantsAssumption DEF Inductive, TypeOK, Fresh, Lifecycle, LifecycleOf, Id
<1>2. /\ id \in sandboxes => proc[id] \in {"running", "zombie"}
      /\ id \notin sandboxes => proc[id] \in {"none", "orphan", "reaped", "lost"}
  BY DEF Inductive, Lifecycle, LifecycleOf
<1>3. QED BY <1>1, <1>2 DEF stageOf, lateIds

(* A child that was not heard to end has no cause yet.                     *)
EndsOnce == \A id \in Id : proc[id] \in {"none", "orphan", "running"} => cause[id] = "none"

(* The cause of an end is recorded with the end. *)
LEMMA EndsOnceInductive ==
  ASSUME Inductive, EndsOnce, [Next]_vars
  PROVE  EndsOnce'
<1>1. ASSUME UNCHANGED <<proc, cause>> PROVE EndsOnce'
  BY <1>1 DEF EndsOnce
<1>2. ASSUME NEW t \in Timeouts, Spawn(t) PROVE EndsOnce'
  <2>1. next_id \in Id /\ cause[next_id] = "none"
    BY <1>2, NextIdIsFree, ConstantsAssumption DEF Spawn, Inductive, TypeOK, Fresh
  <2>2. QED BY <1>2, <2>1 DEF Spawn, EndsOnce, Inductive, TypeOK
<1>3. ASSUME SpawnError PROVE EndsOnce'
  <2>1. next_id \in Id /\ cause[next_id] = "none"
    BY <1>3, NextIdIsFree, ConstantsAssumption DEF SpawnError, Inductive, TypeOK, Fresh
  <2>2. QED BY <1>3, <2>1 DEF SpawnError, EndsOnce, Inductive, TypeOK
<1>4. ASSUME NEW id \in Id, Complete(id) \/ CompleteInterrupted(id) PROVE EndsOnce'
  BY <1>4 DEF Complete, CompleteInterrupted, wait_for_exit, EndsOnce, Inductive, TypeOK
<1>5. ASSUME NEW id \in Id, NEW how \in {"exit", "signal"}, ChildEnd(id, how) PROVE EndsOnce'
  BY <1>5 DEF ChildEnd, EndsOnce, Inductive, TypeOK
<1>6. CASE User
  <2>1. CASE (\E t \in Timeouts : Spawn(t)) \/ SpawnError
    BY <2>1, <1>2, <1>3
  <2>2. CASE ~((\E t \in Timeouts : Spawn(t)) \/ SpawnError)
    BY <1>1, <1>6, <2>2 DEF User, SpawnStart, SpawnReturn, Kill, WriteStdinBlock, CloseStdin, PollEmpty, PollStart,
       vars, kernVars
  <2>3. QED BY <2>1, <2>2
<1>7. CASE Loop
  <2>1. CASE \E id \in Id : Complete(id)
    BY <2>1, <1>4
  <2>2. CASE ~\E id \in Id : Complete(id)
    BY <1>1, <1>7, <2>2 DEF Loop, PollReturn, read_pipe, ReadWouldBlock, ReadEof, ReadData,
       CheckDeadlines, kernVars
  <2>3. QED BY <2>1, <2>2
<1>8. CASE Environment
  <2>1. CASE \E id \in Id : CompleteInterrupted(id)
    BY <2>1, <1>4
  <2>2. CASE \E id \in Id, how \in {"exit", "signal"} : ChildEnd(id, how)
    BY <2>2, <1>5
  <2>3. CASE /\ ~\E id \in Id : CompleteInterrupted(id)
             /\ ~\E id \in Id, how \in {"exit", "signal"} : ChildEnd(id, how)
    BY <1>1, <1>8, <2>3 DEF Environment, WriteStdinReturn, PollInterrupted, Write, Close, Fork,
       Tick, kernVars
  <2>4. QED BY <2>1, <2>2, <2>3
<1>9. CASE UNCHANGED vars
  BY <1>1, <1>9 DEF vars, kernVars
<1>10. QED BY <1>6, <1>7, <1>8, <1>9 DEF Next

(* A new Executor has promised nothing.                                    *)
LEMMA InitPromise == Init => Promise!Init
<1> SUFFICES ASSUME Init PROVE Promise!Init
  OBVIOUS
<1>1. \A id \in Id : stageOf(id) = "unused" /\ resultOf(id) = [status |-> "none"]
  BY ConstantsAssumption DEF Init, stageOf, resultOf, Id
<1>2. lateIds = {}
  BY DEF Init, lateIds
<1>3. QED BY <1>1, <1>2 DEF Init, Promise!Init, Promise!NoResult

(* spawn starts the sandbox with the next id.                              *)
LEMMA SpawnPromise ==
  ASSUME Inductive, NEW t \in Timeouts, Spawn(t)
  PROVE  Promise!Start(next_id)
<1>0. PICK new \in Id : new = next_id
  BY NextIdIsFree DEF Spawn, Inductive
<1>1. new \in Id /\ next_id' = new + 1 /\ sandboxes' = sandboxes \cup {new} /\ new \in Nat
  BY <1>0, NextIdIsFree DEF Spawn, Inductive, TypeOK
<1>2. /\ proc' = [proc EXCEPT ![new] = "running"] /\ proc \in [Id -> {"none", "orphan", "running", "zombie", "reaped", "lost"}]
      /\ deadline' = [deadline EXCEPT ![new] = now + t] /\ deadline \in [Id -> Nat]
      /\ UNCHANGED <<output, report, now, cause, written>>
  BY <1>0 DEF Spawn, Inductive, TypeOK
<1>3. \A j \in Id : j < new => stageOf(j) # "unused"
  BY <1>0, <1>1, StagesOfInvariant, ConstantsAssumption DEF Id
<1>4. stageOf(new) = "unused" /\ stageOf(new)' = "active" /\ new \notin lateIds
  <2>1. new >= next_id /\ stageOf(new) \in {"unused"} <=> new >= next_id
    BY <1>0, <1>1, StagesOfInvariant
  <2>2. stageOf(new)' = "active"
    <3>1. new \in sandboxes' /\ proc'[new] = "running" /\ ~(new >= next_id')
      BY <1>0, <1>1, <1>2
    <3>2. QED BY <3>1 DEF stageOf
  <2>3. QED BY <1>0, <1>1, <2>1, <2>2, StagesOfInvariant
<1>5. ASSUME NEW j \in Id, j # new PROVE stageOf(j)' = stageOf(j)
  <2>1. proc'[j] = proc[j] /\ (j \in sandboxes' <=> j \in sandboxes)
    BY <1>1, <1>2, <1>5
  <2>2. j >= next_id' <=> j >= next_id
    BY <1>0, <1>1, <1>5, ConstantsAssumption DEF Id
  <2>3. QED BY <2>1, <2>2 DEF stageOf
<1>6. lateIds' \in {lateIds, lateIds \cup {new}}
  <2>1. \A j \in Id : j # new => (j \in lateIds' <=> j \in lateIds)
    BY <1>2 DEF lateIds
  <2>2. lateIds \subseteq Id /\ lateIds' \subseteq Id
    BY DEF lateIds
  <2>3. CASE new \in lateIds'
    BY <1>0, <2>1, <2>2, <2>3
  <2>4. CASE new \notin lateIds'
    BY <1>0, <1>4, <2>1, <2>2, <2>4
  <2>5. QED BY <2>3, <2>4
<1>7. \A j \in Id : resultOf(j)' = resultOf(j)
  BY <1>2 DEF resultOf
<1>8. [j \in Id |-> stageOf(j)]' = [[j \in Id |-> stageOf(j)] EXCEPT ![new] = "active"]
  BY <1>1, <1>4, <1>5
<1>9. QED BY <1>0, <1>1, <1>2, <1>3, <1>4, <1>6, <1>7, <1>8 DEF Promise!Start, Promise!Hand

(* A spawn that fails uses up the next id.                                 *)
LEMMA SpawnErrorPromise ==
  ASSUME Inductive, SpawnError
  PROVE  Promise!Refuse(next_id)
<1>0. PICK new \in Id : new = next_id
  BY NextIdIsFree DEF SpawnError, Inductive
<1>1. new \in Nat /\ next_id' = new + 1 /\ sandboxes' = sandboxes
  BY <1>0 DEF SpawnError, Inductive, TypeOK
<1>2. /\ \E p \in {"none", "orphan"} : proc' = [proc EXCEPT ![new] = p]
      /\ proc \in [Id -> {"none", "orphan", "running", "zombie", "reaped", "lost"}]
      /\ UNCHANGED <<deadline, output, report, now, cause, written>>
  BY <1>0 DEF SpawnError, Inductive, TypeOK, userVars
<1>3. proc'[new] \in {"none", "orphan"} /\ \A j \in Id : j # new => proc'[j] = proc[j]
  BY <1>2
<1>4. \A j \in Id : j < new => stageOf(j) # "unused"
  BY <1>0, <1>1, StagesOfInvariant, ConstantsAssumption DEF Id
<1>5. stageOf(new) = "unused" /\ new \notin lateIds /\ new \notin sandboxes
  <2>1. new >= next_id
    BY <1>0, <1>1
  <2>2. QED BY <2>1, StagesOfInvariant
<1>6. stageOf(new)' = "refused"
  <2>1. new \notin sandboxes' /\ proc'[new] \in {"none", "orphan"} /\ ~(new >= next_id')
    BY <1>0, <1>1, <1>3, <1>5
  <2>2. QED BY <2>1 DEF stageOf
<1>7. ASSUME NEW j \in Id, j # new PROVE stageOf(j)' = stageOf(j)
  <2>1. j >= next_id' <=> j >= next_id
    BY <1>0, <1>1, <1>7, ConstantsAssumption DEF Id
  <2>2. QED BY <1>1, <1>3, <1>7, <2>1 DEF stageOf
<1>8. lateIds' = lateIds
  BY <1>2, <1>3, <1>5 DEF lateIds
<1>9. \A j \in Id : resultOf(j)' = resultOf(j)
  BY <1>2 DEF resultOf
<1>10. [j \in Id |-> stageOf(j)]' = [[j \in Id |-> stageOf(j)] EXCEPT ![new] = "refused"]
  BY <1>0, <1>6, <1>7
<1>11. QED BY <1>0, <1>2, <1>4, <1>5, <1>8, <1>9, <1>10 DEF Promise!Refuse, Promise!Hand

(* A unit written to a stream is output of an active sandbox.              *)
LEMMA WritePromise ==
  ASSUME Inductive, NEW id \in Id, NEW s \in Stream, Write(id, s)
  PROVE  Promise!Produce(id, s)
<1>1. id \in sandboxes
  BY DEF Write, Inductive, Lifecycle, LifecycleOf
<1>2. /\ UNCHANGED <<next_id, sandboxes, deadline, now, proc, cause, report, output>>
      /\ written' = [written EXCEPT ![id][s] = @ + 1]
  BY DEF Write, execVars, userVars
<1>3. \A j \in Id : stageOf(j)' = stageOf(j) /\ resultOf(j)' = resultOf(j)
  BY <1>2 DEF stageOf, resultOf
<1>4. lateIds' = lateIds
  BY <1>2 DEF lateIds
<1>5. stageOf(id) = "active"
  BY <1>1, StagesOfInvariant
<1>6. QED BY <1>2, <1>3, <1>4, <1>5 DEF Promise!Produce

(* A child ends once.                                                      *)
LEMMA ChildEndPromise ==
  ASSUME Inductive, EndsOnce, NEW id \in Id, NEW how \in {"exit", "signal"}, ChildEnd(id, how)
  PROVE  Promise!End(id, how)
<1>1. id \in sandboxes /\ proc[id] = "running" /\ proc'[id] = "zombie"
  BY DEF ChildEnd, Inductive, TypeOK, Lifecycle, LifecycleOf
<1>2. cause[id] = "none"
  BY <1>1 DEF EndsOnce
<1>3. /\ UNCHANGED <<next_id, sandboxes, deadline, now, written, report, output>>
      /\ cause' = [cause EXCEPT ![id] = how]
      /\ \A j \in Id : j # id => proc'[j] = proc[j]
  BY DEF ChildEnd, Inductive, TypeOK, execVars, userVars
<1>4. \A j \in Id : stageOf(j)' = stageOf(j) /\ resultOf(j)' = resultOf(j)
  BY <1>1, <1>3 DEF stageOf, resultOf
<1>5. lateIds' = lateIds
  BY <1>1, <1>3 DEF lateIds
<1>6. stageOf(id) = "active"
  BY <1>1, StagesOfInvariant
<1>7. QED BY <1>2, <1>3, <1>4, <1>5, <1>6 DEF Promise!End

(* Time passes for sandboxes that were started only.                       *)
LEMMA TickPromise ==
  ASSUME Inductive, Tick
  PROVE  Promise!Expire
<1>1. now' = now + 1 /\ now \in Nat /\ deadline \in [Id -> Nat]
      /\ UNCHANGED <<next_id, sandboxes, deadline, proc, cause, written, report, output>>
  BY DEF Tick, Inductive, TypeOK, execVars, userVars
<1>2. \A j \in Id : stageOf(j)' = stageOf(j) /\ resultOf(j)' = resultOf(j)
  BY <1>1 DEF stageOf, resultOf
<1>3. lateIds \subseteq lateIds'
  BY <1>1 DEF lateIds
<1>4. lateIds' \in SUBSET {j \in Id : stageOf(j) \notin {"unused", "refused"}}
  BY <1>1, StagesOfInvariant DEF lateIds
<1>5. \A j \in Id : [k \in Id |-> stageOf(k)][j] = stageOf(j)
  OBVIOUS
<1>6. QED BY <1>1, <1>2, <1>3, <1>4, <1>5 DEF Promise!Expire

(* A sandbox that is removed was active, and no other is touched.          *)
LEMMA RemovalPromise ==
  ASSUME Inductive, NEW id \in Id, id \in sandboxes,
         NEW end \in {"reaped", "lost"}, proc' = [proc EXCEPT ![id] = end],
         UNCHANGED <<next_id, deadline, now, output, cause, written>>,
         sandboxes' = sandboxes \ {id}
  PROVE  /\ stageOf(id) = "active"
         /\ stageOf(id)' = IF end = "reaped" THEN "reported" ELSE "dropped"
         /\ \A j \in Id : j # id => stageOf(j)' = stageOf(j)
         /\ lateIds' = lateIds
<1>1. stageOf(id) = "active" /\ proc[id] \in {"running", "zombie"} /\ ~(id >= next_id)
  BY StagesOfInvariant DEF Inductive, Lifecycle, LifecycleOf
<1>2. proc'[id] = end /\ \A j \in Id : j # id => proc'[j] = proc[j]
  BY DEF Inductive, TypeOK
<1>3. stageOf(id)' = IF end = "reaped" THEN "reported" ELSE "dropped"
  BY <1>1, <1>2 DEF stageOf
<1>4. \A j \in Id : j # id => stageOf(j)' = stageOf(j)
  BY <1>2 DEF stageOf
<1>5. lateIds' = lateIds
  BY <1>1, <1>2 DEF lateIds
<1>6. QED BY <1>1, <1>3, <1>4, <1>5

(* A completion is the sandbox's terminal event: everything it wrote, with *)
(* a status that is true.                                                  *)
LEMMA CompletePromise ==
  ASSUME Inductive, NEW id \in Id, Complete(id)
  PROVE  Promise!Report(id, exit_status(id))
<1>1. id \in sandboxes /\ proc[id] = "zombie" /\ cause[id] # "none"
  BY DEF Complete, wait_for_exit, Inductive, TypeOK, PidfdSound
<1>2. /\ proc' = [proc EXCEPT ![id] = "reaped"] /\ sandboxes' = sandboxes \ {id}
      /\ report' = [report EXCEPT ![id] = exit_status(id)] /\ report \in [Id -> Status \cup {"none"}]
      /\ UNCHANGED <<next_id, deadline, now, output, cause, written>>
  BY DEF Complete, wait_for_exit, Remove, Inductive, TypeOK
<1>3. output[id] = written[id]
  <2>1. \A s \in Stream : pipe[id][s] = 0 /\ output[id][s] + pipe[id][s] = written[id][s]
    BY DEF Complete, Inductive, CallState, Conservation
  <2>2. output[id] \in [Stream -> Nat] /\ written[id] \in [Stream -> Nat]
    BY DEF Inductive, TypeOK
  <2>3. \A s \in Stream : output[id][s] = written[id][s]
    BY <2>1, <2>2
  <2>4. QED BY <2>2, <2>3
<1>4. exit_status(id) # "none" /\ Promise!True(id, exit_status(id))
  <2>1. cause[id] \in {"exit", "signal"} /\ proc[id] \notin {"none", "orphan"}
    BY <1>1 DEF Inductive, TypeOK
  <2>2. CASE now >= deadline[id]
    BY <2>1, <2>2 DEF exit_status, Promise!True, lateIds
  <2>3. CASE ~(now >= deadline[id]) /\ cause[id] = "signal"
    BY <2>3 DEF exit_status, Promise!True
  <2>4. CASE ~(now >= deadline[id]) /\ cause[id] = "exit" /\ over_limit(output[id])
    BY <1>3, <2>4 DEF exit_status, Promise!True
  <2>5. CASE ~(now >= deadline[id]) /\ cause[id] = "exit" /\ ~over_limit(output[id])
    BY <1>3, <2>5 DEF exit_status, Promise!True
  <2>6. QED BY <2>1, <2>2, <2>3, <2>4, <2>5
<1>5. /\ stageOf(id) = "active" /\ stageOf(id)' = "reported"
      /\ \A j \in Id : j # id => stageOf(j)' = stageOf(j)
      /\ lateIds' = lateIds
  BY <1>1, <1>2, RemovalPromise
<1>6. resultOf(id)' = [status |-> exit_status(id), output |-> written[id]]
  BY <1>2, <1>3, <1>4 DEF resultOf
<1>7. \A j \in Id : j # id => resultOf(j)' = resultOf(j)
  BY <1>2 DEF resultOf
<1>8. QED BY <1>1, <1>2, <1>4, <1>5, <1>6, <1>7 DEF Promise!Report

(* waitid's error path drops a late sandbox.                               *)
LEMMA CompleteInterruptedPromise ==
  ASSUME Inductive, NEW id \in Id, CompleteInterrupted(id)
  PROVE  Promise!Drop(id)
<1>1. id \in sandboxes /\ proc[id] = "running" /\ id \in lateIds
  BY DEF CompleteInterrupted, Inductive, TypeOK, CallState, PidfdSound, lateIds
<1>2. /\ proc' = [proc EXCEPT ![id] = "lost"] /\ sandboxes' = sandboxes \ {id}
      /\ UNCHANGED <<next_id, deadline, now, output, cause, written, report>>
  BY DEF CompleteInterrupted, Remove
<1>3. /\ stageOf(id) = "active" /\ stageOf(id)' = "dropped"
      /\ \A j \in Id : j # id => stageOf(j)' = stageOf(j)
      /\ lateIds' = lateIds
  BY <1>1, <1>2, RemovalPromise
<1>4. \A j \in Id : resultOf(j)' = resultOf(j)
  BY <1>2 DEF resultOf
<1>5. QED BY <1>1, <1>2, <1>3, <1>4 DEF Promise!Drop

(* Every step is one of Sandbox, or none.                                  *)
LEMMA NextPromise ==
  ASSUME Inductive, EndsOnce, [Next]_vars
  PROVE  [Promise!Next]_Mapped
<1>1. ASSUME UNCHANGED Visible, UNCHANGED output PROVE UNCHANGED Mapped
  BY <1>1, InvisibleStep
<1>2. ASSUME NEW id \in Id, NEW s \in Stream, ReadData(id, s) PROVE UNCHANGED Mapped
  <2>1. report[id] = "none"
    BY <1>2 DEF ReadData, Reading, Inductive, TypeOK, Lifecycle, LifecycleOf
  <2>2. UNCHANGED Visible /\ \A j \in Id : j # id => output'[j] = output[j]
    BY <1>2 DEF ReadData, Visible, Inductive, TypeOK, userVars
  <2>3. QED BY <2>1, <2>2, InvisibleStep
<1>3. CASE User
  <2>1. CASE \E t \in Timeouts : Spawn(t)
    <3>1. next_id \in Id
      BY <2>1, NextIdIsFree DEF Spawn, Inductive
    <3>2. QED BY <2>1, <3>1, SpawnPromise DEF Promise!Next
  <2>2. CASE SpawnError
    <3>1. next_id \in Id
      BY <2>2, NextIdIsFree DEF SpawnError, Inductive
    <3>2. QED BY <2>2, <3>1, SpawnErrorPromise DEF Promise!Next
  <2>3. CASE ~(\E t \in Timeouts : Spawn(t)) /\ ~SpawnError
    BY <1>1, <1>3, <2>3 DEF User, SpawnStart, SpawnReturn, Kill, WriteStdinBlock, CloseStdin, PollEmpty, PollStart,
       Visible, vars, execVars, kernVars, userVars
  <2>4. QED BY <2>1, <2>2, <2>3
<1>4. CASE Loop
  <2>1. CASE \E id \in Id, s \in Stream : ReadData(id, s)
    BY <2>1, <1>2
  <2>2. ASSUME NEW id \in Id, Complete(id) PROVE Promise!Next
    <3>1. exit_status(id) \in Status
      BY DEF exit_status, Status
    <3>2. QED BY <2>2, <3>1, CompletePromise DEF Promise!Next, Status
  <2>3. CASE /\ ~\E id \in Id, s \in Stream : ReadData(id, s)
             /\ ~\E id \in Id : Complete(id)
    BY <1>1, <1>4, <2>3 DEF Loop, PollReturn, read_pipe, ReadWouldBlock, ReadEof,
       CheckDeadlines, Visible, execVars, kernVars, userVars
  <2>4. QED BY <2>1, <2>2, <2>3
<1>5. CASE Environment
  <2>1. CASE \E id \in Id : CompleteInterrupted(id)
    BY <2>1, CompleteInterruptedPromise DEF Promise!Next
  <2>2. CASE \E id \in Id, s \in Stream : Write(id, s)
    BY <2>2, WritePromise DEF Promise!Next
  <2>3. CASE \E id \in Id, how \in {"exit", "signal"} : ChildEnd(id, how)
    BY <2>3, ChildEndPromise DEF Promise!Next
  <2>4. CASE Tick
    BY <2>4, TickPromise DEF Promise!Next
  <2>5. CASE /\ ~\E id \in Id : CompleteInterrupted(id)
             /\ ~\E id \in Id, s \in Stream : Write(id, s)
             /\ ~\E id \in Id, how \in {"exit", "signal"} : ChildEnd(id, how)
             /\ ~Tick
    BY <1>1, <1>5, <2>5 DEF Environment, WriteStdinReturn, PollInterrupted, Close, Fork,
       Visible, execVars, kernVars, userVars
  <2>6. QED BY <2>1, <2>2, <2>3, <2>4, <2>5
<1>6. CASE UNCHANGED vars
  BY <1>1, <1>6 DEF vars, Visible, execVars, kernVars, userVars
<1>7. QED BY <1>3, <1>4, <1>5, <1>6 DEF Next

(* The Executor keeps the promise of Sandbox: an id is used once, an event *)
(* carries all that was ever written and a true status, nothing follows    *)
(* it, and only a late sandbox can go without one.                         *)
THEOREM PromiseKept == Spec => ImplementsSandbox
<1>1. Init => Promise!Init
  BY InitPromise
<1>2. Init => EndsOnce
  BY DEF Init, EndsOnce
<1>3. Inductive /\ EndsOnce /\ [Next]_vars => EndsOnce'
  BY EndsOnceInductive
<1>4. Inductive /\ EndsOnce /\ [Next]_vars => [Promise!Next]_(Promise!promiseVars)
  BY NextPromise DEF Mapped
<1>5. QED BY <1>1, <1>2, <1>3, <1>4, Invariance, PTL DEF Spec, ImplementsSandbox, Promise!Spec
=============================================================================
