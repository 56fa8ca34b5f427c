--------------------------- MODULE MonitorProofs ----------------------------
(* Proofs about Monitor, for every limit, buffer, pipe and stdin, any      *)
(* number of descendants and any clock.                                    *)
EXTENDS Monitor, SequenceTheorems, TLAPS

-----------------------------------------------------------------------------
(* The inductive invariant.                                                *)

(* The call has no verdict on the child yet.                               *)
Before == {"stdin", "loop", "stdout", "stderr", "pidfd", "wait_exit"}

(* drain_remaining is done with a stream.                                  *)
Drained(s) == pc \in IF s = "stdout" THEN {"drain_stderr", "cleanup", "done"} ELSE {"cleanup", "done"}

Typed ==
  /\ TypeOK
  /\ buf \in [Stream -> Seq(1..MaxWrite)]
  /\ taken \in [Stream -> Nat]

(* Where the caller stands, what it knows of the child, and what is left.  *)
Stage ==
  /\ pc \in Before => status = "Exited"
  /\ pc \in Before \cup {"wait_killed"} => proc # "reaped" /\ ~exit_seen
  /\ pc = "wait_killed" => status \in {"Timeout", "OutputLimitExceeded"}
  /\ pc \in {"drain_stdout", "drain_stderr"} => status # "Err"
  /\ pc \notin Before \cup {"wait_killed"} /\ status # "Err" => proc = "reaped"
  /\ pc = "done" /\ status # "Err" => ~workspace

(* What a status says once there is one.                                   *)
Verdict ==
  /\ pc \notin Before /\ status = "Exited" => cause = "exit" /\ exit_seen
  /\ status = "Signaled" => cause = "signal" /\ exit_seen
  /\ status = "Timeout" => killed /\ ~exit_seen /\ now >= deadline
  /\ status = "OutputLimitExceeded" =>
       killed /\ ~exit_seen /\ \E s \in Stream : written[s] > MaxOutput

(* The child's end is recorded when it comes.                              *)
Ended ==
  /\ proc # "running" => cause # "none"
  /\ \A s \in Stream : at_end[s] <= written[s]

Straight(s) == \A k \in 1..Len(buf[s]) : buf[s][k] = k

(* A buffer of length len with at most one gap, of g units, after the n-th.*)
Shape(s, len, n, g) ==
  /\ n <= len
  /\ \A k \in 1..len : buf[s][k] = IF k <= n THEN k ELSE k + g
  /\ taken[s] = len + g \/ (len = MaxOutput /\ taken[s] >= len + g)
  /\ g > 0 => status \in {"OutputLimitExceeded", "Err"}

(* What was collected of a stream, against what was taken from its pipe.   *)
Collected(s) ==
  /\ Len(buf[s]) <= MaxOutput
  /\ pc \in Before => Len(buf[s]) = taken[s]
  /\ status # "OutputLimitExceeded" \/ pc = "wait_killed" => Straight(s)
  /\ \E n \in Nat, g \in 0..BufLen : Shape(s, Len(buf[s]), n, g)
  /\ Drained(s) /\ status \notin {"OutputLimitExceeded", "Err"} =>
       Len(buf[s]) >= MaxOutput \/ Len(buf[s]) >= at_end[s]

MonitorInv == Typed /\ Stage /\ Verdict /\ Ended /\ \A s \in Stream : Collected(s)

-----------------------------------------------------------------------------
(* Pairs, chunks and what fits of them.                                    *)

LEMMA LeastOfTwo ==
  ASSUME NEW a \in Int, NEW b \in Int
  PROVE  Min({a, b}) = IF a <= b THEN a ELSE b
BY DEF Min

(* One read() returns the next units of the stream, no more than there are.*)
LEMMA ChunkTaken ==
  ASSUME Typed, NEW s \in Stream
  PROVE  \E c \in 0..BufLen :
           /\ Len(Chunk(s)) = c /\ Chunk(s) \in Seq(1..MaxWrite)
           /\ taken[s] + c <= written[s]
           /\ written[s] > taken[s] => c > 0
           /\ \A k \in 1..c : Chunk(s)[k] = taken[s] + k
<1>1. taken[s] \in Nat /\ written[s] \in Nat /\ taken[s] <= written[s] /\ written[s] <= MaxWrite
  BY MonitorAssumption DEF Typed, TypeOK
<1>2. BufLen \in Nat \ {0} /\ MaxWrite \in Nat
  BY MonitorAssumption
<1>3. PICK c \in Nat : c = Min({BufLen, written[s] - taken[s]})
  BY <1>1, <1>2, LeastOfTwo
<1>4. c <= BufLen /\ taken[s] + c <= written[s] /\ (written[s] > taken[s] => c > 0)
  BY <1>1, <1>2, <1>3, LeastOfTwo
<1>5. Chunk(s) = [k \in 1..c |-> taken[s] + k]
  BY <1>3 DEF Chunk
<1>6. \A k \in 1..c : taken[s] + k \in 1..MaxWrite
  BY <1>1, <1>2, <1>4
<1>7. Chunk(s) \in Seq(1..MaxWrite) /\ Len(Chunk(s)) = c
  BY <1>5, <1>6
<1>8. QED BY <1>4, <1>5, <1>7

(* Of a chunk, drain_remaining keeps what the limit has room for.          *)
LEMMA FittingTaken ==
  ASSUME Typed, NEW s \in Stream, NEW room \in Nat, room = MaxOutput - Len(buf[s]),
         NEW c \in Nat, Len(Chunk(s)) = c, Chunk(s) \in Seq(1..MaxWrite),
         \A k \in 1..c : Chunk(s)[k] = taken[s] + k
  PROVE  \E m \in Nat :
           /\ m <= c /\ m <= room /\ (m = c \/ m = room)
           /\ Fitting(s) \in Seq(1..MaxWrite) /\ Len(Fitting(s)) = m
           /\ \A k \in 1..m : Fitting(s)[k] = taken[s] + k
<1>1. PICK m \in Nat : m = Min({c, room})
  BY LeastOfTwo
<1>2. m <= c /\ m <= room /\ (m = c \/ m = room)
  BY <1>1, LeastOfTwo
<1>3. Fitting(s) = SubSeq(Chunk(s), 1, m)
  BY <1>1 DEF Fitting
<1>4. \A i \in 1..m : Chunk(s)[i] \in 1..MaxWrite
  <2>1. \A i \in 1..c : Chunk(s)[i] \in 1..MaxWrite
    BY ElementOfSeq
  <2>2. QED BY <1>2, <2>1
<1>5. /\ Fitting(s) \in Seq(1..MaxWrite) /\ Len(Fitting(s)) = IF 1 <= m THEN m - 1 + 1 ELSE 0
      /\ \A i \in 1..(m - 1 + 1) : Fitting(s)[i] = Chunk(s)[1 + i - 1]
  BY <1>3, <1>4, SubSeqProperties
<1>6. Len(Fitting(s)) = m
  BY <1>5
<1>7. \A i \in 1..m : Fitting(s)[i] = taken[s] + i
  BY <1>2, <1>5
<1>8. QED BY <1>2, <1>5, <1>6, <1>7

(* A buffer that took more of its stream.                                  *)
LEMMA Grown ==
  ASSUME Typed, NEW s \in Stream, NEW more \in Seq(1..MaxWrite),
         buf' = [buf EXCEPT ![s] = @ \o more]
  PROVE  /\ buf' \in [Stream -> Seq(1..MaxWrite)]
         /\ Len(buf'[s]) = Len(buf[s]) + Len(more)
         /\ \A k \in 1..(Len(buf[s]) + Len(more)) :
              buf'[s][k] = IF k <= Len(buf[s]) THEN buf[s][k] ELSE more[k - Len(buf[s])]
         /\ \A r \in Stream : r # s => buf'[r] = buf[r]
<1>1. buf[s] \in Seq(1..MaxWrite)
  BY DEF Typed
<1>2. buf'[s] = buf[s] \o more
  BY DEF Typed
<1>3. /\ buf[s] \o more \in Seq(1..MaxWrite) /\ Len(buf[s] \o more) = Len(buf[s]) + Len(more)
      /\ \A k \in 1..(Len(buf[s]) + Len(more)) :
           (buf[s] \o more)[k] = IF k <= Len(buf[s]) THEN buf[s][k] ELSE more[k - Len(buf[s])]
  BY <1>1, ConcatProperties
<1>4. QED BY <1>2, <1>3 DEF Typed

LEMMA LengthKnown ==
  ASSUME Typed, NEW s \in Stream
  PROVE  \E len \in Nat : len = Len(buf[s])
<1>1. buf[s] \in Seq(1..MaxWrite)
  BY DEF Typed
<1>2. QED BY <1>1

-----------------------------------------------------------------------------
(* Steps that leave the buffers alone.                                     *)

Alone == <<buf, taken>>

LEMMA CollectedKeeps ==
  ASSUME MonitorInv, UNCHANGED Alone, NEW s \in Stream,
         pc' \in Before => pc \in Before,
         status' # "OutputLimitExceeded" \/ pc' = "wait_killed" =>
            status # "OutputLimitExceeded" \/ pc = "wait_killed",
         status \in {"OutputLimitExceeded", "Err"} => status' \in {"OutputLimitExceeded", "Err"},
         Drained(s)' /\ status' \notin {"OutputLimitExceeded", "Err"} =>
            /\ Drained(s) /\ status \notin {"OutputLimitExceeded", "Err"}
            /\ at_end'[s] = at_end[s]
  PROVE  Collected(s)'
<1>1. buf' = buf /\ taken' = taken /\ Collected(s)
  BY DEF Alone, MonitorInv
<1>2. ASSUME NEW n \in Nat, NEW g \in 0..BufLen, Shape(s, Len(buf[s]), n, g)
      PROVE  Shape(s, Len(buf[s]), n, g)'
  BY <1>1, <1>2 DEF Shape
<1>3. Straight(s) => Straight(s)'
  BY <1>1 DEF Straight
<1>4. QED BY <1>1, <1>2, <1>3 DEF Collected

(* Only the caller's own progress, or the world's.                         *)
LEMMA StdinKeeps ==
  ASSUME MonitorInv, WriteStdin \/ WriteStdinFails \/ StartMonitor
  PROVE  MonitorInv'
<1>1. Typed'
  <2>1. CASE WriteStdin
    <3>1. PICK left \in Nat, inside \in Nat :
            left = stdin_left /\ inside = stdin_pipe /\ left <= StdinLen /\ inside <= PipeCap
      BY MonitorAssumption DEF MonitorInv, Typed, TypeOK
    <3>2. PICK n \in Int : n = Min({left, PipeCap - inside})
      BY <3>1, MonitorAssumption, LeastOfTwo
    <3>3. n <= left /\ n <= PipeCap - inside /\ n \in Int
      BY <3>1, <3>2, MonitorAssumption, LeastOfTwo
    <3>4. n > 0 /\ stdin_left' = left - n /\ stdin_pipe' = inside + n
      BY <2>1, <3>1, <3>2 DEF WriteStdin
    <3>5. stdin_left' \in 0..StdinLen /\ stdin_pipe' \in 0..PipeCap
      BY <3>1, <3>3, <3>4, MonitorAssumption
    <3>6. QED BY <2>1, <3>5 DEF WriteStdin, MonitorInv, Typed, TypeOK
  <2>2. CASE WriteStdinFails
    BY <2>2 DEF WriteStdinFails, MonitorInv, Typed, TypeOK, Statuses, kernVars
  <2>3. CASE StartMonitor
    <3>1. deadline' \in Nat
      <4>1. now \in Nat /\ Timeout \in Nat /\ deadline' = now + Timeout
        BY <2>3, MonitorAssumption DEF StartMonitor, MonitorInv, Typed, TypeOK
      <4>2. QED BY <4>1
    <3>2. 0 \in 0..PipeCap /\ {} \in SUBSET Process
      BY MonitorAssumption
    <3>3. QED BY <2>3, <3>1, <3>2 DEF StartMonitor, MonitorInv, Typed, TypeOK
  <2>4. QED BY <2>1, <2>2, <2>3
<1>2. Stage' /\ Verdict' /\ Ended'
  BY DEF WriteStdin, WriteStdinFails, StartMonitor, MonitorInv, Stage, Verdict, Ended, Before, kernVars
<1>3. ASSUME NEW s \in Stream PROVE Collected(s)'
  <2>1. pc = "stdin" /\ status = "Exited" /\ UNCHANGED Alone
    BY DEF WriteStdin, WriteStdinFails, StartMonitor, MonitorInv, Stage, Before, Alone, kernVars
  <2>2. pc' \in {"stdin", "loop"} \/ status' = "Err"
    BY <2>1 DEF WriteStdin, WriteStdinFails, StartMonitor
  <2>3. Drained(s)' => status' = "Err"
    BY <2>2 DEF Drained
  <2>4. QED BY <2>1, <2>3, CollectedKeeps DEF Before
<1>4. QED BY <1>1, <1>2, <1>3 DEF MonitorInv

LEMMA LoopKeeps ==
  ASSUME MonitorInv,
         LoopTimeout \/ LoopPoll \/ CheckExit \/ \E s \in Stream : ReadNothing(s)
  PROVE  MonitorInv'
<1>0. /\ pc \in Before /\ pc' \in Before \cup {"wait_killed"} /\ UNCHANGED Alone
      /\ status = "Exited" /\ status' \in {"Exited", "Timeout"}
  BY DEF LoopTimeout, LoopPoll, CheckExit, ReadNothing, After, Stream, MonitorInv, Stage, Before,
     Alone, kernVars
<1>1. Typed'
  <2>1. CASE LoopTimeout
    BY <2>1 DEF LoopTimeout, MonitorInv, Typed, TypeOK, Statuses
  <2>2. CASE LoopPoll
    <3>1. revents' \in [in : SUBSET Stream, hup : SUBSET Stream, pidfd : BOOLEAN]
      <4>1. PICK in \in SUBSET Stream, hup \in SUBSET Stream, pidfd \in BOOLEAN :
              revents' = [in |-> in, hup |-> hup, pidfd |-> pidfd]
        BY <2>2 DEF LoopPoll, Quiet
      <4>2. QED BY <4>1
    <3>2. QED BY <2>2, <3>1 DEF LoopPoll, MonitorInv, Typed, TypeOK, kernVars
  <2>3. CASE CheckExit
    BY <2>3 DEF CheckExit, MonitorInv, Typed, TypeOK, kernVars
  <2>4. ASSUME NEW s \in Stream, ReadNothing(s) PROVE Typed'
    BY <2>4 DEF ReadNothing, After, MonitorInv, Typed, TypeOK, kernVars
  <2>5. QED BY <2>1, <2>2, <2>3, <2>4
<1>2. Stage' /\ Verdict' /\ Ended'
  <2>1. CASE LoopTimeout
    BY <1>0, <2>1 DEF LoopTimeout, timed_out, MonitorInv, Stage, Verdict, Ended, Before
  <2>2. CASE LoopPoll \/ CheckExit \/ \E s \in Stream : ReadNothing(s)
    <3>1. UNCHANGED <<status, exit_seen, workspace, kernVars, deadline>> /\ pc' \in Before
      BY <2>2 DEF LoopPoll, CheckExit, ReadNothing, After, Before, Stream
    <3>2. QED BY <1>0, <3>1 DEF MonitorInv, Stage, Verdict, Ended, Before, kernVars
  <2>3. QED BY <2>1, <2>2
<1>3. ASSUME NEW s \in Stream PROVE Collected(s)'
  <2>1. ~Drained(s)'
    BY <1>0 DEF Drained, Before
  <2>2. QED BY <1>0, <2>1, CollectedKeeps
<1>4. QED BY <1>1, <1>2, <1>3 DEF MonitorInv

LEMMA WaitKeeps ==
  ASSUME MonitorInv, WaitKilled \/ WaitExit \/ WaitInterrupted
  PROVE  MonitorInv'
<1>1. Typed'
  BY DEF WaitKilled, WaitExit, WaitInterrupted, exit_status, MonitorInv, Typed, TypeOK, Statuses,
     kernVars
<1>2. Stage' /\ Verdict' /\ Ended'
  <2>1. CASE WaitKilled
    BY <2>1 DEF WaitKilled, MonitorInv, Stage, Verdict, Ended, Before
  <2>2. CASE WaitExit
    <3>1. cause \in {"exit", "signal"}
      BY <2>2 DEF WaitExit, MonitorInv, Ended, Typed, TypeOK
    <3>2. QED BY <2>2, <3>1 DEF WaitExit, exit_status, MonitorInv, Stage, Verdict, Ended, Before
  <2>3. CASE WaitInterrupted
    BY <2>3 DEF WaitInterrupted, MonitorInv, Stage, Verdict, Ended, Before, kernVars
  <2>4. QED BY <2>1, <2>2, <2>3
<1>3. ASSUME NEW s \in Stream PROVE Collected(s)'
  <2>1. UNCHANGED Alone /\ pc \in {"wait_killed", "wait_exit"}
    BY DEF WaitKilled, WaitExit, WaitInterrupted, Alone, kernVars
  <2>2. pc = "wait_killed" \/ status = "Exited"
    BY <2>1 DEF MonitorInv, Stage, Before
  <2>3. /\ pc' \notin Before \cup {"wait_killed"}
        /\ status \in {"OutputLimitExceeded", "Err"} => status' \in {"OutputLimitExceeded", "Err"}
    BY <2>1, <2>2 DEF WaitKilled, WaitExit, WaitInterrupted, Before
  <2>4. Drained(s)' => status' = "Err"
    BY DEF WaitKilled, WaitExit, WaitInterrupted, Drained
  <2>5. QED BY <2>1, <2>2, <2>3, <2>4, CollectedKeeps
<1>4. QED BY <1>1, <1>2, <1>3 DEF MonitorInv

LEMMA CleanupKeeps ==
  ASSUME MonitorInv, Cleanup
  PROVE  MonitorInv'
<1>1. Typed'
  BY DEF Cleanup, MonitorInv, Typed, TypeOK, kernVars
<1>2. Stage' /\ Verdict' /\ Ended'
  BY DEF Cleanup, MonitorInv, Stage, Verdict, Ended, Before, kernVars
<1>3. ASSUME NEW s \in Stream PROVE Collected(s)'
  <2>1. UNCHANGED Alone /\ Drained(s) /\ pc' = "done" /\ UNCHANGED <<status, at_end>>
    BY DEF Cleanup, Alone, Drained, kernVars
  <2>2. QED BY <2>1, CollectedKeeps DEF Before
<1>4. QED BY <1>1, <1>2, <1>3 DEF MonitorInv

(* The child and its descendants, the clock, and the call that returned.   *)
LEMMA WorldKeeps ==
  ASSUME MonitorInv,
         \/ ReadStdin \/ Tick \/ UNCHANGED vars
         \/ \E s \in Stream : Write(s)
         \/ \E p \in Process : CloseStdin(p)
         \/ \E p \in Process, s \in Stream : Close(p, s)
         \/ \E d \in Descendants : Fork(d)
         \/ \E how \in {"exit", "signal"} : ChildEnd(how)
  PROVE  MonitorInv'
<1>0. UNCHANGED <<callVars, taken, killed>>
  BY DEF ReadStdin, CloseStdin, Tick, vars, kernVars, Write, Close, Fork, ChildEnd
<1>1. Typed'
  <2>1. CASE ReadStdin
    BY <2>1, MonitorAssumption DEF ReadStdin, callVars, MonitorInv, Typed, TypeOK
  <2>2. CASE Tick
    BY <2>2, MonitorAssumption DEF Tick, callVars, MonitorInv, Typed, TypeOK
  <2>3. CASE UNCHANGED vars
    BY <2>3 DEF vars, callVars, kernVars, MonitorInv, Typed, TypeOK
  <2>4. ASSUME NEW s \in Stream, Write(s) PROVE Typed'
    BY <2>4, MonitorAssumption DEF Write, callVars, MonitorInv, Typed, TypeOK
  <2>5. ASSUME NEW p \in Process, NEW s \in Stream, Close(p, s) PROVE Typed'
    BY <2>5 DEF Close, callVars, MonitorInv, Typed, TypeOK
  <2>6. ASSUME NEW d \in Descendants, Fork(d) PROVE Typed'
    BY <2>6 DEF Fork, callVars, MonitorInv, Typed, TypeOK, Process
  <2>7. ASSUME NEW how \in {"exit", "signal"}, ChildEnd(how) PROVE Typed'
    BY <2>7 DEF ChildEnd, callVars, MonitorInv, Typed, TypeOK
  <2>8. ASSUME NEW p \in Process, CloseStdin(p) PROVE Typed'
    BY <2>8 DEF CloseStdin, callVars, MonitorInv, Typed, TypeOK
  <2>9. QED BY <2>1, <2>2, <2>3, <2>4, <2>5, <2>6, <2>7, <2>8
<1>2. \A s \in Stream : written[s] \in Nat /\ written'[s] \in Nat /\ written'[s] >= written[s]
  <2>1. written \in [Stream -> 0..MaxWrite] /\ MaxWrite \in Nat
    BY MonitorAssumption DEF MonitorInv, Typed, TypeOK
  <2>2. written' = written \/ \E s \in Stream : written' = [written EXCEPT ![s] = @ + 1]
    BY DEF ReadStdin, CloseStdin, Tick, vars, kernVars, Write, Close, Fork, ChildEnd
  <2>3. QED BY <2>1, <2>2
<1>3. \/ UNCHANGED <<proc, cause, at_end>>
      \/ proc = "running" /\ proc' = "zombie" /\ cause' \in {"exit", "signal"} /\ at_end' = written
           /\ written' = written
  BY DEF ReadStdin, CloseStdin, Tick, vars, kernVars, Write, Close, Fork, ChildEnd
<1>4. now \in Nat /\ now' \in Nat /\ now' >= now
  BY MonitorAssumption DEF ReadStdin, CloseStdin, Tick, vars, kernVars, Write, Close, Fork, ChildEnd,
     MonitorInv, Typed, TypeOK
<1>5. Stage'
  BY <1>0, <1>3 DEF MonitorInv, Stage, callVars
<1>6. Verdict'
  <2>1. status \in {"Exited", "Signaled"} /\ pc \notin Before => proc = "reaped"
    BY DEF MonitorInv, Stage, Before
  <2>2. status = "Signaled" => pc \notin Before
    BY DEF MonitorInv, Stage, Before
  <2>3. deadline \in Nat
    BY DEF MonitorInv, Typed, TypeOK
  <2>4. ASSUME NEW s \in Stream, written[s] > MaxOutput PROVE written'[s] > MaxOutput
    BY <1>2, <2>4, MonitorAssumption
  <2>5. QED BY <1>0, <1>3, <1>4, <2>1, <2>2, <2>3, <2>4 DEF MonitorInv, Verdict, callVars
<1>7. Ended'
  <2>1. \A s \in Stream : at_end[s] \in Nat
    BY MonitorAssumption DEF MonitorInv, Typed, TypeOK
  <2>2. QED BY <1>2, <1>3, <2>1 DEF MonitorInv, Ended
<1>8. ASSUME NEW s \in Stream PROVE Collected(s)'
  <2>1. UNCHANGED Alone /\ pc' = pc /\ status' = status /\ (Drained(s)' <=> Drained(s))
    BY <1>0 DEF callVars, Alone, Drained
  <2>2. Drained(s) /\ status # "Err" => proc = "reaped"
    BY DEF Drained, MonitorInv, Stage, Before
  <2>3. QED BY <1>3, <2>1, <2>2, CollectedKeeps
<1>9. QED BY <1>1, <1>5, <1>6, <1>7, <1>8 DEF MonitorInv

-----------------------------------------------------------------------------
(* Steps that take from a pipe.                                            *)

(* The n-th unit of the loop's buffer is the n-th of the stream.           *)
LEMMA LoopBuffer ==
  ASSUME MonitorInv, NEW s \in Stream, pc = s
  PROVE  /\ pc \in Before /\ status = "Exited" /\ Straight(s)
         /\ Len(buf[s]) = taken[s] /\ Len(buf[s]) <= MaxOutput
BY DEF MonitorInv, Stage, Before, Collected, Stream

LEMMA ReadDataKeeps ==
  ASSUME MonitorInv, NEW s \in Stream, ReadData(s)
  PROVE  MonitorInv'
<1>0. /\ pc = s /\ pc' \in {"stderr", "pidfd"} /\ Typed
      /\ UNCHANGED <<status, exit_seen, workspace, now, proc, cause, killed, written, at_end, deadline>>
  BY DEF ReadData, After, MonitorInv
<1>1. PICK len \in Nat : len = Len(buf[s])
  BY <1>0, LengthKnown
<1>2. PICK c \in 0..BufLen :
        /\ Len(Chunk(s)) = c /\ Chunk(s) \in Seq(1..MaxWrite)
        /\ taken[s] + c <= written[s]
        /\ \A k \in 1..c : Chunk(s)[k] = taken[s] + k
  BY <1>0, ChunkTaken
<1>3. c \in Nat /\ taken[s] = len /\ Straight(s) /\ status = "Exited"
  BY <1>0, <1>1, LoopBuffer, MonitorAssumption
<1>4. len + c <= MaxOutput
  BY <1>1, <1>2, <1>3, MonitorAssumption DEF ReadData, exceeds
<1>5. buf' = [buf EXCEPT ![s] = @ \o Chunk(s)] /\ taken' = [taken EXCEPT ![s] = @ + c]
  BY <1>2 DEF ReadData
<1>6. /\ buf' \in [Stream -> Seq(1..MaxWrite)] /\ Len(buf'[s]) = len + c
      /\ \A k \in 1..(len + c) : buf'[s][k] = IF k <= len THEN buf[s][k] ELSE Chunk(s)[k - len]
      /\ \A r \in Stream : r # s => buf'[r] = buf[r]
  <2>1. PICK more \in Seq(1..MaxWrite) : more = Chunk(s) /\ Len(more) = c
    BY <1>2
  <2>2. buf' = [buf EXCEPT ![s] = @ \o more]
    BY <1>5, <2>1
  <2>3. /\ buf' \in [Stream -> Seq(1..MaxWrite)]
        /\ Len(buf'[s]) = Len(buf[s]) + Len(more)
        /\ \A k \in 1..(Len(buf[s]) + Len(more)) :
             buf'[s][k] = IF k <= Len(buf[s]) THEN buf[s][k] ELSE more[k - Len(buf[s])]
        /\ \A r \in Stream : r # s => buf'[r] = buf[r]
    BY <1>0, <2>1, <2>2, Grown
  <2>4. QED BY <1>1, <2>1, <2>3
<1>7. taken'[s] = len + c /\ taken' \in [Stream -> Nat] /\ \A r \in Stream : r # s => taken'[r] = taken[r]
  BY <1>0, <1>3, <1>5 DEF Typed
<1>8. Typed'
  <2>1. ASSUME NEW r \in Stream PROVE taken'[r] \in 0..written[r]
    <3>1. written[r] \in Nat /\ taken[r] \in 0..written[r]
      BY <1>0, MonitorAssumption DEF Typed, TypeOK
    <3>2. CASE r = s
      <4>1. taken'[s] = taken[s] + c /\ taken[s] \in Nat
        BY <1>3, <1>7
      <4>2. QED BY <1>2, <1>3, <3>1, <3>2, <4>1
    <3>3. QED BY <1>7, <3>1, <3>2
  <2>2. QED BY <1>0, <1>6, <1>7, <2>1 DEF ReadData, Typed, TypeOK
<1>9. Stage' /\ Verdict' /\ Ended'
  BY <1>0 DEF MonitorInv, Stage, Verdict, Ended, Before, Stream
<1>10. Collected(s)'
  <2>1. ASSUME NEW k \in 1..(len + c) PROVE buf'[s][k] = k
    <3>1. CASE k <= len
      BY <1>1, <1>3, <1>6, <3>1 DEF Straight
    <3>2. CASE ~(k <= len)
      <4>1. k - len \in 1..c
        BY <1>3, <3>2
      <4>2. QED BY <1>2, <1>3, <1>6, <3>2, <4>1
    <3>3. QED BY <3>1, <3>2
  <2>2. Straight(s)'
    BY <1>6, <2>1 DEF Straight
  <2>3. Shape(s, len + c, 0, 0)'
    BY <1>3, <1>7, <2>1 DEF Shape
  <2>4. ~Drained(s)'
    BY <1>0 DEF Drained, Stream
  <2>5. 0 \in 0..BufLen
    BY MonitorAssumption
  <2>6. QED BY <1>4, <1>6, <1>7, <2>2, <2>3, <2>4, <2>5 DEF Collected
<1>11. ASSUME NEW r \in Stream, r # s PROVE Collected(r)'
  <2>1. buf'[r] = buf[r] /\ taken'[r] = taken[r] /\ Collected(r) /\ pc \in Before /\ ~Drained(r)'
    BY <1>0, <1>6, <1>7, <1>11, LoopBuffer DEF MonitorInv, Drained, Stream
  <2>2. ASSUME NEW n \in Nat, NEW g \in 0..BufLen, Shape(r, Len(buf[r]), n, g)
        PROVE  Shape(r, Len(buf[r]), n, g)'
    BY <1>0, <2>1, <2>2 DEF Shape
  <2>3. QED BY <1>0, <1>3, <2>1, <2>2 DEF Collected, Straight
<1>12. QED BY <1>8, <1>9, <1>10, <1>11 DEF MonitorInv

LEMMA ReadOverLimitKeeps ==
  ASSUME MonitorInv, NEW s \in Stream, ReadOverLimit(s)
  PROVE  MonitorInv'
<1>0. /\ pc = s /\ pc' = "wait_killed" /\ status' = "OutputLimitExceeded" /\ killed' = TRUE /\ Typed
      /\ UNCHANGED <<buf, exit_seen, workspace, now, proc, cause, written, at_end, deadline>>
  BY DEF ReadOverLimit, MonitorInv
<1>1. PICK len \in Nat : len = Len(buf[s])
  BY <1>0, LengthKnown
<1>2. PICK c \in 0..BufLen : Len(Chunk(s)) = c /\ taken[s] + c <= written[s]
  BY <1>0, ChunkTaken
<1>3. c \in Nat /\ taken[s] = len /\ Straight(s) /\ status = "Exited" /\ len <= MaxOutput
  BY <1>0, <1>1, LoopBuffer, MonitorAssumption
<1>4. taken' = [taken EXCEPT ![s] = @ + c]
  BY <1>2 DEF ReadOverLimit
<1>5. taken'[s] = len + c /\ taken' \in [Stream -> Nat] /\ \A r \in Stream : r # s => taken'[r] = taken[r]
  BY <1>0, <1>3, <1>4 DEF Typed
<1>6. Typed'
  <2>1. \A r \in Stream : taken'[r] \in 0..written[r]
    BY <1>0, <1>2, <1>3, <1>5, MonitorAssumption DEF Typed, TypeOK
  <2>2. QED BY <1>0, <1>5, <2>1 DEF ReadOverLimit, Typed, TypeOK, Statuses
<1>7. Stage'
  BY <1>0 DEF MonitorInv, Stage, Before, Stream
<1>8. Verdict'
  <2>1. len + c > MaxOutput
    BY <1>1, <1>2 DEF ReadOverLimit, exceeds
  <2>2. written'[s] > MaxOutput
    <3>1. written[s] \in Nat /\ MaxOutput \in Nat
      BY <1>0, MonitorAssumption DEF Typed, TypeOK
    <3>2. QED BY <1>0, <1>2, <1>3, <2>1, <3>1
  <2>3. ~exit_seen
    BY <1>0 DEF MonitorInv, Stage, Before, Stream
  <2>4. QED BY <1>0, <2>2, <2>3 DEF Verdict
<1>9. Ended'
  BY <1>0 DEF MonitorInv, Ended
<1>10. Collected(s)'
  <2>1. Straight(s)'
    BY <1>0, <1>3 DEF Straight
  <2>2. Shape(s, len, len, c)'
    BY <1>0, <1>1, <1>3, <1>5 DEF Shape, Straight
  <2>3. QED BY <1>0, <1>1, <1>3, <2>1, <2>2 DEF Collected, Before
<1>11. ASSUME NEW r \in Stream, r # s PROVE Collected(r)'
  <2>1. taken'[r] = taken[r] /\ Collected(r)
    BY <1>5, <1>11 DEF MonitorInv
  <2>2. Straight(r)'
    BY <1>0, <1>3, <2>1 DEF Collected, Straight
  <2>3. ASSUME NEW n \in Nat, NEW g \in 0..BufLen, Shape(r, Len(buf[r]), n, g)
        PROVE  Shape(r, Len(buf[r]), n, g)'
    BY <1>0, <2>1, <2>3 DEF Shape
  <2>4. QED BY <1>0, <2>1, <2>2, <2>3 DEF Collected, Before
<1>12. QED BY <1>6, <1>7, <1>8, <1>9, <1>10, <1>11 DEF MonitorInv

LEMMA DrainKeeps ==
  ASSUME MonitorInv, NEW s \in Stream, Drain(s)
  PROVE  MonitorInv'
<1>0. /\ pc = DrainState(s) /\ pc \in {"drain_stdout", "drain_stderr"} /\ Typed
      /\ UNCHANGED <<pc, status, exit_seen, workspace, now, proc, cause, killed, written, at_end, deadline>>
  BY DEF Drain, DrainState, MonitorInv
<1>1. PICK len \in Nat : len = Len(buf[s])
  BY <1>0, LengthKnown
<1>2. PICK c \in 0..BufLen :
        /\ Len(Chunk(s)) = c /\ Chunk(s) \in Seq(1..MaxWrite)
        /\ taken[s] + c <= written[s]
        /\ \A k \in 1..c : Chunk(s)[k] = taken[s] + k
  BY <1>0, ChunkTaken
<1>3. c \in Nat /\ taken[s] \in Nat /\ MaxOutput \in Nat
  BY <1>0, MonitorAssumption DEF Typed
<1>4. len < MaxOutput
  BY <1>1 DEF Drain, DrainMore
<1>5. PICK room \in Nat : room = MaxOutput - len
  BY <1>3, <1>4
<1>6. PICK m \in Nat :
        /\ m <= c /\ m <= room /\ (m = c \/ m = room)
        /\ Fitting(s) \in Seq(1..MaxWrite) /\ Len(Fitting(s)) = m
        /\ \A k \in 1..m : Fitting(s)[k] = taken[s] + k
  BY <1>0, <1>1, <1>2, <1>3, <1>5, FittingTaken
<1>7. buf' = [buf EXCEPT ![s] = @ \o Fitting(s)] /\ taken' = [taken EXCEPT ![s] = @ + c]
  BY <1>2 DEF Drain
<1>8. /\ buf' \in [Stream -> Seq(1..MaxWrite)] /\ Len(buf'[s]) = len + m
      /\ \A k \in 1..(len + m) : buf'[s][k] = IF k <= len THEN buf[s][k] ELSE Fitting(s)[k - len]
      /\ \A r \in Stream : r # s => buf'[r] = buf[r]
  <2>1. PICK more \in Seq(1..MaxWrite) : more = Fitting(s) /\ Len(more) = m
    BY <1>6
  <2>2. buf' = [buf EXCEPT ![s] = @ \o more]
    BY <1>7, <2>1
  <2>3. /\ buf' \in [Stream -> Seq(1..MaxWrite)]
        /\ Len(buf'[s]) = Len(buf[s]) + Len(more)
        /\ \A k \in 1..(Len(buf[s]) + Len(more)) :
             buf'[s][k] = IF k <= Len(buf[s]) THEN buf[s][k] ELSE more[k - Len(buf[s])]
        /\ \A r \in Stream : r # s => buf'[r] = buf[r]
    BY <1>0, <2>1, <2>2, Grown
  <2>4. QED BY <1>1, <2>1, <2>3
<1>9. taken'[s] = taken[s] + c /\ taken' \in [Stream -> Nat] /\ \A r \in Stream : r # s => taken'[r] = taken[r]
  BY <1>0, <1>3, <1>7 DEF Typed
<1>10. Typed'
  <2>1. ASSUME NEW r \in Stream PROVE taken'[r] \in 0..written[r]
    <3>1. written[r] \in Nat /\ taken[r] \in 0..written[r]
      BY <1>0, MonitorAssumption DEF Typed, TypeOK
    <3>2. CASE r = s
      <4>1. taken'[s] = taken[s] + c /\ taken[s] \in Nat
        BY <1>3, <1>9
      <4>2. QED BY <1>2, <1>3, <3>1, <3>2, <4>1
    <3>3. QED BY <1>9, <3>1, <3>2
  <2>2. QED BY <1>0, <1>8, <1>9, <2>1 DEF Drain, Typed, TypeOK
<1>11. Stage' /\ Verdict' /\ Ended'
  BY <1>0 DEF MonitorInv, Stage, Verdict, Ended
<1>12. Collected(s)'
  <2>1. Collected(s)
    BY DEF MonitorInv
  <2>2. PICK n \in Nat, g \in 0..BufLen : Shape(s, len, n, g)
    BY <1>1, <2>1 DEF Collected
  <2>3. g \in Nat /\ taken[s] = len + g
    BY <1>3, <1>4, <2>2, MonitorAssumption DEF Shape
  <2>4. \A k \in 1..(len + m) : buf'[s][k] = IF k <= n THEN k ELSE k + g
    <3> SUFFICES ASSUME NEW k \in 1..(len + m) PROVE buf'[s][k] = IF k <= n THEN k ELSE k + g
      OBVIOUS
    <3>1. CASE k <= len
      BY <1>8, <2>2, <3>1 DEF Shape
    <3>2. CASE ~(k <= len)
      <4>1. k - len \in 1..m /\ ~(k <= n)
        BY <2>2, <3>2 DEF Shape
      <4>2. QED BY <1>6, <1>8, <2>3, <3>2, <4>1
    <3>3. QED BY <3>1, <3>2
  <2>5. taken'[s] = len + m + g \/ (len + m = MaxOutput /\ taken'[s] >= len + m + g)
    BY <1>3, <1>5, <1>6, <1>9, <2>3
  <2>6. Shape(s, len + m, n, g)'
    BY <1>0, <2>2, <2>4, <2>5 DEF Shape
  <2>7. status # "OutputLimitExceeded" => Straight(s)'
    <3>1. status # "OutputLimitExceeded" => g = 0
      BY <1>0, <2>2, <2>3 DEF Shape, MonitorInv, Stage
    <3>2. QED BY <1>8, <2>4, <3>1 DEF Straight
  <2>8. len + m <= MaxOutput
    BY <1>3, <1>5, <1>6
  <2>9. ~Drained(s)' /\ pc \notin Before /\ pc # "wait_killed"
    BY <1>0 DEF Drained, Before, DrainState
  <2>10. QED BY <1>0, <1>8, <2>6, <2>7, <2>8, <2>9 DEF Collected
<1>13. ASSUME NEW r \in Stream, r # s PROVE Collected(r)'
  <2>1. buf'[r] = buf[r] /\ taken'[r] = taken[r] /\ Collected(r) /\ (Drained(r)' <=> Drained(r))
    BY <1>0, <1>8, <1>9, <1>13 DEF MonitorInv, Drained
  <2>2. ASSUME NEW n \in Nat, NEW g \in 0..BufLen, Shape(r, Len(buf[r]), n, g)
        PROVE  Shape(r, Len(buf[r]), n, g)'
    BY <1>0, <2>1, <2>2 DEF Shape
  <2>3. QED BY <1>0, <2>1, <2>2 DEF Collected, Straight
<1>14. QED BY <1>10, <1>11, <1>12, <1>13 DEF MonitorInv

(* A drain ends with the limit reached or the pipe empty - and nobody      *)
(* wrote to it before the child ended that was not read.                   *)
LEMMA DrainDoneKeeps ==
  ASSUME MonitorInv, NEW s \in Stream, DrainDone(s)
  PROVE  MonitorInv'
<1>0. /\ pc = DrainState(s) /\ pc \in {"drain_stdout", "drain_stderr"}
      /\ pc' = (IF s = "stdout" THEN "drain_stderr" ELSE "cleanup") /\ Typed
      /\ UNCHANGED <<status, exit_seen, workspace, buf, deadline, kernVars>>
  BY DEF DrainDone, DrainState, MonitorInv
<1>1. Typed'
  BY <1>0 DEF DrainDone, kernVars, Typed, TypeOK
<1>2. Stage' /\ Verdict' /\ Ended'
  BY <1>0 DEF MonitorInv, Stage, Verdict, Ended, Before, kernVars
<1>3. Collected(s)'
  <2>1. PICK len \in Nat : len = Len(buf[s])
    BY <1>0, LengthKnown
  <2>2. Collected(s)
    BY DEF MonitorInv
  <2>3. PICK n \in Nat, g \in 0..BufLen : Shape(s, len, n, g)
    BY <2>1, <2>2 DEF Collected
  <2>4. Shape(s, len, n, g)'
    BY <1>0, <2>3 DEF Shape, kernVars
  <2>5. Straight(s)' <=> Straight(s)
    BY <1>0 DEF Straight
  <2>6. ASSUME status \notin {"OutputLimitExceeded", "Err"} PROVE len >= MaxOutput \/ len >= at_end[s]
    <3>1. /\ taken[s] \in Nat /\ written[s] \in Nat /\ at_end[s] \in Nat
          /\ taken[s] <= written[s] /\ at_end[s] <= written[s] /\ MaxOutput \in Nat
      BY <1>0, MonitorAssumption DEF MonitorInv, Ended, Typed, TypeOK
    <3>2. CASE len < MaxOutput
      <4>1. ~(written[s] > taken[s])
        BY <2>1, <3>2 DEF DrainDone, DrainMore
      <4>2. g = 0 /\ taken[s] = len + g
        BY <2>3, <2>6, <3>1, <3>2, MonitorAssumption DEF Shape
      <4>3. QED BY <3>1, <4>1, <4>2
    <3>3. QED BY <3>1, <3>2
  <2>7. pc' \notin Before /\ pc' # "wait_killed"
    BY <1>0 DEF Before
  <2>8. QED BY <1>0, <2>1, <2>2, <2>4, <2>5, <2>6, <2>7 DEF Collected, kernVars
<1>4. ASSUME NEW r \in Stream, r # s PROVE Collected(r)'
  <2>1. Drained(r)' <=> Drained(r)
    BY <1>0, <1>4 DEF Drained, DrainState, Stream
  <2>2. QED BY <1>0, <2>1, CollectedKeeps DEF Alone, Before, kernVars
<1>5. QED BY <1>1, <1>2, <1>3, <1>4 DEF MonitorInv

-----------------------------------------------------------------------------
LEMMA MonitorInit == Init => MonitorInv
<1> SUFFICES ASSUME Init PROVE MonitorInv
  OBVIOUS
<1>1. Typed
  <2>1. <<>> \in Seq(1..MaxWrite)
    OBVIOUS
  <2>2. buf \in [Stream -> Seq(1..MaxWrite)] /\ taken \in [Stream -> Nat]
    BY <2>1 DEF Init
  <2>3. /\ \A s \in Stream : buf[s] \in Seq(1..MaxWrite)
        /\ \A s \in Stream : taken[s] \in 0..written[s]
    BY <2>1 DEF Init
  <2>4. writers \in [Stream -> SUBSET Process] /\ readers \in SUBSET Process
    BY DEF Init, Process
  <2>5. written \in [Stream -> 0..MaxWrite] /\ at_end \in [Stream -> 0..MaxWrite]
    BY MonitorAssumption DEF Init
  <2>6. revents \in [in : SUBSET Stream, hup : SUBSET Stream, pidfd : BOOLEAN]
    BY DEF Init, Quiet
  <2>7. stdin_left \in 0..StdinLen /\ now \in 0..MaxNow /\ stdin_pipe \in 0..PipeCap
    BY MonitorAssumption DEF Init
  <2>8. QED BY <2>2, <2>3, <2>4, <2>5, <2>6, <2>7 DEF Init, Typed, TypeOK, Statuses
<1>2. Stage /\ Verdict /\ Ended
  BY DEF Init, Stage, Verdict, Ended, Before
<1>3. ASSUME NEW s \in Stream PROVE Collected(s)
  <2>1. buf[s] = <<>> /\ Len(buf[s]) = 0 /\ taken[s] = 0 /\ pc = "stdin" /\ status = "Exited"
    BY DEF Init
  <2>2. Straight(s) /\ Shape(s, 0, 0, 0)
    BY <2>1 DEF Straight, Shape
  <2>3. 0 \in 0..BufLen /\ 0 <= MaxOutput /\ ~Drained(s)
    BY <2>1, MonitorAssumption DEF Drained
  <2>4. QED BY <2>1, <2>2, <2>3 DEF Collected
<1>4. QED BY <1>1, <1>2, <1>3 DEF MonitorInv

LEMMA MonitorNext ==
  ASSUME MonitorInv, [Next]_vars
  PROVE  MonitorInv'
<1>1. CASE Parent
  BY <1>1, StdinKeeps, LoopKeeps, WaitKeeps, CleanupKeeps, ReadDataKeeps, ReadOverLimitKeeps,
     DrainKeeps, DrainDoneKeeps DEF Parent
<1>2. CASE Environment
  BY <1>2, WaitKeeps, WorldKeeps DEF Environment
<1>3. CASE UNCHANGED vars
  BY <1>3, WorldKeeps
<1>4. QED BY <1>1, <1>2, <1>3 DEF Next, Done

(* The inductive invariant of the blocking monitor.                        *)
THEOREM MonitorInvariant == Spec => []MonitorInv
<1>1. Init => MonitorInv
  BY MonitorInit
<1>2. MonitorInv /\ [Next]_vars => MonitorInv'
  BY MonitorNext
<1>3. QED BY <1>1, <1>2, PTL DEF Spec

(* Every variable of the monitor keeps its type.                           *)
THEOREM MonitorTyped == Spec => []TypeOK
<1>1. MonitorInv => TypeOK
  BY DEF MonitorInv, Typed
<1>2. QED BY <1>1, MonitorInvariant, PTL

(* monitor and drain_remaining collect every unit in order, up to the      *)
(* limit and no further, and lose at most the chunk that broke it.         *)
THEOREM OutputIsFaithful == Spec => []OutputFaithful
<1>1. MonitorInv => LimitRespected
  BY DEF MonitorInv, Collected, LimitRespected
<1>2. MonitorInv => OutputKept
  <2> SUFFICES ASSUME MonitorInv, pc = "done", status \notin {"OutputLimitExceeded", "Err"},
                      NEW s \in Stream
               PROVE  /\ buf[s] = [k \in 1..Len(buf[s]) |-> k]
                      /\ Len(buf[s]) >= Min({at_end[s], MaxOutput})
    BY DEF OutputKept, Returned
  <2>1. Collected(s) /\ Straight(s) /\ buf[s] \in Seq(1..MaxWrite)
    BY DEF MonitorInv, Collected, Typed
  <2>2. PICK len \in Nat : len = Len(buf[s])
    BY LengthKnown DEF MonitorInv
  <2>3. len >= MaxOutput \/ len >= at_end[s]
    BY <2>1, <2>2 DEF Collected, Drained
  <2>4. at_end[s] \in Nat /\ MaxOutput \in Nat
    BY MonitorAssumption DEF MonitorInv, Typed, TypeOK
  <2>5. len >= Min({at_end[s], MaxOutput})
    BY <2>3, <2>4, LeastOfTwo
  <2>6. buf[s] = [k \in 1..Len(buf[s]) |-> k]
    BY <2>1 DEF Straight
  <2>7. QED BY <2>2, <2>5, <2>6
<1>3. MonitorInv => GapOnlyAtLimit
  <2> SUFFICES ASSUME MonitorInv, NEW s \in Stream
               PROVE  /\ \A k \in 1..(Len(buf[s]) - 1) :
                           buf[s][k] < buf[s][k + 1] /\ buf[s][k + 1] - buf[s][k] <= BufLen + 1
                      /\ status # "OutputLimitExceeded" => IsPrefix(buf[s], [k \in 1..MaxWrite |-> k])
    BY DEF GapOnlyAtLimit
  <2>1. PICK len \in Nat : len = Len(buf[s])
    BY LengthKnown DEF MonitorInv
  <2>2. Collected(s) /\ buf[s] \in Seq(1..MaxWrite)
    BY DEF MonitorInv, Typed
  <2>3. PICK n \in Nat, g \in 0..BufLen : Shape(s, len, n, g)
    BY <2>1, <2>2 DEF Collected
  <2>4. g \in Nat /\ g <= BufLen /\ BufLen \in Nat /\ MaxWrite \in Nat
    BY MonitorAssumption
  <2>5. ASSUME NEW k \in 1..(len - 1)
        PROVE  buf[s][k] < buf[s][k + 1] /\ buf[s][k + 1] - buf[s][k] <= BufLen + 1
    <3>1. k \in 1..len /\ k + 1 \in 1..len
      BY <2>5
    <3>2. /\ buf[s][k] = IF k <= n THEN k ELSE k + g
          /\ buf[s][k + 1] = IF k + 1 <= n THEN k + 1 ELSE k + 1 + g
      BY <2>3, <3>1 DEF Shape
    <3>3. QED BY <2>4, <3>1, <3>2
  <2>6. ASSUME status # "OutputLimitExceeded" PROVE IsPrefix(buf[s], [k \in 1..MaxWrite |-> k])
    <3>1. \A k \in 1..len : buf[s][k] = k
      BY <2>1, <2>2, <2>6 DEF Collected, Straight
    <3>2. len <= MaxWrite
      <4>1. taken[s] \in Nat /\ written[s] \in Nat /\ taken[s] <= written[s] /\ written[s] <= MaxWrite
        BY MonitorAssumption DEF MonitorInv, Typed, TypeOK
      <4>2. taken[s] >= len
        BY <2>3, <2>4, <4>1 DEF Shape
      <4>3. QED BY <2>4, <4>1, <4>2
    <3>3. PICK all : all = [k \in 1..MaxWrite |-> k]
      OBVIOUS
    <3>4. all \in Seq(1..MaxWrite) /\ Len(all) = MaxWrite
      BY <2>4, <3>3
    <3>5. SubSeq(buf[s], 1, len) = SubSeq(all, 1, len)
      BY <2>4, <3>1, <3>2, <3>3
    <3>6. QED BY <2>1, <3>2, <3>3, <3>4, <3>5 DEF IsPrefix
  <2>7. QED BY <2>1, <2>5, <2>6
<1>4. MonitorInv => OutputFaithful
  BY <1>1, <1>2, <1>3 DEF OutputFaithful
<1>5. QED BY <1>4, MonitorInvariant, PTL

(* Executor::run reports how the child ended, and no end it did not have.  *)
THEOREM ResultIsTruthful == Spec => []ResultTruthful
<1>1. MonitorInv => ResultTruthful
  BY DEF MonitorInv, Stage, Verdict, Before, ResultTruthful, Returned
<1>2. QED BY <1>1, MonitorInvariant, PTL
=============================================================================
