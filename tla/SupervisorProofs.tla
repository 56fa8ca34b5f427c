-------------------------- MODULE SupervisorProofs --------------------------
(* Proofs about Supervisor, for any program: any threads, any calls with   *)
(* any paths and flags, any mappings and any files.                        *)
EXTENDS Supervisor, FiniteSetTheorems, SequenceTheorems, WellFoundedInduction, TLAPS

-----------------------------------------------------------------------------
(* The inductive invariant.                                                *)

Waits(id) == notif[id].state \in {"init", "sent"}
Handling == {"monitor", "read", "unread", "check", "translate", "blocked", "inject",
             "proceed"}

(* A suspended thread stands in one notification, with the call it made.   *)
Suspended ==
  /\ \A i, j \in DOMAIN notif :
       Waits(i) /\ Waits(j) /\ notif[i].thread = notif[j].thread => i = j
  /\ \A i \in DOMAIN notif : Waits(i) => call[notif[i].thread] = notif[i].call

(* The semaphore has a unit for every call that was not received; it may   *)
(* have more, for those that went away before.                             *)
Counted ==
  /\ Cardinality(Pending) <= request /\ request <= Len(notif)
  /\ pc = "recv" => request > 0

(* The supervisor works at one call at a time, still unanswered.           *)
Handled ==
  /\ \A id \in DOMAIN notif : Valid(id) => id = cur /\ pc \in Handling
  /\ pc \in Handling =>
       /\ cur \in DOMAIN notif /\ notif[cur].state \in {"sent", "gone"}
       /\ answer[cur] = None

(* Only what was replied to has an answer, and the result tells.           *)
Answered ==
  /\ answer \in [Id -> {"none", "continue", "fd"}]
  /\ \A id \in Id : answer[id] # None => id \in DOMAIN notif /\ notif[id].state = "replied"
  /\ pc \in {"poll", "recv"} =>
       /\ event = "Some" => answer[cur] # None
       /\ event = "Err" => /\ cur \in DOMAIN notif /\ notif[cur].state = "gone"
                           /\ answer[cur] = None

(* A path that passed the check of the id is the path of the call.         *)
PathKnown ==
  /\ pc = "check" /\ Valid(cur) => path = notif[cur].call.path
  /\ pc = "translate" => path = notif[cur].call.path

(* The file is held for the notification it was opened for.                *)
FileHeld ==
  /\ fd # <<>> => pc = "inject"
  /\ pc \in {"blocked", "inject"} =>
       LET asked == notif[cur].call
       IN  /\ is_open_syscall(asked.nr) /\ Matching(asked.path) # {} /\ path = asked.path
           /\ pc = "inject" => fd = opened(asked)

SupInv == TypeOK /\ Suspended /\ Counted /\ Handled /\ Answered /\ PathKnown /\ FileHeld

-----------------------------------------------------------------------------
(* Sequences and sets of notifications.                                    *)

Notification ==
  [thread : Threads, call : Calls, state : {"init", "sent", "gone", "replied"}]

(* A function on the domain of a sequence is a sequence of that length. *)
LEMMA SameDomain ==
  ASSUME NEW S, NEW s \in Seq(S), NEW f, f \in [DOMAIN s -> S]
  PROVE  f \in Seq(S) /\ Len(f) = Len(s) /\ DOMAIN f = DOMAIN s
<1>1. DOMAIN s = 1..Len(s) /\ Len(s) \in Nat
  OBVIOUS
<1>2. f \in [1..Len(s) -> S]
  BY <1>1
<1>3. f \in Seq(S)
  BY <1>1, <1>2, IsASeq
<1>4. DOMAIN f = 1..Len(f) /\ Len(f) \in Nat /\ DOMAIN f = 1..Len(s)
  BY <1>2, <1>3
<1>5. QED BY <1>1, <1>3, <1>4

(* Only finitely many calls are pending. *)
LEMMA PendingFinite ==
  ASSUME TypeOK
  PROVE  IsFiniteSet(Pending) /\ Cardinality(Pending) \in Nat
<1>1. DOMAIN notif = 1..Len(notif) /\ Len(notif) \in Nat
  BY DEF TypeOK
<1>2. IsFiniteSet(1..Len(notif))
  BY <1>1, FS_Interval
<1>3. Pending \in SUBSET (1..Len(notif))
  BY <1>1 DEF Pending
<1>4. QED BY <1>2, <1>3, FS_Subset, FS_CardinalityType

-----------------------------------------------------------------------------
(* The program makes a call. *)
LEMMA NotifyKeeps ==
  ASSUME SupInv, NEW t \in Threads, NEW c \in Calls, Notify(t, c)
  PROVE  SupInv'
<1>0. PICK n \in Nat : n = Len(notif)
  BY DEF SupInv, TypeOK
<1> DEFINE new == [thread |-> t, call |-> c, state |-> "init"]
<1>1. /\ n < MaxId /\ notif \in Seq(Notification) /\ new \in Notification
      /\ DOMAIN notif = 1..n /\ MaxId \in Nat
  BY <1>0, SupervisorAssumption DEF SupInv, TypeOK, Notify, Notification
<1>2. /\ notif' \in Seq(Notification) /\ Len(notif') = n + 1 /\ DOMAIN notif' = 1..(n + 1)
      /\ notif'[n + 1] = new /\ \A i \in 1..n : notif'[i] = notif[i]
  BY <1>0, <1>1, AppendProperties DEF Notify
<1> HIDE DEF new
<1>3. /\ new.thread = t /\ new.call = c /\ new.state = "init"
  BY DEF new
<1>4. \A i \in 1..n : Waits(i) => notif[i].thread # t
  BY <1>1 DEF SupInv, TypeOK, Notify, Waits
<1>5. \A i \in 1..n : Waits(i)' <=> Waits(i)
  BY <1>2 DEF Waits
<1>6. Waits(n + 1)'
  BY <1>2, <1>3 DEF Waits
<1>7. TypeOK'
  <2>1. \A u \in Threads : thread'[u] = "waiting" <=> u = t \/ thread[u] = "waiting"
    BY DEF Notify, SupInv, TypeOK
  <2>2. \A u \in Threads : thread'[u] = "waiting" <=>
          \E id \in DOMAIN notif' :
            notif'[id].thread = u /\ notif'[id].state \in {"init", "sent"}
    <3>1. \A u \in Threads : thread[u] = "waiting" <=>
            \E id \in 1..n : notif[id].thread = u /\ notif[id].state \in {"init", "sent"}
      BY <1>1 DEF SupInv, TypeOK
    <3>2. 1..(n + 1) = (1..n) \cup {n + 1}
      BY <1>1
    <3>3. QED BY <1>1, <1>2, <1>3, <2>1, <3>1, <3>2
  <2>3. request + 1 \in 0..MaxId
    BY <1>0, <1>1 DEF SupInv, TypeOK, Counted
  <2>4. thread' \in [Threads -> {"user", "waiting", "dead"}] /\ call' \in [Threads -> Calls]
    BY DEF Notify, SupInv, TypeOK
  <2>5. cur' \in 0..Len(notif') /\ Len(notif') <= MaxId
    BY <1>0, <1>1, <1>2 DEF Notify, supVars, SupInv, TypeOK
  <2>6. QED BY <1>2, <2>2, <2>3, <2>4, <2>5 DEF Notify, supVars, SupInv, TypeOK, Notification
<1>8. Suspended'
  <2>1. \A i, j \in 1..(n + 1) :
          Waits(i)' /\ Waits(j)' /\ notif'[i].thread = notif'[j].thread => i = j
    BY <1>1, <1>2, <1>3, <1>4, <1>5 DEF SupInv, Suspended
  <2>2. \A i \in 1..(n + 1) : Waits(i)' => call'[notif'[i].thread] = notif'[i].call
    <3>1. \A i \in 1..n : notif[i].thread \in Threads
      <4>1. \A i \in 1..n : notif[i] \in Notification
        BY <1>1
      <4>2. QED BY <4>1 DEF Notification
    <3>2. call'[t] = c /\ \A u \in Threads : u # t => call'[u] = call[u]
      BY DEF Notify, SupInv, TypeOK
    <3>3. QED BY <1>1, <1>2, <1>3, <1>4, <1>5, <3>1, <3>2 DEF SupInv, Suspended
  <2>3. QED BY <1>2, <2>1, <2>2 DEF Suspended
<1>9. Counted'
  <2>1. Pending' = Pending \cup {n + 1} /\ n + 1 \notin Pending
    BY <1>1, <1>2, <1>3 DEF Pending
  <2>2. Cardinality(Pending') = Cardinality(Pending) + 1
    BY <2>1, PendingFinite, FS_AddElement DEF SupInv
  <2>3. QED
    BY <1>0, <1>1, <1>2, <2>2, PendingFinite DEF Notify, supVars, SupInv, TypeOK, Counted
<1>10. Handled'
  BY <1>1, <1>2, <1>3 DEF Notify, supVars, SupInv, Handled, Valid
<1>11. Answered'
  BY <1>1, <1>2 DEF Notify, supVars, SupInv, Answered
<1>12. PathKnown' /\ FileHeld'
  <2>1. pc \in Handling => cur \in 1..n
    BY <1>1 DEF SupInv, Handled
  <2>2. pc \in Handling => notif'[cur] = notif[cur]
    BY <1>2, <2>1
  <2>3. PathKnown'
    BY <2>2 DEF Notify, supVars, SupInv, PathKnown, Valid, Handling
  <2>4. FileHeld'
    BY <2>2 DEF Notify, supVars, SupInv, FileHeld, Handling, Matching, translate, opened
  <2>5. QED BY <2>3, <2>4
<1>13. QED BY <1>7, <1>8, <1>9, <1>10, <1>11, <1>12 DEF SupInv

(* A suspended call goes away. *)
LEMMA LeaveKeeps ==
  ASSUME SupInv, NEW t \in Threads, NEW state \in {"user", "dead"}, Leave(t, state)
  PROVE  SupInv'
<1>1. notif \in Seq(Notification) /\ DOMAIN notif = 1..Len(notif)
  BY DEF SupInv, TypeOK, Notification
<1>2. notif' \in [DOMAIN notif -> Notification]
  <2>1. \A id \in DOMAIN notif : notif[id] \in Notification
    BY <1>1
  <2>2. \A id \in DOMAIN notif : [notif[id] EXCEPT !.state = "gone"] \in Notification
    BY <2>1 DEF Notification
  <2>3. QED BY <2>1, <2>2 DEF Leave
<1>3. notif' \in Seq(Notification) /\ Len(notif') = Len(notif) /\ DOMAIN notif' = DOMAIN notif
  BY <1>1, <1>2, SameDomain
<1>4. \A i \in DOMAIN notif :
        /\ notif'[i].thread = notif[i].thread /\ notif'[i].call = notif[i].call
        /\ notif'[i].state = IF notif[i].thread = t /\ Waits(i) THEN "gone" ELSE notif[i].state
  BY <1>1 DEF Leave, Waits, Notification
<1>5. \A i \in DOMAIN notif : Waits(i)' <=> Waits(i) /\ notif[i].thread # t
  BY <1>4 DEF Waits
<1>6. /\ thread'[t] = state /\ \A u \in Threads : u # t => thread'[u] = thread[u]
      /\ thread' \in [Threads -> {"user", "waiting", "dead"}]
      /\ UNCHANGED <<mode, call, request, pc, cur, path, fd, event, files, answer>>
  BY DEF Leave, SupInv, TypeOK, supVars
<1>7. TypeOK'
  <2>1. \A u \in Threads : thread'[u] = "waiting" <=>
          \E id \in DOMAIN notif' : notif'[id].thread = u /\ Waits(id)'
    <3>1. \A u \in Threads : thread[u] = "waiting" <=>
            \E id \in DOMAIN notif : notif[id].thread = u /\ Waits(id)
      BY DEF SupInv, TypeOK, Waits
    <3>2. QED BY <1>3, <1>4, <1>5, <1>6, <3>1
  <2>2. QED BY <1>3, <1>6, <2>1 DEF SupInv, TypeOK, Notification, Waits
<1>8. Suspended'
  BY <1>3, <1>4, <1>5, <1>6 DEF SupInv, Suspended
<1>9. Counted'
  <2>1. Pending' \in SUBSET Pending
    BY <1>3, <1>4 DEF Pending, Waits
  <2>2. Cardinality(Pending') <= Cardinality(Pending) /\ Cardinality(Pending') \in Nat
    BY <2>1, PendingFinite, FS_Subset, FS_CardinalityType DEF SupInv
  <2>3. QED BY <1>3, <1>6, <2>2, PendingFinite DEF SupInv, TypeOK, Counted
<1>10. Handled'
  BY <1>3, <1>4, <1>6 DEF SupInv, Handled, Valid, Waits
<1>11. Answered'
  BY <1>3, <1>4, <1>6 DEF SupInv, Answered, Waits
<1>12. PathKnown' /\ FileHeld'
  <2>1. pc \in Handling => cur \in DOMAIN notif
    BY DEF SupInv, Handled
  <2>2. PathKnown'
    BY <1>4, <1>6, <2>1 DEF SupInv, PathKnown, Valid, Handling
  <2>3. FileHeld'
    BY <1>4, <1>6, <2>1 DEF SupInv, FileHeld, Handling, Matching, translate, opened
  <2>4. QED BY <2>2, <2>3
<1>13. QED BY <1>7, <1>8, <1>9, <1>10, <1>11, <1>12 DEF SupInv

-----------------------------------------------------------------------------
(* The supervisor is woken, and takes the oldest pending call. *)
LEMMA HandleEventKeeps ==
  ASSUME SupInv, HandleEvent
  PROVE  SupInv'
<1>1. Pending # {} /\ Cardinality(Pending) \in Nat /\ IsFiniteSet(Pending)
  BY PendingFinite DEF HandleEvent, SupInv
<1>2. request > 0
  <2>1. Cardinality(Pending) # 0
    BY <1>1, FS_EmptySet
  <2>2. QED BY <1>1, <2>1 DEF SupInv, Counted, TypeOK
<1>3. TypeOK' /\ Suspended' /\ PathKnown' /\ FileHeld'
  BY DEF HandleEvent, kernVars, SupInv, TypeOK, Suspended, Waits, PathKnown, FileHeld
<1>4. Counted'
  BY <1>2 DEF HandleEvent, kernVars, SupInv, Counted, Pending
<1>5. Handled' /\ Answered'
  BY DEF HandleEvent, kernVars, SupInv, Handled, Answered, Valid, Handling
<1>6. QED BY <1>3, <1>4, <1>5 DEF SupInv

LEMMA OldestPending ==
  ASSUME TypeOK, Pending # {}
  PROVE  Oldest \in Pending
<1>1. Pending \subseteq Nat
  BY DEF Pending, TypeOK
<1>2. PICK id \in Pending : \A other \in Pending : id <= other
  <2> DEFINE less == {p \in Nat \X Nat : p[1] < p[2]}
  <2>1. IsWellFoundedOn(less, Nat)
    <3>1. less = OpToRel(<, Nat)
      BY DEF OpToRel
    <3>2. QED BY <3>1, NatLessThanWellFounded
  <2>2. PICK id \in Pending : \A other \in Pending : <<other, id>> \notin less
    <3> HIDE DEF less
    <3>1. QED BY <1>1, <2>1, WFMin
  <2>3. \A a, b \in Nat : <<a, b>> \notin less => b <= a
    OBVIOUS
  <2> HIDE DEF less
  <2>4. QED BY <1>1, <2>2, <2>3
<1>3. QED BY <1>2 DEF Oldest

LEMMA RecvKeeps ==
  ASSUME SupInv, Recv
  PROVE  SupInv'
<1>1. CASE Pending = {}
  <2>1. /\ pc = "recv" /\ pc' = "poll" /\ event' = "None" /\ request > 0 /\ request' = request - 1
        /\ UNCHANGED <<mode, thread, call, notif, cur, fd, files, answer>>
    BY <1>1 DEF Recv, Return
  <2>2. Cardinality(Pending) = 0
    BY <1>1, FS_EmptySet
  <2>3. Cardinality(Pending') = 0
    BY <2>1, <2>2 DEF Pending
  <2>4. TypeOK' /\ Counted'
    BY <2>1, <2>3, SupervisorAssumption DEF SupInv, TypeOK, Counted
  <2>5. Suspended' /\ Handled' /\ Answered' /\ PathKnown' /\ FileHeld'
    BY <2>1
    DEF SupInv, Suspended, Handled, Answered, PathKnown, FileHeld, Waits, Valid, Handling
  <2>6. QED BY <2>4, <2>5 DEF SupInv
<1>2. CASE Pending # {}
  <2>1. PICK o \in Pending : o = Oldest
    BY <1>2, OldestPending DEF SupInv
  <2>2. /\ pc = "recv" /\ pc' \in {"monitor", "read"}
        /\ request > 0 /\ request' = request - 1 /\ cur' = o
        /\ notif' = [notif EXCEPT ![o].state = "sent"]
        /\ UNCHANGED <<mode, thread, call, fd, files, answer, event, path>>
    BY <1>2, <2>1 DEF Recv
  <2>3. /\ o \in DOMAIN notif /\ o \in Nat /\ notif[o].state = "init"
        /\ notif \in Seq(Notification) /\ DOMAIN notif = 1..Len(notif)
    BY <2>1 DEF Pending, SupInv, TypeOK, Notification
  <2>4. notif' \in [DOMAIN notif -> Notification]
    <3>1. notif[o] \in Notification /\ \A i \in DOMAIN notif : notif[i] \in Notification
      BY <2>3
    <3>2. [notif[o] EXCEPT !.state = "sent"] \in Notification
      BY <3>1 DEF Notification
    <3>3. notif' = [i \in DOMAIN notif |->
                      IF i = o THEN [notif[o] EXCEPT !.state = "sent"] ELSE notif[i]]
      BY <2>2, <2>3
    <3>4. QED BY <3>1, <3>2, <3>3
  <2>5. notif' \in Seq(Notification) /\ Len(notif') = Len(notif) /\ DOMAIN notif' = DOMAIN notif
    BY <2>3, <2>4, SameDomain
  <2>6. /\ notif'[o].thread = notif[o].thread /\ notif'[o].call = notif[o].call
        /\ notif'[o].state = "sent"
        /\ \A i \in DOMAIN notif : i # o => notif'[i] = notif[i]
    <3>1. notif[o] \in Notification
      BY <2>3
    <3>2. QED BY <2>2, <2>3, <3>1 DEF Notification
  <2>7. \A i \in DOMAIN notif : /\ Waits(i)' <=> Waits(i)
                               /\ notif'[i].thread = notif[i].thread
                               /\ notif'[i].call = notif[i].call
    BY <2>3, <2>6 DEF Waits
  <2>8. TypeOK'
    <3>1. \A u \in Threads : thread'[u] = "waiting" <=>
            \E id \in DOMAIN notif' : notif'[id].thread = u /\ Waits(id)'
      BY <2>2, <2>5, <2>7 DEF SupInv, TypeOK, Waits
    <3>2. request' \in 0..MaxId /\ cur' \in 0..Len(notif')
      BY <2>2, <2>3, <2>5, SupervisorAssumption DEF SupInv, TypeOK
    <3>3. QED BY <2>2, <2>5, <3>1, <3>2 DEF SupInv, TypeOK, Notification, Waits
  <2>9. Suspended'
    BY <2>2, <2>5, <2>7 DEF SupInv, Suspended
  <2>10. Counted'
    <3>1. Pending' = Pending \ {o}
      BY <2>3, <2>5, <2>6 DEF Pending
    <3>2. Cardinality(Pending') = Cardinality(Pending) - 1
      BY <2>1, <3>1, PendingFinite, FS_RemoveElement DEF SupInv
    <3>3. QED BY <2>2, <2>5, <3>2, PendingFinite DEF SupInv, TypeOK, Counted
  <2>11. Handled'
    <3>1. \A id \in DOMAIN notif : ~Valid(id)
      BY <2>2 DEF SupInv, Handled, Handling
    <3>2. answer[o] = None
      <4>1. o \in Id
        BY <2>3, SupervisorAssumption DEF SupInv, TypeOK, Id
      <4>2. QED BY <2>3, <4>1 DEF SupInv, Answered
    <3>3. QED BY <2>2, <2>3, <2>5, <2>6, <3>1, <3>2 DEF Handled, Valid, Handling
  <2>12. Answered'
    BY <2>2, <2>3, <2>5, <2>6 DEF SupInv, Answered
  <2>13. PathKnown' /\ FileHeld'
    BY <2>2 DEF SupInv, PathKnown, FileHeld
  <2>14. QED BY <2>8, <2>9, <2>10, <2>11, <2>12, <2>13 DEF SupInv
<1>3. QED BY <1>1, <1>2

-----------------------------------------------------------------------------
(* Working at a call: the answer, the call gone, or neither.               *)

(* A call that still waits gets its answer, and handle_event returns. *)
LEMMA ReplyKeeps ==
  ASSUME SupInv, NEW how \in {"continue", "fd"}, NEW e \in {"None", "Some"},
         pc \in Handling, Valid(cur), Reply(cur, how), Return(e), fd' = <<>>, cur' = cur
  PROVE  SupInv'
<1>1. /\ cur \in DOMAIN notif /\ notif[cur].state = "sent"
      /\ notif \in Seq(Notification) /\ DOMAIN notif = 1..Len(notif)
  BY DEF SupInv, TypeOK, Handled, Valid, Notification
<1>2. notif[cur] \in Notification /\ \A i \in DOMAIN notif : notif[i] \in Notification
  BY <1>1
<1>3. PICK t \in Threads : t = notif[cur].thread
  BY <1>2 DEF Notification
<1>4. /\ notif' = [notif EXCEPT ![cur].state = "replied"]
      /\ thread' = [thread EXCEPT ![t] = "user"]
      /\ answer' = [answer EXCEPT ![cur] = how]
      /\ pc' = "poll" /\ event' = e
      /\ UNCHANGED <<mode, call, request>>
  BY <1>3 DEF Reply, Return
<1>5. notif' \in [DOMAIN notif -> Notification]
  <2>1. [notif[cur] EXCEPT !.state = "replied"] \in Notification
    BY <1>2 DEF Notification
  <2>2. notif' = [i \in DOMAIN notif |->
                    IF i = cur THEN [notif[cur] EXCEPT !.state = "replied"] ELSE notif[i]]
    BY <1>1, <1>4
  <2>3. QED BY <1>2, <2>1, <2>2
<1>6. notif' \in Seq(Notification) /\ Len(notif') = Len(notif) /\ DOMAIN notif' = DOMAIN notif
  BY <1>1, <1>5, SameDomain
<1>7. /\ notif'[cur].thread = notif[cur].thread /\ notif'[cur].call = notif[cur].call
      /\ notif'[cur].state = "replied"
      /\ \A i \in DOMAIN notif : i # cur => notif'[i] = notif[i]
  BY <1>1, <1>2, <1>4 DEF Notification
<1>8. \A i \in DOMAIN notif : Waits(i)' <=> Waits(i) /\ i # cur
  BY <1>7 DEF Waits
<1>9. \A i \in DOMAIN notif : Waits(i) /\ i # cur => notif[i].thread # t
  BY <1>1, <1>3 DEF SupInv, Suspended, Waits
<1>10. cur \in Id
  BY <1>1, SupervisorAssumption DEF SupInv, TypeOK, Id
<1>11. TypeOK'
  <2>1. thread'[t] = "user" /\ \A u \in Threads : u # t => thread'[u] = thread[u]
    BY <1>4 DEF SupInv, TypeOK
  <2>2. \A u \in Threads : thread[u] = "waiting" <=>
          \E id \in DOMAIN notif : notif[id].thread = u /\ Waits(id)
    BY DEF SupInv, TypeOK, Waits
  <2>3. \A u \in Threads : thread'[u] = "waiting" <=>
          \E id \in DOMAIN notif' : notif'[id].thread = u /\ Waits(id)'
    BY <1>3, <1>6, <1>7, <1>8, <1>9, <2>1, <2>2
  <2>4. thread' \in [Threads -> {"user", "waiting", "dead"}]
    BY <1>4 DEF SupInv, TypeOK
  <2>5. QED BY <1>4, <1>6, <2>3, <2>4 DEF SupInv, TypeOK, Notification, Waits
<1>12. Suspended'
  BY <1>4, <1>6, <1>7, <1>8 DEF SupInv, Suspended
<1>13. Counted'
  <2>1. Pending' = Pending
    BY <1>1, <1>6, <1>7 DEF Pending
  <2>2. QED BY <1>4, <1>6, <2>1 DEF SupInv, Counted
<1>14. Handled'
  BY <1>4, <1>6, <1>7 DEF SupInv, Handled, Valid, Handling
<1>15. Answered'
  <2>1. /\ answer' \in [Id -> {"none", "continue", "fd"}] /\ answer'[cur] = how
        /\ \A id \in Id : id # cur => answer'[id] = answer[id]
    BY <1>4, <1>10 DEF SupInv, Answered
  <2>2. \A id \in Id : answer'[id] # None =>
          id \in DOMAIN notif' /\ notif'[id].state = "replied"
    BY <1>1, <1>6, <1>7, <2>1 DEF SupInv, Answered
  <2>3. answer'[cur'] # None /\ event' # "Err"
    BY <1>4, <2>1 DEF None
  <2>4. QED BY <2>1, <2>2, <2>3 DEF Answered
<1>16. PathKnown' /\ FileHeld'
  BY <1>4 DEF PathKnown, FileHeld
<1>17. QED BY <1>11, <1>12, <1>13, <1>14, <1>15, <1>16 DEF SupInv

(* A call that is gone is given up. *)
LEMMA GoneKeeps ==
  ASSUME SupInv, NEW e \in {"None", "Err"}, pc \in Handling, ~Valid(cur), Return(e),
         UNCHANGED <<mode, kernVars, answer, cur>>, fd' = <<>>
  PROVE  SupInv'
<1>1. /\ pc' = "poll" /\ event' = e
      /\ UNCHANGED <<mode, thread, call, notif, request, answer, cur>>
  BY DEF Return, kernVars
<1>2. TypeOK' /\ Suspended'
  BY <1>1 DEF SupInv, TypeOK, Suspended, Waits
<1>3. Counted' /\ Handled'
  BY <1>1 DEF SupInv, Counted, Handled, Pending, Valid, Handling
<1>4. Answered'
  BY <1>1 DEF SupInv, Answered, Handled, Valid
<1>5. PathKnown' /\ FileHeld'
  BY <1>1 DEF PathKnown, FileHeld
<1>6. QED BY <1>2, <1>3, <1>4, <1>5 DEF SupInv

(* respond_continue, from a place where no file is held. *)
LEMMA RespondKeeps ==
  ASSUME SupInv, NEW e \in {"None", "Some"}, pc \in Handling, pc # "inject",
         respond_continue(e), UNCHANGED <<cur, fd>>
  PROVE  SupInv'
<1>1. fd' = <<>>
  BY DEF SupInv, FileHeld
<1>2. CASE Valid(cur)
  BY <1>1, <1>2, ReplyKeeps DEF respond_continue
<1>3. CASE ~Valid(cur)
  <2>1. Return("Err") /\ UNCHANGED <<mode, kernVars, answer, cur>>
    BY <1>3 DEF respond_continue
  <2>2. QED BY <1>1, <1>3, <2>1, GoneKeeps
<1>4. QED BY <1>2, <1>3

(* A step towards the answer. *)
LEMMA InsideKeeps ==
  ASSUME SupInv, pc \in Handling, pc' \in Handling,
         UNCHANGED <<mode, kernVars, cur, answer, event>>, PathKnown', FileHeld'
  PROVE  SupInv'
<1>1. UNCHANGED <<mode, thread, call, notif, request, cur, answer, event>>
  BY DEF kernVars
<1>2. TypeOK' /\ Suspended'
  BY <1>1 DEF SupInv, TypeOK, Suspended, Waits, Handling
<1>3. Counted' /\ Handled' /\ Answered'
  BY <1>1 DEF SupInv, Counted, Handled, Answered, Pending, Valid, Handling
<1>4. QED BY <1>2, <1>3 DEF SupInv

LEMMA WorkKeeps ==
  ASSUME SupInv,
         \/ handle_monitor \/ ReadPath \/ ReadFailed \/ IdValid
         \/ Open \/ OpenReturns \/ AddFd \/ Proceed
  PROVE  SupInv'
<1>1. CASE handle_monitor
  BY <1>1, RespondKeeps DEF handle_monitor, Handling
<1>2. CASE ReadFailed
  BY <1>2, RespondKeeps DEF ReadFailed, Handling
<1>3. CASE Proceed
  BY <1>3, RespondKeeps DEF Proceed, Handling
<1>4. CASE ReadPath
  <2>1. /\ pc = "read" /\ pc' \in {"check", "unread"}
        /\ pc' = "check" => path' = call[notif[cur].thread].path
        /\ UNCHANGED <<mode, kernVars, cur, fd, event, files, answer>>
    BY <1>4 DEF ReadPath
  <2>2. Valid(cur) => call[notif[cur].thread] = notif[cur].call
    BY <2>1 DEF SupInv, Handled, Handling, Suspended, Valid, Waits
  <2>3. PathKnown'
    BY <2>1, <2>2 DEF PathKnown, Valid, kernVars
  <2>4. FileHeld'
    BY <2>1 DEF SupInv, FileHeld
  <2>5. QED BY <2>1, <2>3, <2>4, InsideKeeps DEF Handling
<1>5. CASE IdValid
  <2>1. fd' = <<>>
    BY <1>5 DEF IdValid, SupInv, FileHeld
  <2>2. CASE Valid(cur)
    <3>1. /\ pc = "check" /\ pc' = "translate"
          /\ UNCHANGED <<mode, kernVars, cur, fd, files, answer, event, path>>
      BY <1>5, <2>2 DEF IdValid
    <3>2. PathKnown' /\ FileHeld'
      BY <2>1, <2>2, <3>1 DEF SupInv, PathKnown, FileHeld, kernVars
    <3>3. QED BY <3>1, <3>2, InsideKeeps DEF Handling
  <2>3. CASE ~Valid(cur)
    BY <1>5, <2>1, <2>3, GoneKeeps DEF IdValid, Handling
  <2>4. QED BY <2>2, <2>3
<1>6. CASE Open
  <2>1. /\ pc = "translate" /\ pc' \in {"blocked", "inject", "proceed"}
        /\ UNCHANGED <<mode, kernVars, cur, path, event, answer>>
    BY <1>6 DEF Open
  <2>2. path = notif[cur].call.path /\ fd = <<>>
    BY <2>1 DEF SupInv, PathKnown, FileHeld
  <2>3. notif' = notif
    BY <2>1 DEF kernVars
  <2>4. PathKnown'
    BY <2>1 DEF PathKnown
  <2>5. FileHeld'
    BY <1>6, <2>1, <2>2, <2>3 DEF Open, FileHeld, Matching, translate, opened
  <2>6. QED BY <2>1, <2>4, <2>5, InsideKeeps DEF Handling
<1>7. CASE AddFd
  <2>1. pc = "inject" /\ fd' = <<>> /\ cur' = cur
    BY <1>7 DEF AddFd
  <2>2. CASE Valid(cur) /\ Reply(cur, "fd") /\ Return("Some")
    BY <2>1, <2>2, ReplyKeeps DEF Handling
  <2>3. CASE pc' = "proceed" /\ UNCHANGED <<mode, kernVars, answer, event, path>>
    <3>1. PathKnown' /\ FileHeld'
      BY <2>1, <2>3 DEF PathKnown, FileHeld
    <3>2. QED BY <2>1, <2>3, <3>1, InsideKeeps DEF Handling
  <2>4. QED BY <1>7, <2>2, <2>3 DEF AddFd
<1>8. CASE OpenReturns
  <2>1. /\ pc = "blocked" /\ pc' \in {"inject", "proceed"}
        /\ UNCHANGED <<mode, kernVars, cur, path, event, files, answer>>
    BY <1>8 DEF OpenReturns
  <2>2. notif' = notif /\ fd = <<>>
    BY <2>1 DEF kernVars, SupInv, FileHeld
  <2>3. PathKnown'
    BY <2>1 DEF PathKnown
  <2>4. FileHeld'
    BY <1>8, <2>1, <2>2
    DEF OpenReturns, SupInv, FileHeld, Matching, translate, opened
  <2>5. QED BY <2>1, <2>3, <2>4, InsideKeeps DEF Handling
<1>9. QED BY <1>1, <1>2, <1>3, <1>4, <1>5, <1>6, <1>7, <1>8

-----------------------------------------------------------------------------
(* The invariant.                                                          *)

LEMMA InitHolds == Init => SupInv
<1> SUFFICES ASSUME Init PROVE SupInv
  OBVIOUS
<1>1. DOMAIN notif = {} /\ Len(notif) = 0
  BY DEF Init
<1>2. Pending = {}
  BY <1>1 DEF Pending
<1>3. Cardinality(Pending) = 0
  BY <1>2, FS_EmptySet
<1>4. (CHOOSE c \in Calls : TRUE) \in Calls
  BY SupervisorAssumption
<1>5. TypeOK
  <2>1. call \in [Threads -> Calls]
    BY <1>4 DEF Init
  <2>2. notif \in Seq([thread : Threads, call : Calls,
                       state : {"init", "sent", "gone", "replied"}])
    BY DEF Init
  <2>3. \A t \in Threads : thread[t] # "waiting"
    BY DEF Init
  <2>4. QED BY <1>1, <2>1, <2>2, <2>3, SupervisorAssumption DEF Init, TypeOK, None
<1>6. Suspended /\ Counted /\ Handled /\ Answered /\ PathKnown /\ FileHeld
  BY <1>1, <1>3 DEF Init, Suspended, Counted, Handled, Answered, PathKnown, FileHeld, Handling, None
<1>7. QED BY <1>5, <1>6 DEF SupInv

LEMMA StutterKeeps == SupInv /\ UNCHANGED vars => SupInv'
<1> SUFFICES ASSUME SupInv, UNCHANGED vars PROVE SupInv'
  OBVIOUS
<1>1. UNCHANGED <<mode, thread, call, notif, request, pc, cur, path, fd, event, files, answer>>
  BY DEF vars, kernVars, supVars
<1>2. Pending' = Pending
  BY <1>1 DEF Pending
<1>3. QED
  BY <1>1, <1>2 DEF SupInv, TypeOK, Suspended, Counted, Handled, Answered, PathKnown, FileHeld,
                    Waits, Valid, Matching, translate, opened

LEMMA NextKeeps == SupInv /\ [Next]_vars => SupInv'
<1> SUFFICES ASSUME SupInv, [Next]_vars PROVE SupInv'
  OBVIOUS
<1>1. ASSUME NEW t \in Threads, Interrupt(t) \/ Die(t) PROVE SupInv'
  BY <1>1, LeaveKeeps DEF Interrupt, Die
<1>2. CASE handle_event
  BY <1>2, HandleEventKeeps, RecvKeeps, WorkKeeps DEF handle_event
<1>3. QED BY <1>1, <1>2, NotifyKeeps, StutterKeeps DEF Next, Over

(* SupInv holds of every behaviour of the supervisor and its program. *)
THEOREM SupervisorInvariant == Spec => []SupInv
BY InitHolds, NextKeeps, PTL DEF Spec

-----------------------------------------------------------------------------
(* What it implies.                                                        *)

(* The variables keep their types, and a thread waits exactly while one    *)
(* notification of it does (handle_event against the kernel's table).      *)
THEOREM SupervisorTyped == Spec => []TypeOK
<1>1. SupInv => TypeOK
  BY DEF SupInv
<1>2. QED BY <1>1, SupervisorInvariant, PTL

(* notif_recv does not block after a poll that found the listener          *)
(* readable, however many calls went away in between.                      *)
THEOREM RecvNeverBlocks == Spec => []RecvReturns
<1>1. SupInv => RecvReturns
  BY DEF SupInv, Counted, RecvReturns
<1>2. QED BY <1>1, SupervisorInvariant, PTL

(* handle_virtualize and open_and_inject open the file the path of the     *)
(* notified call is mapped to, with its flags but O_CLOEXEC (creat         *)
(* excepted), whatever is in the memory of the thread after its call went  *)
(* away.                                                                   *)
THEOREM OpensForNoOther == Spec => []OpensForTheNotified
<1>1. SupInv => OpensForTheNotified
  <2> SUFFICES ASSUME SupInv, fd # <<>> PROVE OpensForTheNotified
    BY DEF OpensForTheNotified
  <2> DEFINE asked == notif[cur].call
  <2>1. /\ is_open_syscall(asked.nr) /\ Matching(asked.path) # {} /\ path = asked.path
        /\ fd = opened(asked)
    BY DEF SupInv, FileHeld
  <2>2. fd[1] = Resolve(translate(asked.path)) /\ fd[2] = open_flags(asked) \ {O_CLOEXEC}
    BY <2>1 DEF opened
  <2>3. asked.nr # "creat" => open_flags(asked) = Wanted(asked)
    BY <2>1 DEF is_open_syscall, open_flags, Wanted
  <2>4. QED BY <2>1, <2>2, <2>3 DEF OpensForTheNotified
<1>2. QED BY <1>1, SupervisorInvariant, PTL

(* handle_event never returns with a file open, nor with the call it took  *)
(* still suspended.                                                        *)
THEOREM NothingIsForgotten == Spec => []NothingForgotten
<1>1. SupInv => NothingForgotten
  BY DEF SupInv, FileHeld, Handled, Handling, NothingForgotten
<1>2. QED BY <1>1, SupervisorInvariant, PTL

(* The result of handle_event tells whether the call was answered.         *)
THEOREM EventsAreTruthful == Spec => []EventTruthful
<1>1. SupInv => EventTruthful
  BY DEF SupInv, Answered, EventTruthful
<1>2. QED BY <1>1, SupervisorInvariant, PTL
=============================================================================
