---------------------------- MODULE GoCacheProofs ---------------------------
(* Proofs about GoCache, for any number of calls and processes, any        *)
(* builders, any upgrades of the go binary, and errors and kills anywhere. *)
EXTENDS GoCache, SequenceTheorems, TLAPS

-----------------------------------------------------------------------------
(* The inductive invariant.                                                *)

key(c) == compute_cache_key(c)

(* Where a call stands tells what it has.                                  *)
Staged(c) ==
  /\ pc[c] \in {"detect", "lookup", "probe"} => info[c] = NoInfo
  /\ pc[c] \in {"insert", "exists", "read", "compile", "create", "write", "run", "done"} =>
       info[c] # NoInfo
  /\ pc[c] \in {"detect", "lookup", "probe", "insert", "exists", "compile"} =>
       ~hit[c] /\ content[c] = <<>> /\ pos[c] = 0
  /\ pc[c] = "read" => hit[c] /\ Len(content[c]) = pos[c]
  /\ pc[c] \in {"read", "write"} => disk[key(c)] # Absent
  /\ pc[c] \in {"create", "write", "cut"} => ~hit[c] /\ content[c] # <<>>
  /\ pc[c] = "create" => pos[c] = 0
  /\ pc[c] = "write" => pos[c] \in 0..1
  /\ pc[c] \in {"run", "done"} /\ ~hit[c] => content[c] # <<>>
  /\ hit[c] => ~want[c].no_cache

(* Every block but a hole is of a program compiled for the key of a call.  *)
OwnBlocks(file, c) == \A i \in 1..Len(file) : file[i] # Zero => Own(file[i], c)

(* What a call compiled is its own program, and what it read has its key.  *)
Carried(c) ==
  /\ Wrote(c) => info[c] # NoInfo /\ content[c] = File(Binary(c, info[c].cgo))
  /\ hit[c] => OwnBlocks(content[c], c)

(* The probe's result a call holds is as ProbeFresh says.                  *)
Probed(c) ==
  /\ since[c] <= golang.version
  /\ kept \/ mtime[c] = since[c]
  /\ info[c] # NoInfo =>
       /\ info[c].version <= golang.version
       /\ kept \/ since[c] <= info[c].version
       /\ info[c].cgo = want[c].cgo \/ Mixed(c)

CallInv(c) == Staged(c) /\ Carried(c) /\ Probed(c)

(* What the cache of a process holds for an mtime is not older than that.  *)
ProbesInv ==
  \A p \in Process, m \in Version : probes[p][m] # NoInfo =>
    /\ probes[p][m].version <= golang.version
    /\ kept \/ m <= probes[p][m].version
    /\ \E d \in Call : ProcessOf[d] = p /\ want[d].cgo = probes[p][m].cgo

GolangInv == kept \/ golang.mtime = golang.version

(* Every block on the disk is of a program compiled for its key.           *)
DiskInv == \A c \in Call : disk[key(c)] # Absent => OwnBlocks(disk[key(c)], c)

(* A block of a program that a call with this key compiled.                *)
From(block, k) == \E w \in Call : key(w) = k /\ Wrote(w) /\ block = content[w][1]

(* The call that truncated the file last: as far as it wrote, only         *)
(* compiled blocks are in the file, its own or later ones.                 *)
Latest(d, k) ==
  /\ key(d) = k /\ Wrote(d)
  /\ pc[d] \in {"write", "cut"} \/ pos[d] = 2
  /\ \A i \in 1..pos[d] : i <= Len(disk[k]) /\ From(disk[k][i], k)

LatestInv == \A k \in Keys : disk[k] # Absent => \E d \in Call : Latest(d, k)

CacheInv ==
  /\ TypeOK /\ \A c \in Call : CallInv(c)
  /\ ProbesInv /\ GolangInv /\ DiskInv /\ LatestInv

-----------------------------------------------------------------------------
(* Builders, keys and programs.                                            *)

(* Every call's builder is one of those listed; its key is one of the keys. *)
LEMMA WantedBuilder ==
  ASSUME TypeOK, NEW c \in Call
  PROVE  /\ want[c] \in Builders /\ key(c) \in Keys
         /\ want[c].cgo \in BOOLEAN /\ want[c].no_cache \in BOOLEAN
         /\ \A cgo \in BOOLEAN : Binary(c, cgo) \in Binaries
<1>1. want[c] \in Builders
  BY DEF TypeOK
<1>2. \A r \in Builders : r.cgo \in BOOLEAN /\ r.no_cache \in BOOLEAN
  BY GoCacheAssumption DEF Builders
<1>3. QED BY <1>1, <1>2 DEF key, compute_cache_key, Keys, Binary, Binaries

(* A result of a probe is told from none. *)
LEMMA InfoKnown ==
  ASSUME NEW i \in Info \cup {NoInfo}, i # NoInfo
  PROVE  i \in Info /\ i.cgo \in BOOLEAN /\ i.version \in Version
BY DEF Info

(* Calls with one key have the same own programs. *)
LEMMA SameOwn ==
  ASSUME NEW c \in Call, NEW d \in Call, SameKey(c, d), NEW block, Own(block, c)
  PROVE  Own(block, d)
<1>1. \A e \in Call : Alike(c, e) <=> Alike(d, e)
  BY DEF SameKey, compute_cache_key, Alike
<1>2. QED BY <1>1 DEF Own

(* What a call compiled is its own, and two equal blocks. *)
LEMMA CompiledOwn ==
  ASSUME TypeOK, NEW c \in Call, Carried(c), Probed(c), Wrote(c)
  PROVE  /\ Len(content[c]) = 2 /\ content[c][1] = content[c][2]
         /\ content[c][1] \in Binaries /\ Own(content[c][1], c)
<1>1. info[c] \in Info /\ info[c].cgo \in BOOLEAN
  BY InfoKnown DEF TypeOK, Carried
<1>2. content[c] = <<Binary(c, info[c].cgo), Binary(c, info[c].cgo)>>
  BY DEF Carried, File
<1>3. Binary(c, info[c].cgo) \in Binaries
  BY <1>1, WantedBuilder
<1>4. Own(Binary(c, info[c].cgo), c)
  <2>1. Alike(c, c) /\ (info[c].cgo = want[c].cgo \/ Mixed(c))
    BY DEF Alike, Probed, Carried
  <2>2. QED BY <1>1, <2>1 DEF Own
<1>5. QED BY <1>2, <1>3, <1>4

-----------------------------------------------------------------------------
(* A step of one call leaves the others alone.                             *)

Alone(c) ==
  /\ \A m \in Call : m # c =>
       /\ pc'[m] = pc[m] /\ mtime'[m] = mtime[m] /\ info'[m] = info[m] /\ hit'[m] = hit[m]
       /\ content'[m] = content[m] /\ pos'[m] = pos[m] /\ since'[m] = since[m]
  /\ UNCHANGED <<want, golang, kept>>

(* Same builders: same keys, same owners. *)
LEMMA SameWant ==
  ASSUME want' = want, NEW c \in Call
  PROVE  /\ key(c)' = key(c) /\ (Mixed(c) <=> Mixed(c)')
         /\ \A d \in Call : SameKey(c, d)' <=> SameKey(c, d)
         /\ \A block : Own(block, c)' <=> Own(block, c)
         /\ \A file : OwnBlocks(file, c)' <=> OwnBlocks(file, c)
         /\ \A cgo : Binary(c, cgo)' = Binary(c, cgo)
<1>1. \A d \in Call : key(d)' = key(d) /\ (Mixed(d) <=> Mixed(d)')
  BY DEF key, compute_cache_key, Mixed
<1>2. \A d \in Call : (SameKey(c, d)' <=> SameKey(c, d)) /\ (Alike(c, d)' <=> Alike(c, d))
  BY DEF SameKey, compute_cache_key, Alike
<1>3. \A block : Own(block, c)' <=> Own(block, c)
  <2>1. \A d \in Call : \A cgo : Binary(d, cgo)' = Binary(d, cgo)
    BY DEF Binary
  <2>2. QED BY <1>1, <1>2, <2>1 DEF Own
<1>4. \A file : OwnBlocks(file, c)' <=> OwnBlocks(file, c)
  BY <1>3 DEF OwnBlocks
<1>5. QED BY <1>1, <1>2, <1>3, <1>4 DEF Binary

(* The other calls keep their part of the invariant. *)
LEMMA OthersKeep ==
  ASSUME CacheInv, NEW c \in Call, Alone(c), NEW m \in Call, m # c,
         disk[key(m)] # Absent => disk'[key(m)] # Absent
  PROVE  CallInv(m)'
<1>1. /\ key(m)' = key(m) /\ (Mixed(m) <=> Mixed(m)')
      /\ \A file : OwnBlocks(file, m)' <=> OwnBlocks(file, m)
      /\ \A cgo : Binary(m, cgo)' = Binary(m, cgo)
  BY SameWant DEF Alone
<1>2. CallInv(m)
  BY DEF CacheInv
<1>3. Staged(m)'
  BY <1>1, <1>2 DEF Alone, CallInv, Staged
<1>4. Carried(m)'
  BY <1>1, <1>2 DEF Alone, CallInv, Carried, Wrote
<1>5. Probed(m)'
  BY <1>1, <1>2 DEF Alone, CallInv, Probed
<1>6. QED BY <1>3, <1>4, <1>5 DEF CallInv

(* A call that goes on, or stops, without giving up what it wrote.         *)
Steady(c) ==
  Wrote(c) => /\ Wrote(c)' /\ content'[c] = content[c] /\ pos'[c] = pos[c]
              /\ pc[c] \in {"write", "cut"} => pc'[c] \in {"write", "cut"}

(* Files that nobody touches stay as they are. *)
LEMMA SteadyFiles ==
  ASSUME CacheInv, want' = want, disk' = disk, \A c \in Call : Steady(c)
  PROVE  DiskInv' /\ LatestInv'
<1>1. DiskInv'
  BY SameWant DEF CacheInv, DiskInv
<1>2. ASSUME NEW k \in Keys, NEW d \in Call, Latest(d, k)
      PROVE  Latest(d, k)'
  <2>1. key(d)' = key(d)
    BY SameWant
  <2>2. \A block : From(block, k) => From(block, k)'
    BY SameWant DEF From, Steady
  <2>3. Wrote(d)' /\ pos'[d] = pos[d] /\ (pc[d] \in {"write", "cut"} => pc'[d] \in {"write", "cut"})
    BY <1>2 DEF Latest, Steady
  <2>4. QED BY <1>2, <2>1, <2>2, <2>3 DEF Latest
<1>3. LatestInv'
  <2>1. Keys' = Keys
    BY DEF Keys, Builders
  <2>2. QED BY <1>2, <2>1 DEF CacheInv, LatestInv
<1>4. QED BY <1>1, <1>3

(* A step of one call that touches no file. *)
LEMMA CallStep ==
  ASSUME CacheInv, NEW c \in Call, Alone(c), TypeOK', CallInv(c)', ProbesInv',
         disk' = disk, Steady(c)
  PROVE  CacheInv'
<1>1. \A m \in Call : CallInv(m)'
  BY OthersKeep
<1>2. \A m \in Call : Steady(m)
  BY DEF Alone, Steady, Wrote
<1>3. DiskInv' /\ LatestInv'
  BY <1>2, SteadyFiles DEF Alone
<1>4. GolangInv'
  BY DEF CacheInv, GolangInv, Alone
<1>5. QED BY <1>1, <1>3, <1>4 DEF CacheInv

(* The cache of probes stays as it is. *)
LEMMA SameProbes ==
  ASSUME CacheInv, UNCHANGED <<want, probes, golang, kept>>
  PROVE  ProbesInv'
BY DEF CacheInv, ProbesInv

-----------------------------------------------------------------------------
(* The probe.                                                              *)

LEMMA DetectKeeps ==
  ASSUME CacheInv, NEW c \in Call, Detect(c)
  PROVE  CacheInv'
<1>1. TypeOK' /\ Alone(c)
  BY DEF CacheInv, TypeOK, Detect, At, probe_key, Alone
<1>2. /\ pc[c] = "detect" /\ pc'[c] = "lookup"
      /\ mtime'[c] = golang.mtime /\ since'[c] = golang.version
      /\ UNCHANGED <<want, info, hit, content, pos, probes, disk, golang, kept>>
  BY DEF CacheInv, TypeOK, Detect, At, probe_key
<1>3. CallInv(c) /\ GolangInv
  BY DEF CacheInv
<1>4. Staged(c)'
  BY <1>2, <1>3 DEF CallInv, Staged
<1>5. Carried(c)'
  BY <1>2, <1>3, SameWant DEF CallInv, Staged, Carried, Wrote
<1>6. Probed(c)'
  <2>1. golang.version \in Nat
    BY GoCacheAssumption DEF CacheInv, TypeOK, Version
  <2>2. info'[c] = NoInfo
    BY <1>2, <1>3 DEF CallInv, Staged
  <2>3. QED BY <1>2, <1>3, <2>1, <2>2 DEF Probed, GolangInv
<1>7. Steady(c)
  BY <1>2 DEF Steady, Wrote
<1>8. QED BY <1>1, <1>2, <1>4, <1>5, <1>6, <1>7, SameProbes, CallStep DEF CallInv

LEMMA LookupKeeps ==
  ASSUME CacheInv, NEW c \in Call, LookupHit(c) \/ LookupMiss(c)
  PROVE  CacheInv'
<1>1. CallInv(c)
  BY DEF CacheInv
<1>2. CASE LookupMiss(c)
  <2>1. TypeOK' /\ Alone(c)
    BY <1>2 DEF CacheInv, TypeOK, LookupMiss, At, Alone
  <2>2. /\ pc[c] = "lookup" /\ pc'[c] = "probe"
        /\ UNCHANGED <<want, mtime, info, hit, content, pos, probes, disk, golang, since, kept>>
    BY <1>2 DEF CacheInv, TypeOK, LookupMiss, At
  <2>3. Staged(c)' /\ Carried(c)'
    BY <1>1, <2>2, SameWant DEF CallInv, Staged, Carried, Wrote
  <2>4. Probed(c)' /\ Steady(c)
    BY <1>1, <2>2, SameWant DEF CallInv, Probed, Steady, Wrote
  <2>5. QED BY <2>1, <2>2, <2>3, <2>4, SameProbes, CallStep DEF CallInv
<1>3. CASE LookupHit(c)
  <2>1. PICK p \in Process : p = ProcessOf[c]
    BY GoCacheAssumption
  <2>2. PICK m \in Version : m = mtime[c]
    BY DEF CacheInv, TypeOK
  <2>3. /\ pc[c] = "lookup" /\ pc'[c] = "exists"
        /\ info'[c] = probes[p][m] /\ probes[p][m] # NoInfo
        /\ probes[p][m] \in Info \cup {NoInfo}
        /\ UNCHANGED <<want, mtime, hit, content, pos, probes, disk, golang, since, kept>>
    BY <1>3, <2>1, <2>2 DEF CacheInv, TypeOK, LookupHit, At
  <2>4. TypeOK' /\ Alone(c)
    BY <1>3, <2>1, <2>2, <2>3 DEF CacheInv, TypeOK, LookupHit, At, Alone
  <2>5. Staged(c)' /\ Carried(c)'
    BY <1>1, <2>3, SameWant DEF CallInv, Staged, Carried, Wrote
  <2>6. Probed(c)'
    <3>1. /\ probes[p][m].version <= golang.version /\ (kept \/ m <= probes[p][m].version)
          /\ \E d \in Call : ProcessOf[d] = p /\ want[d].cgo = probes[p][m].cgo
      BY <2>3 DEF CacheInv, ProbesInv
    <3>2. probes[p][m].cgo = want[c].cgo \/ Mixed(c)
      BY <2>1, <3>1 DEF Mixed
    <3>3. QED BY <1>1, <2>2, <2>3, <3>1, <3>2, SameWant DEF CallInv, Probed
  <2>7. Steady(c)
    BY <2>3 DEF Steady, Wrote
  <2>8. QED BY <2>3, <2>4, <2>5, <2>6, <2>7, SameProbes, CallStep DEF CallInv
<1>4. QED BY <1>2, <1>3

LEMMA ProbeKeeps ==
  ASSUME CacheInv, NEW c \in Call, Probe(c)
  PROVE  CacheInv'
<1>1. CallInv(c)
  BY DEF CacheInv
<1>2. PICK i \in Info : i = [cgo |-> want[c].cgo, version |-> golang.version]
  BY WantedBuilder DEF CacheInv, TypeOK, Info
<1>3. i # NoInfo /\ i.cgo = want[c].cgo /\ i.version = golang.version
  BY <1>2 DEF NoInfo
<1>4. /\ pc[c] = "probe" /\ pc'[c] = "insert" /\ info'[c] = i
      /\ UNCHANGED <<want, mtime, hit, content, pos, probes, disk, golang, since, kept>>
  BY <1>2 DEF CacheInv, TypeOK, Probe, At
<1>5. TypeOK' /\ Alone(c)
  BY <1>2 DEF CacheInv, TypeOK, Probe, At, Alone
<1>6. Staged(c)' /\ Carried(c)'
  BY <1>1, <1>3, <1>4, SameWant DEF CallInv, Staged, Carried, Wrote
<1>7. Probed(c)'
  <2>1. golang.version \in Nat /\ since[c] \in Nat
    BY GoCacheAssumption DEF CacheInv, TypeOK, Version
  <2>2. QED BY <1>1, <1>3, <1>4, <2>1 DEF CallInv, Probed
<1>8. Steady(c)
  BY <1>4 DEF Steady, Wrote
<1>9. QED BY <1>4, <1>5, <1>6, <1>7, <1>8, SameProbes, CallStep DEF CallInv

LEMMA InsertKeeps ==
  ASSUME CacheInv, NEW c \in Call, Insert(c)
  PROVE  CacheInv'
<1>1. CallInv(c)
  BY DEF CacheInv
<1>2. PICK q \in Process, n \in Version : q = ProcessOf[c] /\ n = mtime[c]
  BY GoCacheAssumption DEF CacheInv, TypeOK
<1>3. /\ pc[c] = "insert" /\ pc'[c] = "exists"
      /\ probes' = [probes EXCEPT ![q][n] = info[c]]
      /\ UNCHANGED <<want, mtime, info, hit, content, pos, disk, golang, since, kept>>
  BY <1>2 DEF CacheInv, TypeOK, Insert, At
<1>4. TypeOK' /\ Alone(c)
  BY <1>2 DEF CacheInv, TypeOK, Insert, At, Alone
<1>5. Staged(c)' /\ Carried(c)' /\ Probed(c)'
  BY <1>1, <1>3, SameWant DEF CallInv, Staged, Carried, Probed, Wrote
<1>6. ProbesInv'
  <2>1. /\ info[c].version <= golang.version /\ (kept \/ n <= info[c].version)
        /\ \E d \in Call : ProcessOf[d] = q /\ want[d].cgo = info[c].cgo
    <3>1. info[c] \in Info /\ info[c].cgo \in BOOLEAN /\ info[c].version \in Version
      BY <1>1, <1>3, InfoKnown DEF CacheInv, TypeOK, CallInv, Staged
    <3>2. \A d \in Call : want[d].cgo \in BOOLEAN
      BY WantedBuilder DEF CacheInv
    <3>3. info[c] # NoInfo
      BY <1>1, <1>3 DEF CallInv, Staged
    <3>4. \E d \in Call : ProcessOf[d] = q /\ want[d].cgo = info[c].cgo
      <4>1. CASE info[c].cgo = want[c].cgo
        BY <1>2, <4>1
      <4>2. CASE info[c].cgo # want[c].cgo
        <5>1. PICK d \in Call : ProcessOf[d] = ProcessOf[c] /\ want[d].cgo # want[c].cgo
          BY <1>1, <3>3, <4>2 DEF CallInv, Probed, Mixed
        <5>2. want[d].cgo = info[c].cgo
          BY <3>1, <3>2, <4>2, <5>1
        <5>3. QED BY <1>2, <5>1, <5>2
      <4>3. QED BY <4>1, <4>2
    <3>5. QED BY <1>1, <1>2, <3>3, <3>4 DEF CallInv, Probed
  <2>2. \A p \in Process, m \in Version :
          probes'[p][m] = IF p = q /\ m = n THEN info[c] ELSE probes[p][m]
    BY <1>3 DEF CacheInv, TypeOK
  <2>3. QED BY <1>3, <2>1, <2>2 DEF CacheInv, ProbesInv
<1>7. Steady(c)
  BY <1>3 DEF Steady, Wrote
<1>8. QED BY <1>3, <1>4, <1>5, <1>6, <1>7, CallStep DEF CallInv

-----------------------------------------------------------------------------
(* The program.                                                            *)

LEMMA ExistsKeeps ==
  ASSUME CacheInv, NEW c \in Call, ExistsYes(c) \/ ExistsNo(c)
  PROVE  CacheInv'
<1>1. CallInv(c)
  BY DEF CacheInv
<1>2. CASE ExistsNo(c)
  <2>1. TypeOK' /\ Alone(c)
    BY <1>2 DEF CacheInv, TypeOK, ExistsNo, At, Alone
  <2>2. /\ pc[c] = "exists" /\ pc'[c] = "compile"
        /\ UNCHANGED <<want, mtime, info, hit, content, pos, probes, disk, golang, since, kept>>
    BY <1>2 DEF CacheInv, TypeOK, ExistsNo, At
  <2>3. CallInv(c)'
    BY <1>1, <2>2, SameWant DEF CallInv, Staged, Carried, Probed, Wrote
  <2>4. Steady(c)
    BY <2>2 DEF Steady, Wrote
  <2>5. QED BY <2>1, <2>2, <2>3, <2>4, SameProbes, CallStep
<1>3. CASE ExistsYes(c)
  <2>1. TypeOK' /\ Alone(c)
    BY <1>3 DEF CacheInv, TypeOK, ExistsYes, At, Alone
  <2>2. /\ pc[c] = "exists" /\ pc'[c] = "read" /\ hit'[c] = TRUE
        /\ ~want[c].no_cache /\ disk[key(c)] # Absent
        /\ UNCHANGED <<want, mtime, info, content, pos, probes, disk, golang, since, kept>>
    BY <1>3 DEF CacheInv, TypeOK, ExistsYes, At, key
  <2>3. content[c] = <<>> /\ pos[c] = 0 /\ info[c] # NoInfo
    BY <1>1, <2>2 DEF CallInv, Staged
  <2>4. Staged(c)'
    BY <2>2, <2>3, SameWant DEF Staged
  <2>5. Carried(c)'
    BY <2>2, <2>3 DEF Carried, Wrote, OwnBlocks
  <2>6. Probed(c)'
    BY <1>1, <2>2, SameWant DEF CallInv, Probed
  <2>7. Steady(c)
    BY <2>3 DEF Steady, Wrote
  <2>8. QED BY <2>1, <2>2, <2>4, <2>5, <2>6, <2>7, SameProbes, CallStep DEF CallInv
<1>4. QED BY <1>2, <1>3

LEMMA ReadBlockKeeps ==
  ASSUME CacheInv, NEW c \in Call, ReadBlock(c)
  PROVE  CacheInv'
<1>1. CallInv(c)
  BY DEF CacheInv
<1>2. PICK k \in Keys : k = key(c)
  BY WantedBuilder DEF CacheInv
<1>3. disk[k] # Absent /\ disk[k] \in Files /\ pc[c] = "read"
  BY <1>1, <1>2 DEF ReadBlock, At, CallInv, Staged, CacheInv, TypeOK
<1>4. PICK file \in Files : file = disk[k]
  BY <1>3
<1>5. PICK n \in Nat : n = pos[c]
  BY DEF CacheInv, TypeOK
<1>6. file \in Seq(Blocks) /\ Len(file) <= 2 /\ n < Len(file) /\ n + 1 \in 1..Len(file)
  <2>1. pos[c] < Len(disk[compute_cache_key(c)])
    BY DEF ReadBlock
  <2>2. n < Len(file)
    BY <1>2, <1>4, <1>5, <2>1 DEF key
  <2>3. QED BY <2>2 DEF Files
<1>7. PICK old \in Seq(Blocks) : old = content[c] /\ Len(old) = n
  BY <1>1, <1>3, <1>5 DEF CacheInv, TypeOK, Files, CallInv, Staged
<1>8. /\ pc' = pc /\ content' = [content EXCEPT ![c] = Append(old, file[n + 1])]
      /\ pos' = [pos EXCEPT ![c] = n + 1]
      /\ UNCHANGED <<want, mtime, info, hit, probes, disk, golang, since, kept>>
  <2>1. pc' = pc
    BY DEF ReadBlock, At, CacheInv, TypeOK
  <2>2. content' = [content EXCEPT ![c] = Append(content[c], disk[compute_cache_key(c)][pos[c] + 1])]
    BY DEF ReadBlock
  <2>3. content' = [content EXCEPT ![c] = Append(old, file[n + 1])]
    BY <1>2, <1>4, <1>5, <1>7, <2>2 DEF key
  <2>4. QED BY <1>5, <2>1, <2>3 DEF ReadBlock
<1>9. PICK new \in Files :
        /\ new = Append(old, file[n + 1]) /\ Len(new) = n + 1
        /\ new[n + 1] = file[n + 1] /\ \A i \in 1..n : new[i] = old[i]
  <2>1. file[n + 1] \in Blocks
    BY <1>6
  <2>2. /\ Append(old, file[n + 1]) \in Seq(Blocks) /\ Len(Append(old, file[n + 1])) = n + 1
        /\ Append(old, file[n + 1])[n + 1] = file[n + 1]
        /\ \A i \in 1..n : Append(old, file[n + 1])[i] = old[i]
    BY <1>7, <2>1, AppendProperties
  <2>3. n + 1 <= 2
    BY <1>6
  <2>4. Append(old, file[n + 1]) \in Files
    BY <2>2, <2>3 DEF Files
  <2>5. QED BY <2>2, <2>4
<1>10. content'[c] = new /\ pos'[c] = n + 1
  BY <1>8, <1>9 DEF CacheInv, TypeOK
<1>11. TypeOK'
  <2>1. content' \in [Call -> Files] /\ pos' \in [Call -> 0..2]
    BY <1>6, <1>8, <1>9 DEF CacheInv, TypeOK
  <2>2. QED BY <1>8, <2>1 DEF CacheInv, TypeOK
<1>12. Alone(c)
  BY <1>8 DEF CacheInv, TypeOK, Alone
<1>13. Staged(c)'
  BY <1>1, <1>3, <1>8, <1>9, <1>10, SameWant DEF CallInv, Staged
<1>14. Carried(c)'
  <2>1. hit[c] /\ OwnBlocks(old, c)
    BY <1>1, <1>3, <1>7 DEF CallInv, Staged, Carried
  <2>2. OwnBlocks(file, c)
    BY <1>2, <1>3, <1>4 DEF CacheInv, DiskInv
  <2>3. OwnBlocks(new, c)
    BY <1>6, <1>7, <1>9, <2>1, <2>2 DEF OwnBlocks
  <2>4. QED BY <1>8, <1>10, <2>1, <2>3, SameWant DEF Carried, Wrote
<1>15. Probed(c)'
  BY <1>1, <1>8, SameWant DEF CallInv, Probed
<1>16. Steady(c)
  BY <1>1, <1>3 DEF CallInv, Staged, Steady, Wrote
<1>17. QED
  BY <1>8, <1>11, <1>12, <1>13, <1>14, <1>15, <1>16, SameProbes, CallStep DEF CallInv

LEMMA ReadEndKeeps ==
  ASSUME CacheInv, NEW c \in Call, ReadEnd(c) \/ Run(c)
  PROVE  CacheInv'
<1>1. TypeOK' /\ Alone(c)
  BY DEF CacheInv, TypeOK, ReadEnd, Run, At, Alone
<1>2. /\ \/ pc[c] = "read" /\ pc'[c] = "run"
         \/ pc[c] = "run" /\ pc'[c] = "done"
      /\ UNCHANGED <<want, mtime, info, hit, content, pos, probes, disk, golang, since, kept>>
  BY DEF CacheInv, TypeOK, ReadEnd, Run, At
<1>3. CallInv(c)
  BY DEF CacheInv
<1>4. CallInv(c)'
  BY <1>2, <1>3, SameWant DEF CallInv, Staged, Carried, Probed, Wrote
<1>5. Steady(c)
  BY <1>2 DEF Steady, Wrote
<1>6. QED BY <1>1, <1>2, <1>4, <1>5, SameProbes, CallStep

LEMMA CompileKeeps ==
  ASSUME CacheInv, NEW c \in Call, Compile(c)
  PROVE  CacheInv'
<1>1. CallInv(c)
  BY DEF CacheInv
<1>2. pc[c] = "compile" /\ info[c] # NoInfo /\ ~hit[c] /\ content[c] = <<>> /\ pos[c] = 0
  BY <1>1 DEF Compile, At, CallInv, Staged
<1>3. info[c].cgo \in BOOLEAN
  BY <1>2, InfoKnown DEF CacheInv, TypeOK
<1>4. PICK new \in Files : new = File(Binary(c, info[c].cgo)) /\ new # <<>>
  <2>1. Binary(c, info[c].cgo) \in Blocks
    BY <1>3, WantedBuilder DEF CacheInv, Blocks
  <2>2. File(Binary(c, info[c].cgo)) \in Files /\ File(Binary(c, info[c].cgo)) # <<>>
    BY <2>1 DEF File, Files
  <2>3. QED BY <2>2
<1>5. /\ pc'[c] = "create" /\ content'[c] = new
      /\ content' = [content EXCEPT ![c] = new]
      /\ UNCHANGED <<want, mtime, info, hit, pos, probes, disk, golang, since, kept>>
  BY <1>4 DEF CacheInv, TypeOK, Compile, At
<1>6. TypeOK' /\ Alone(c)
  BY <1>5 DEF CacheInv, TypeOK, Compile, At, Alone
<1>7. Staged(c)'
  BY <1>1, <1>2, <1>4, <1>5, SameWant DEF CallInv, Staged
<1>8. Carried(c)'
  BY <1>2, <1>4, <1>5, SameWant DEF Carried, Wrote
<1>9. Probed(c)' /\ Steady(c)
  BY <1>1, <1>2, <1>5, SameWant DEF CallInv, Probed, Steady, Wrote
<1>10. QED BY <1>5, <1>6, <1>7, <1>8, <1>9, SameProbes, CallStep DEF CallInv

(* A step that writes a file. *)
LEMMA FileStep ==
  ASSUME CacheInv, NEW c \in Call, Alone(c), TypeOK', CallInv(c)',
         UNCHANGED <<probes, mtime, info, hit, content, since>>,
         \A k \in Keys : disk[k] # Absent => disk'[k] # Absent,
         DiskInv', LatestInv'
  PROVE  CacheInv'
<1>1. \A m \in Call : CallInv(m)'
  BY WantedBuilder, OthersKeep DEF CacheInv
<1>2. ProbesInv' /\ GolangInv'
  BY DEF CacheInv, ProbesInv, GolangInv, Alone
<1>3. QED BY <1>1, <1>2 DEF CacheInv

LEMMA CreateKeeps ==
  ASSUME CacheInv, NEW c \in Call, Create(c)
  PROVE  CacheInv'
<1>1. CallInv(c)
  BY DEF CacheInv
<1>2. PICK k \in Keys : k = key(c)
  BY WantedBuilder DEF CacheInv
<1>3. <<>> \in Files /\ <<>> # Absent
  <2>1. <<>> \in Seq(Blocks) /\ Len(<<>>) <= 2
    OBVIOUS
  <2>2. <<>> \in Files
    BY <2>1 DEF Files
  <2>3. QED BY <2>2, FileAssumption
<1>4. /\ pc[c] = "create" /\ pc'[c] = "write" /\ disk' = [disk EXCEPT ![k] = <<>>]
      /\ disk'[k] = <<>> /\ \A j \in Keys : j # k => disk'[j] = disk[j]
      /\ UNCHANGED <<want, mtime, info, hit, content, pos, probes, golang, since, kept>>
  BY <1>2 DEF CacheInv, TypeOK, Create, At, key
<1>5. TypeOK'
  BY <1>3, <1>4 DEF CacheInv, TypeOK, Create, At
<1>6. Alone(c)
  BY DEF CacheInv, TypeOK, Create, At, Alone
<1>7. Wrote(c) /\ pos[c] = 0 /\ info[c] # NoInfo
  BY <1>1, <1>4 DEF CallInv, Staged, Wrote
<1>8. CallInv(c)'
  <2>1. Staged(c)'
    BY <1>1, <1>2, <1>3, <1>4, <1>7, SameWant DEF CallInv, Staged, Wrote
  <2>2. Carried(c)' /\ Probed(c)'
    BY <1>1, <1>4, SameWant DEF CallInv, Carried, Probed, Wrote
  <2>3. QED BY <2>1, <2>2 DEF CallInv
<1>9. \A d \in Call : key(d) \in Keys /\ key(d)' = key(d)
  BY <1>4, WantedBuilder, SameWant DEF CacheInv
<1>10. DiskInv'
  <2> SUFFICES ASSUME NEW d \in Call, disk'[key(d)] # Absent
               PROVE  OwnBlocks(disk[key(d)], d)'
    BY <1>9 DEF DiskInv
  <2>1. CASE key(d) = k
    BY <1>4, <1>9, <2>1 DEF OwnBlocks
  <2>2. CASE key(d) # k
    <3>1. disk'[key(d)] = disk[key(d)]
      BY <1>4, <1>9, <2>2
    <3>2. OwnBlocks(disk[key(d)], d)
      BY <3>1 DEF CacheInv, DiskInv
    <3>3. OwnBlocks(disk[key(d)], d)' <=> OwnBlocks(disk'[key(d)], d)
      BY <1>4, <1>9, SameWant DEF OwnBlocks
    <3>4. QED BY <3>1, <3>2, <3>3
  <2>3. QED BY <2>1, <2>2
<1>11. LatestInv'
  <2> SUFFICES ASSUME NEW j \in Keys, disk'[j] # Absent PROVE \E d \in Call : Latest(d, j)'
    BY <1>4 DEF LatestInv, Keys, Builders
  <2>1. \A d \in Call : Wrote(d)' <=> Wrote(d)
    BY <1>4 DEF Wrote
  <2>2. CASE j = k
    <3>1. Latest(c, j)'
      BY <1>2, <1>4, <1>7, <1>9, <2>1, <2>2 DEF Latest
    <3>2. QED BY <3>1
  <2>3. CASE j # k
    <3>1. disk'[j] = disk[j]
      BY <1>4, <2>3
    <3>2. PICK d \in Call : Latest(d, j)
      BY <3>1 DEF CacheInv, LatestInv
    <3>3. d # c
      BY <1>2, <2>3, <3>2 DEF Latest
    <3>4. \A block : From(block, j) => From(block, j)'
      BY <1>4, <1>9, <2>1 DEF From
    <3>5. Latest(d, j)'
      BY <1>4, <1>6, <1>9, <2>1, <3>1, <3>2, <3>3, <3>4 DEF Latest, Alone
    <3>6. QED BY <3>5
  <2>4. QED BY <2>2, <2>3
<1>12. QED BY <1>3, <1>4, <1>5, <1>6, <1>8, <1>10, <1>11, FileStep

(* What a write makes of a file: its block at its offset, the others as    *)
(* they were, and holes.                                                   *)
LEMMA PutFile ==
  ASSUME NEW file \in Files, NEW at \in 1..2, NEW block \in Blocks
  PROVE  /\ Put(file, at, block) \in Files
         /\ at <= Len(Put(file, at, block)) /\ Len(file) <= Len(Put(file, at, block))
         /\ Put(file, at, block)[at] = block
         /\ \A i \in 1..Len(file) : i # at => Put(file, at, block)[i] = file[i]
         /\ \A i \in 1..Len(Put(file, at, block)) :
              Put(file, at, block)[i] \in {block, Zero} \/ i \in 1..Len(file)
<1>1. file \in Seq(Blocks) /\ Len(file) \in Nat /\ Len(file) <= 2
  BY DEF Files
<1>2. PICK n \in 1..2 : n = IF Len(file) < at THEN at ELSE Len(file)
  <2>1. CASE Len(file) < at
    BY <2>1
  <2>2. CASE ~(Len(file) < at)
    <3>1. Len(file) \in 1..2
      <4> DEFINE len == Len(file)
      <4>1. len \in Nat /\ len <= 2 /\ ~(len < at)
        BY <1>1, <2>2
      <4> HIDE DEF len
      <4>2. len \in 1..2
        BY <4>1
      <4>3. QED BY <4>2 DEF len
    <3>2. QED BY <2>2, <3>1
  <2>3. QED BY <2>1, <2>2
<1>3. Zero \in Blocks
  BY DEF Blocks
<1>4. Put(file, at, block) =
        [i \in 1..n |-> IF i = at THEN block ELSE IF i <= Len(file) THEN file[i] ELSE Zero]
  BY <1>2 DEF Put
<1>5. \A i \in 1..n : i <= Len(file) => file[i] \in Blocks
  BY <1>1
<1>6. Put(file, at, block) \in [1..n -> Blocks]
  BY <1>3, <1>4, <1>5
<1>7. Put(file, at, block) \in Seq(Blocks)
  BY <1>6, IsASeq
<1>8. Len(Put(file, at, block)) = n
  BY <1>6, <1>7
<1>9. Put(file, at, block) \in Files
  BY <1>7, <1>8 DEF Files
<1>10. QED BY <1>1, <1>2, <1>4, <1>8, <1>9

LEMMA WriteBlockKeeps ==
  ASSUME CacheInv, NEW c \in Call, WriteBlock(c)
  PROVE  CacheInv'
<1>1. CallInv(c)
  BY DEF CacheInv
<1>2. PICK k \in Keys : k = key(c)
  BY WantedBuilder DEF CacheInv
<1>3. pc[c] = "write" /\ Wrote(c) /\ disk[k] # Absent /\ pos[c] \in 0..1 /\ info[c] # NoInfo
  BY <1>1, <1>2 DEF WriteBlock, WriteNext, At, CallInv, Staged, Wrote
<1>4. PICK at \in 1..2 : at = pos[c] + 1
  BY <1>3
<1>5. PICK b \in Binaries : /\ b = content[c][1] /\ b = content[c][at] /\ Len(content[c]) = 2
                           /\ Own(b, c)
  <2>1. /\ Len(content[c]) = 2 /\ content[c][1] = content[c][2]
        /\ content[c][1] \in Binaries /\ Own(content[c][1], c)
    BY <1>1, <1>3, CompiledOwn DEF CacheInv, CallInv
  <2>2. content[c][at] = content[c][1]
    BY <2>1
  <2>3. QED BY <2>1, <2>2
<1>6. PICK file \in Files : file = disk[k]
  <2>1. disk[k] \in {Absent} \cup Files
    BY DEF CacheInv, TypeOK
  <2>2. QED BY <1>3, <2>1
<1>7. b \in Blocks
  BY DEF Blocks
<1>8. PICK new \in Files :
        /\ new = Put(file, at, b) /\ at <= Len(new) /\ Len(file) <= Len(new) /\ new[at] = b
        /\ \A i \in 1..Len(file) : i # at => new[i] = file[i]
        /\ \A i \in 1..Len(new) : new[i] \in {b, Zero} \/ i \in 1..Len(file)
  BY <1>7, PutFile
<1>9. /\ pc'[c] = IF at = 2 THEN "run" ELSE "write"
      /\ pos' = [pos EXCEPT ![c] = at] /\ pos'[c] = at
      /\ disk' = [disk EXCEPT ![k] = new]
      /\ disk'[k] = new /\ \A j \in Keys : j # k => disk'[j] = disk[j]
      /\ UNCHANGED <<want, mtime, info, hit, content, probes, golang, since, kept>>
  <2>1. disk' = [disk EXCEPT ![k] = Put(disk[k], pos[c] + 1, content[c][pos[c] + 1])]
    BY <1>2 DEF WriteBlock, key
  <2>2. disk' = [disk EXCEPT ![k] = new]
    BY <1>4, <1>5, <1>6, <1>8, <2>1
  <2>3. pc'[c] = IF at = 2 THEN "run" ELSE "write"
    BY <1>4, <1>5 DEF WriteBlock, WriteNext, At, CacheInv, TypeOK
  <2>4. QED BY <1>4, <2>2, <2>3 DEF WriteBlock, CacheInv, TypeOK
<1>10. new # Absent
  BY FileAssumption
<1>11. TypeOK'
  <2>1. pc' \in [Call -> {"detect", "lookup", "probe", "insert", "exists", "read", "compile",
                          "create", "write", "run", "done", "failed", "cut"}]
    BY DEF WriteBlock, WriteNext, At, CacheInv, TypeOK
  <2>2. pos' \in [Call -> 0..2] /\ disk' \in [Keys -> {Absent} \cup Files]
    BY <1>9 DEF CacheInv, TypeOK
  <2>3. QED BY <1>9, <2>1, <2>2 DEF CacheInv, TypeOK
<1>12. Alone(c)
  BY DEF WriteBlock, WriteNext, At, CacheInv, TypeOK, Alone
<1>13. CallInv(c)'
  <2>1. Staged(c)'
    <3>1. at = 1 => pos'[c] \in 0..1
      BY <1>9
    <3>2. QED BY <1>1, <1>2, <1>3, <1>9, <1>10, <3>1, SameWant DEF CallInv, Staged, Wrote
  <2>2. Carried(c)' /\ Probed(c)'
    BY <1>1, <1>9, SameWant DEF CallInv, Carried, Probed, Wrote
  <2>3. QED BY <2>1, <2>2 DEF CallInv
<1>14. \A d \in Call : key(d) \in Keys /\ key(d)' = key(d)
  BY <1>9, WantedBuilder, SameWant DEF CacheInv
<1>15. DiskInv'
  <2> SUFFICES ASSUME NEW d \in Call, disk'[key(d)] # Absent
               PROVE  OwnBlocks(disk'[key(d)], d)
    <3>1. ASSUME NEW d \in Call
          PROVE  OwnBlocks(disk[key(d)], d)' <=> OwnBlocks(disk'[key(d)], d)
      BY <1>9, <1>14, SameWant DEF OwnBlocks
    <3>2. QED BY <1>14, <3>1 DEF DiskInv
  <2>1. CASE key(d) = k
    <3>1. SameKey(c, d)
      BY <1>2, <2>1 DEF SameKey, key
    <3>2. Own(b, d)
      BY <1>5, <3>1, SameOwn
    <3>3. OwnBlocks(file, d)
      BY <1>3, <1>6, <2>1 DEF CacheInv, DiskInv
    <3>4. OwnBlocks(new, d)
      <4>1. \A i \in 1..Len(new) : new[i] \in {b, Zero} \/ (i \in 1..Len(file) /\ new[i] = file[i])
        BY <1>8
      <4>2. QED BY <3>2, <3>3, <4>1 DEF OwnBlocks
    <3>5. QED BY <1>9, <2>1, <3>4
  <2>2. CASE key(d) # k
    <3>1. disk'[key(d)] = disk[key(d)]
      BY <1>9, <1>14, <2>2
    <3>2. QED BY <3>1 DEF CacheInv, DiskInv
  <2>3. QED BY <2>1, <2>2
<1>16. LatestInv'
  <2> SUFFICES ASSUME NEW j \in Keys, disk'[j] # Absent PROVE \E d \in Call : Latest(d, j)'
    BY <1>9 DEF LatestInv, Keys, Builders
  <2>1. \A d \in Call : Wrote(d)' <=> Wrote(d)
    BY <1>9 DEF Wrote
  <2>2. \A block : From(block, j) => From(block, j)'
    BY <1>9, <1>14, <2>1 DEF From
  <2>3. disk[j] # Absent
    BY <1>3, <1>9
  <2>4. PICK d \in Call : Latest(d, j)
    BY <2>3 DEF CacheInv, LatestInv
  <2>5. CASE j # k
    <3>1. disk'[j] = disk[j] /\ d # c
      BY <1>2, <1>9, <2>4, <2>5 DEF Latest
    <3>2. Latest(d, j)'
      BY <1>12, <1>14, <2>1, <2>2, <2>4, <3>1 DEF Latest, Alone
    <3>3. QED BY <3>2
  <2>6. CASE j = k
    <3>1. From(b, j)'
      BY <1>2, <1>3, <1>5, <1>9, <1>14, <2>1, <2>6 DEF From
    <3>2. \A i \in 1..Len(file) : From(file[i], j) => From(new[i], j)'
      BY <1>8, <2>2, <3>1
    <3>3. \A i \in 1..pos[d] : i <= Len(file) /\ From(file[i], j)
      BY <1>6, <2>4, <2>6 DEF Latest
    <3>4. pos[d] \in Nat /\ Len(file) \in Nat /\ Len(new) \in Nat
      <4>1. pos[d] \in 0..2
        BY DEF CacheInv, TypeOK
      <4>2. file \in Seq(Blocks) /\ new \in Seq(Blocks)
        BY DEF Files
      <4>3. QED BY <4>1, <4>2
    <3>5. \A i \in 1..pos[d] : i <= Len(new) /\ From(new[i], j)'
      BY <1>8, <3>2, <3>3, <3>4
    <3>6. CASE d # c
      <4>1. key(d)' = j /\ Wrote(d)' /\ pos'[d] = pos[d] /\ pc'[d] = pc[d]
        BY <1>12, <1>14, <2>1, <2>4, <3>6 DEF Latest, Alone
      <4>2. Latest(d, j)'
        BY <1>9, <2>4, <2>6, <3>5, <4>1 DEF Latest
      <4>3. QED BY <4>2
    <3>7. CASE d = c
      <4>1. key(c)' = j /\ Wrote(c)' /\ (pc'[c] = "write" \/ pos'[c] = 2)
        BY <1>2, <1>3, <1>9, <1>14, <2>1, <2>6
      <4>2. \A i \in 1..at : i \in 1..pos[d] \/ i = at
        BY <1>4, <3>4, <3>7
      <4>3. \A i \in 1..at : i <= Len(new) /\ From(new[i], j)'
        BY <1>8, <3>1, <3>5, <4>2
      <4>4. Latest(c, j)'
        BY <1>9, <2>6, <4>1, <4>3 DEF Latest
      <4>5. QED BY <4>4
    <3>8. QED BY <3>6, <3>7
  <2>7. QED BY <2>5, <2>6
<1>17. QED BY <1>9, <1>10, <1>11, <1>12, <1>13, <1>15, <1>16, FileStep

-----------------------------------------------------------------------------
(* Errors, kills and upgrades.                                             *)

LEMMA FailKeeps ==
  ASSUME CacheInv, NEW c \in Call, Fail(c)
  PROVE  CacheInv'
<1>1. TypeOK' /\ Alone(c)
  BY DEF CacheInv, TypeOK, Fail, Alone
<1>2. /\ pc'[c] = IF pc[c] = "write" THEN "cut" ELSE "failed"
      /\ pc[c] \in {"detect", "probe", "read", "compile", "create", "write"}
      /\ UNCHANGED <<want, mtime, info, hit, content, pos, probes, disk, golang, since, kept>>
  BY DEF CacheInv, TypeOK, Fail
<1>3. CallInv(c)
  BY DEF CacheInv
<1>4. CallInv(c)'
  BY <1>2, <1>3, SameWant DEF CallInv, Staged, Carried, Probed, Wrote
<1>5. Steady(c)
  BY <1>2 DEF Steady, Wrote
<1>6. QED BY <1>1, <1>2, <1>4, <1>5, SameProbes, CallStep

LEMMA CrashKeeps ==
  ASSUME CacheInv, NEW p \in Process, Crash(p)
  PROVE  CacheInv'
<1>1. UNCHANGED <<want, mtime, info, hit, content, pos, disk, golang, since, kept>>
  BY DEF Crash
<1>2. ASSUME NEW c \in Call
      PROVE  \/ pc'[c] = pc[c]
             \/ pc[c] = "write" /\ pc'[c] = "cut"
             \/ pc[c] \notin {"write", "cut"} /\ pc'[c] = "failed"
  <2>1. CASE ProcessOf[c] # p \/ pc[c] \in {"detect", "done", "failed", "cut"}
    BY <2>1 DEF Crash
  <2>2. CASE ProcessOf[c] = p /\ pc[c] = "write"
    BY <2>2 DEF Crash
  <2>3. CASE /\ ~(ProcessOf[c] # p \/ pc[c] \in {"detect", "done", "failed", "cut"})
             /\ ~(ProcessOf[c] = p /\ pc[c] = "write")
    BY <2>3 DEF Crash
  <2>4. QED BY <2>1, <2>2, <2>3
<1>3. TypeOK'
  <2>1. pc' \in [Call -> {"detect", "lookup", "probe", "insert", "exists", "read", "compile",
                          "create", "write", "run", "done", "failed", "cut"}]
    <3>1. \A c \in Call :
            pc'[c] \in {"detect", "lookup", "probe", "insert", "exists", "read", "compile",
                        "create", "write", "run", "done", "failed", "cut"}
      BY <1>2 DEF CacheInv, TypeOK
    <3>2. DOMAIN pc' = Call /\ pc' = [c \in DOMAIN pc' |-> pc'[c]]
      BY DEF Crash
    <3>3. QED BY <3>1, <3>2
  <2>2. probes' \in [Process -> [Version -> Info \cup {NoInfo}]]
    BY DEF Crash, CacheInv, TypeOK
  <2>3. QED BY <1>1, <2>1, <2>2 DEF CacheInv, TypeOK
<1>4. ASSUME NEW c \in Call PROVE CallInv(c)' /\ Steady(c)
  <2>1. CallInv(c)
    BY DEF CacheInv
  <2>2. CallInv(c)'
    BY <1>1, <1>2, <2>1, SameWant DEF CallInv, Staged, Carried, Probed, Wrote
  <2>3. Steady(c)
    BY <1>1, <1>2 DEF Steady, Wrote
  <2>4. QED BY <2>2, <2>3
<1>5. DiskInv' /\ LatestInv'
  BY <1>1, <1>4, SteadyFiles
<1>6. ProbesInv'
  <2>1. \A q \in Process, m \in Version : probes'[q][m] \in {probes[q][m], NoInfo}
    BY DEF Crash, CacheInv, TypeOK
  <2>2. QED BY <1>1, <2>1 DEF CacheInv, ProbesInv
<1>7. GolangInv'
  BY <1>1 DEF CacheInv, GolangInv
<1>8. QED BY <1>3, <1>4, <1>5, <1>6, <1>7 DEF CacheInv

LEMMA UpgradeKeeps ==
  ASSUME CacheInv, Upgrade
  PROVE  CacheInv'
<1>1. PICK v \in Nat : v = golang.version /\ v < MaxVersion
  BY GoCacheAssumption DEF CacheInv, TypeOK, Version, Upgrade
<1>2. PICK m \in {golang.mtime, v + 1} :
        /\ golang' = [version |-> v + 1, mtime |-> m]
        /\ kept' = (kept \/ m = golang.mtime)
  BY <1>1 DEF Upgrade
<1>3. UNCHANGED <<want, pc, mtime, info, hit, content, pos, probes, disk, since>>
  BY DEF Upgrade, callVars
<1>4. m \in Version /\ v + 1 \in Version
  BY <1>1, <1>2, GoCacheAssumption DEF CacheInv, TypeOK, Version
<1>5. golang'.version = v + 1 /\ golang'.mtime = m
  BY <1>2
<1>6. TypeOK'
  <2>1. golang' \in [version : Version, mtime : Version]
    BY <1>2, <1>4
  <2>2. kept' \in BOOLEAN
    BY <1>2
  <2>3. QED BY <1>3, <2>1, <2>2 DEF CacheInv, TypeOK
<1>7. \A i \in Info \cup {NoInfo} : i # NoInfo => (i.version <= v => i.version <= v + 1)
  BY <1>1, InfoKnown, GoCacheAssumption DEF Version
<1>8. ASSUME NEW c \in Call PROVE CallInv(c)'
  <2>1. CallInv(c) /\ info[c] \in Info \cup {NoInfo}
    BY DEF CacheInv, TypeOK
  <2>2. Staged(c)' /\ Carried(c)'
    BY <1>3, <2>1, SameWant DEF CallInv, Staged, Carried, Wrote
  <2>3. since[c] \in Nat
    BY GoCacheAssumption DEF CacheInv, TypeOK, Version
  <2>4. Probed(c)'
    <3>1. Probed(c)
      BY <2>1 DEF CallInv
    <3>2. since[c] <= v + 1
      BY <1>1, <2>3, <3>1 DEF Probed
    <3>3. kept => kept'
      BY <1>2
    <3>4. info[c] # NoInfo => info[c].version <= v + 1
      BY <1>1, <1>7, <2>1, <3>1 DEF Probed
    <3>5. Mixed(c)' <=> Mixed(c)
      BY <1>3, SameWant
    <3>6. QED BY <1>3, <1>5, <3>1, <3>2, <3>3, <3>4, <3>5 DEF Probed
  <2>5. QED BY <2>2, <2>4 DEF CallInv
<1>9. ProbesInv'
  <2>1. \A p \in Process, n \in Version : probes[p][n] \in Info \cup {NoInfo}
    BY DEF CacheInv, TypeOK
  <2>2. QED BY <1>1, <1>2, <1>3, <1>5, <1>7, <2>1 DEF CacheInv, ProbesInv
<1>10. GolangInv'
  BY <1>2, <1>5 DEF GolangInv
<1>11. DiskInv' /\ LatestInv'
  <2>1. \A c \in Call : Steady(c)
    BY <1>3 DEF Steady, Wrote
  <2>2. QED BY <1>3, <2>1, SteadyFiles
<1>12. QED BY <1>6, <1>8, <1>9, <1>10, <1>11 DEF CacheInv

LEMMA StutterKeeps ==
  ASSUME CacheInv, UNCHANGED vars
  PROVE  CacheInv'
<1>1. UNCHANGED <<want, pc, mtime, info, hit, content, pos, probes, disk, golang, since, kept>>
  BY DEF vars, callVars
<1>2. TypeOK' /\ ProbesInv' /\ GolangInv'
  BY <1>1 DEF CacheInv, TypeOK, ProbesInv, GolangInv
<1>3. ASSUME NEW c \in Call PROVE CallInv(c)' /\ Steady(c)
  BY <1>1, SameWant DEF CacheInv, CallInv, Staged, Carried, Probed, Steady, Wrote
<1>4. QED BY <1>1, <1>2, <1>3, SteadyFiles DEF CacheInv

-----------------------------------------------------------------------------
(* The invariant.                                                          *)

LEMMA InitHolds == Init => CacheInv
<1> SUFFICES ASSUME Init PROVE CacheInv
  OBVIOUS
<1>1. <<>> \in Files
  <2>1. <<>> \in Seq(Blocks) /\ Len(<<>>) <= 2
    OBVIOUS
  <2>2. QED BY <2>1 DEF Files
<1>2. 0 \in Version
  BY GoCacheAssumption DEF Version
<1>3. want \in [Call -> Builders] /\ \A c \in Call : want[c] \in Requests[c]
  BY DEF Init
<1>4. TypeOK
  <2>1. want \in [Call -> Builders] /\ mtime \in [Call -> Version] /\ since \in [Call -> Version]
    BY <1>2, <1>3 DEF Init
  <2>2. pc \in [Call -> {"detect", "lookup", "probe", "insert", "exists", "read", "compile",
                         "create", "write", "run", "done", "failed", "cut"}]
    BY DEF Init
  <2>3. info \in [Call -> Info \cup {NoInfo}] /\ hit \in [Call -> BOOLEAN]
    BY DEF Init
  <2>4. pos \in [Call -> 0..2] /\ content \in [Call -> Files]
    BY <1>1 DEF Init
  <2>5. probes \in [Process -> [Version -> Info \cup {NoInfo}]]
    BY DEF Init
  <2>6. disk \in [Keys -> {Absent} \cup Files]
    BY DEF Init
  <2>7. golang \in [version : Version, mtime : Version] /\ kept \in BOOLEAN
    BY <1>2 DEF Init
  <2>8. QED BY <2>1, <2>2, <2>3, <2>4, <2>5, <2>6, <2>7 DEF TypeOK
<1>5. ASSUME NEW c \in Call PROVE CallInv(c)
  BY DEF Init, CallInv, Staged, Carried, Probed, Wrote
<1>6. ProbesInv /\ GolangInv
  BY DEF Init, ProbesInv, GolangInv
<1>7. DiskInv /\ LatestInv
  <2>1. \A k \in Keys : disk[k] = Absent
    BY DEF Init
  <2>2. QED BY <1>4, <2>1, WantedBuilder DEF DiskInv, LatestInv
<1>8. QED BY <1>4, <1>5, <1>6, <1>7 DEF CacheInv

LEMMA NextKeeps == CacheInv /\ [Next]_vars => CacheInv'
<1> SUFFICES ASSUME CacheInv, [Next]_vars PROVE CacheInv'
  OBVIOUS
<1>1. ASSUME NEW c \in Call, exec(c) PROVE CacheInv'
  BY <1>1, DetectKeeps, LookupKeeps, ProbeKeeps, InsertKeeps, ExistsKeeps, ReadBlockKeeps,
     ReadEndKeeps, CompileKeeps, CreateKeeps, WriteBlockKeeps, FailKeeps DEF exec
<1>2. QED BY <1>1, CrashKeeps, UpgradeKeeps, StutterKeeps DEF Next, Rest

(* CacheInv holds of every behaviour of the calls of GoBuilder::exec. *)
THEOREM CacheInvariant == Spec => []CacheInv
BY InitHolds, NextKeeps, PTL DEF Spec

-----------------------------------------------------------------------------
(* What it implies.                                                        *)

(* Files and variables keep their types; in particular no file in the      *)
(* cache grows past one program, whoever writes it.                        *)
THEOREM CacheTyped == Spec => []TypeOK
<1>1. CacheInv => TypeOK
  BY DEF CacheInv
<1>2. QED BY <1>1, CacheInvariant, PTL

(* A program GoBuilder::exec runs is the one it compiled, or, taken whole  *)
(* from the disk, one compiled by a call with the same bytes to hash.      *)
THEOREM ProgramsAreOwn == Spec => []RunsOwnProgram
<1>1. CacheInv => RunsOwnProgram
  <2> SUFFICES ASSUME CacheInv, NEW c \in Call, Runs(c)
               PROVE  /\ hit[c] => ~want[c].no_cache
                      /\ ~hit[c] => content[c] = File(Binary(c, info[c].cgo))
                      /\ Intact(content[c]) => Own(content[c][1], c)
    BY DEF RunsOwnProgram
  <2>1. CallInv(c)
    BY DEF CacheInv
  <2>2. ~hit[c] => Wrote(c)
    BY <2>1 DEF Runs, CallInv, Staged, Wrote
  <2>3. (hit[c] => ~want[c].no_cache) /\ (~hit[c] => content[c] = File(Binary(c, info[c].cgo)))
    BY <2>1, <2>2 DEF CallInv, Staged, Carried
  <2>4. Intact(content[c]) => Own(content[c][1], c)
    <3>1. CASE hit[c]
      BY <2>1, <3>1 DEF CallInv, Carried, OwnBlocks, Intact
    <3>2. CASE ~hit[c]
      BY <2>1, <2>2, <3>2, CompiledOwn DEF CacheInv, CallInv
    <3>3. QED BY <3>1, <3>2
  <2>5. QED BY <2>3, <2>4
<1>2. QED BY <1>1, CacheInvariant, PTL

(* What ProbeCache::get_or_probe returns describes a go binary installed   *)
(* since the call began, and its own cgo setting, but for the named cases. *)
THEOREM ProbesAreFresh == Spec => []ProbeFresh
<1>1. CacheInv => ProbeFresh
  BY DEF CacheInv, CallInv, Probed, ProbeFresh
<1>2. QED BY <1>1, CacheInvariant, PTL

(* A torn file in the cache of compiled programs has one of two causes: a  *)
(* fs::write in progress or cut off, or two programs for one key.          *)
THEOREM TornFilesHaveCause == Spec => []TornHasCause
<1>1. CacheInv => TornHasCause
  <2> SUFFICES ASSUME CacheInv, NEW k \in Keys, disk[k] # Absent, ~Intact(disk[k])
               PROVE  \/ \E c \in Call : compute_cache_key(c) = k /\ pc[c] \in {"write", "cut"}
                      \/ \E c, d \in Call :
                           /\ compute_cache_key(c) = k /\ SameKey(c, d)
                           /\ Wrote(c) /\ Wrote(d) /\ content[c] # content[d]
    BY DEF TornHasCause
  <2>1. PICK d \in Call : Latest(d, k)
    BY DEF CacheInv, LatestInv
  <2>2. CASE pc[d] \in {"write", "cut"}
    BY <2>1, <2>2 DEF Latest, key
  <2>3. CASE pos[d] = 2
    <3>1. /\ 1 <= Len(disk[k]) /\ 2 <= Len(disk[k])
          /\ From(disk[k][1], k) /\ From(disk[k][2], k)
      BY <2>1, <2>3 DEF Latest
    <3>2. PICK u \in Call : key(u) = k /\ Wrote(u) /\ disk[k][1] = content[u][1]
      BY <3>1 DEF From
    <3>3. PICK w \in Call : key(w) = k /\ Wrote(w) /\ disk[k][2] = content[w][1]
      BY <3>1 DEF From
    <3>4. Len(disk[k]) = 2
      <4>1. disk[k] \in {Absent} \cup Files
        BY DEF CacheInv, TypeOK
      <4>2. PICK file : file = disk[k] /\ file \in {Absent} \cup Files
        BY <4>1
      <4>3. file # Absent
        BY <4>2
      <4>4. file \in Seq(Blocks) /\ Len(file) <= 2
        BY <4>2, <4>3 DEF Files
      <4>5. Len(file) \in Nat /\ 2 <= Len(file)
        BY <3>1, <4>2, <4>4
      <4>6. PICK n \in Nat : n = Len(file)
        BY <4>5
      <4>7. n = 2
        BY <4>4, <4>5, <4>6
      <4>8. QED BY <4>2, <4>6, <4>7
    <3>5. disk[k][1] # Zero
      BY <3>2, CompiledOwn, FileAssumption DEF CacheInv, CallInv
    <3>6. disk[k][1] # disk[k][2]
      BY <3>4, <3>5 DEF Intact
    <3>7. content[u] # content[w] /\ SameKey(u, w)
      BY <3>2, <3>3, <3>6 DEF SameKey, key
    <3>8. QED BY <3>2, <3>3, <3>7 DEF key
  <2>4. QED BY <2>1, <2>2, <2>3 DEF Latest
<1>2. QED BY <1>1, CacheInvariant, PTL
=============================================================================
