------------------------------ MODULE GoCache -------------------------------
(***************************************************************************)
(* GoBuilder::exec (evalbox/src/go/builder.rs) as far as it shares state   *)
(* with other calls: the ProbeCache of its process, keyed by the go        *)
(* binary's path and mtime (probe_cache.rs), and the directory of compiled *)
(* programs on disk.  Calls run on threads of several processes; the go    *)
(* binary may be upgraded and a process may be killed at any moment.       *)
(*                                                                         *)
(* The code of a call, after wrapping, and its go.mod are strings of       *)
(* bytes; the 64-bit hash of a string is taken to be injective, what is    *)
(* hashed is modelled byte by byte.  A compiled program is a file of two   *)
(* blocks.  What Executor::run makes of a plan is its outcome only.        *)
(***************************************************************************)
EXTENDS Integers, Sequences

CONSTANTS
  Call,         \* concurrent calls of exec
  Process,      \* processes that use the library
  ProcessOf,    \* the process of each call
  Requests,     \* the builders each call may start from:
                \* [code, go_mod, files, cgo, no_cache]
  None,         \* no go.mod
  MaxVersion,   \* bound on the upgrades of the go binary
  Absent,       \* no file
  Zero,         \* a hole in a file
  Faults        \* TRUE iff calls may return errors and processes be killed

ASSUME GoCacheAssumption ==
  /\ ProcessOf \in [Call -> Process]
  /\ DOMAIN Requests = Call
  /\ \A c \in Call : \A r \in Requests[c] : r.cgo \in BOOLEAN /\ r.no_cache \in BOOLEAN
  /\ \A c \in Call : \A r \in Requests[c] :
       r.code \in Seq(0..255) /\ (r.go_mod = None \/ r.go_mod \in Seq(0..255))
  /\ MaxVersion \in Nat /\ Faults \in BOOLEAN

Builders == UNION {Requests[c] : c \in Call}

Version == 0..MaxVersion
Info    == [cgo : BOOLEAN, version : Version]
NoInfo  == [version |-> -1]

VARIABLES
  want,     \* the builder of each call
  pc,       \* where each call stands
  mtime,    \* the mtime of the go binary, as the call read it
  info,     \* runtime_info
  hit,      \* TRUE iff the call took the program from the disk
  content,  \* binary_content: blocks
  pos,      \* blocks read from, or written to, the file so far
  probes,   \* PROBE_CACHE of each process: mtime -> RuntimeInfo
  disk,     \* the cached files by key; Absent, or a sequence of blocks
  golang,   \* the go binary: its version and its mtime
  since,    \* history: the version installed when the call began
  kept      \* history: TRUE iff an upgrade left the mtime as it was

callVars == <<pc, mtime, info, hit, content, pos>>
vars     == <<want, callVars, probes, disk, golang, since, kept>>

(* The bytes the key is the hash of: the code, the go.mod if there is one, *)
(* and a byte 1 for cgo, with nothing between them.  The files, the        *)
(* environment, the toolchain and what the probe found are no part of it.  *)
Hashed(r) == r.code \o (IF r.go_mod = None THEN <<>> ELSE r.go_mod)
                    \o (IF r.cgo THEN <<1>> ELSE <<>>)

\* Mutant: the key leaves out cgo_enabled.
compute_cache_key_no_cgo(c) == Hashed([want[c] EXCEPT !.cgo = FALSE])
compute_cache_key(c) == Hashed(want[c])

Keys == {Hashed(r) : r \in Builders}

(* What the compiler makes of a request under the environment of a plan:   *)
(* cgo is CGO_ENABLED as the compiler sees it, asked the setting that      *)
(* chose the linker flags and the cache key.                               *)
Binary(c, cgo) ==
  [code |-> want[c].code, go_mod |-> want[c].go_mod, files |-> want[c].files,
   cgo |-> cgo, asked |-> want[c].cgo]

File(binary)   == <<binary, binary>>
Intact(blocks) == Len(blocks) = 2 /\ blocks[1] = blocks[2] /\ blocks[1] # Zero

Init ==
  /\ want \in {w \in [Call -> Builders] : \A c \in Call : w[c] \in Requests[c]}
  /\ pc = [c \in Call |-> "detect"]
  /\ mtime = [c \in Call |-> 0]
  /\ info = [c \in Call |-> NoInfo]
  /\ hit = [c \in Call |-> FALSE]
  /\ content = [c \in Call |-> <<>>]
  /\ pos = [c \in Call |-> 0]
  /\ probes = [p \in Process |-> [m \in Version |-> NoInfo]]
  /\ disk = [k \in Keys |-> Absent]
  /\ golang = [version |-> 0, mtime |-> 0]
  /\ since = [c \in Call |-> 0]
  /\ kept = FALSE

At(c, here, there) == pc[c] = here /\ pc' = [pc EXCEPT ![c] = there]

-----------------------------------------------------------------------------
(* probe.detect() and ProbeCache::get_or_probe.                            *)

\* Mutant: the key is the path alone.
probe_key_path(m) == 0
probe_key(m) == m

(* The binary is found, and its mtime read.                                *)
Detect(c) ==
  /\ At(c, "detect", "lookup")
  /\ mtime' = [mtime EXCEPT ![c] = probe_key(golang.mtime)]
  /\ since' = [since EXCEPT ![c] = golang.version]
  /\ UNCHANGED <<want, info, hit, content, pos, probes, disk, golang, kept>>

LookupHit(c) ==
  LET found == probes[ProcessOf[c]][mtime[c]]
  IN /\ At(c, "lookup", "exists") /\ found # NoInfo
     /\ info' = [info EXCEPT ![c] = found]
     /\ UNCHANGED <<want, mtime, hit, content, pos, probes, disk, golang, since, kept>>

LookupMiss(c) ==
  /\ At(c, "lookup", "probe") /\ probes[ProcessOf[c]][mtime[c]] = NoInfo
  /\ UNCHANGED <<want, mtime, info, hit, content, pos, probes, disk, golang, since, kept>>

(* GoProbe::probe runs `go env` of whatever is installed now, and adds the *)
(* cgo setting of its own call.                                            *)
Probe(c) ==
  /\ At(c, "probe", "insert")
  /\ info' = [info EXCEPT ![c] = [cgo |-> want[c].cgo, version |-> golang.version]]
  /\ UNCHANGED <<want, mtime, hit, content, pos, probes, disk, golang, since, kept>>

Insert(c) ==
  /\ At(c, "insert", "exists")
  /\ probes' = [probes EXCEPT ![ProcessOf[c]][mtime[c]] = info[c]]
  /\ UNCHANGED <<want, mtime, info, hit, content, pos, disk, golang, since, kept>>

-----------------------------------------------------------------------------
(* The program: read from the disk, or compiled and written there.         *)

ExistsYes(c) ==
  /\ At(c, "exists", "read")
  /\ ~want[c].no_cache /\ disk[compute_cache_key(c)] # Absent
  /\ hit' = [hit EXCEPT ![c] = TRUE]
  /\ UNCHANGED <<want, mtime, info, content, pos, probes, disk, golang, since, kept>>

ExistsNo(c) ==
  /\ At(c, "exists", "compile")
  /\ want[c].no_cache \/ disk[compute_cache_key(c)] = Absent
  /\ UNCHANGED <<want, mtime, info, hit, content, pos, probes, disk, golang, since, kept>>

(* fs::read, up to the end the file has at that moment.                    *)
ReadBlock(c) ==
  LET file == disk[compute_cache_key(c)]
  IN /\ At(c, "read", "read") /\ pos[c] < Len(file)
     /\ content' = [content EXCEPT ![c] = Append(@, file[pos[c] + 1])]
     /\ pos' = [pos EXCEPT ![c] = @ + 1]
     /\ UNCHANGED <<want, mtime, info, hit, probes, disk, golang, since, kept>>

ReadEnd(c) ==
  /\ At(c, "read", "run") /\ pos[c] >= Len(disk[compute_cache_key(c)])
  /\ UNCHANGED <<want, mtime, info, hit, content, pos, probes, disk, golang, since, kept>>

(* compile_in_sandbox succeeds.  The plan's CGO_ENABLED is set first and   *)
(* then overwritten by the one in runtime_info.env.                        *)
Compile(c) ==
  /\ At(c, "compile", "create")
  /\ content' = [content EXCEPT ![c] = File(Binary(c, info[c].cgo))]
  /\ UNCHANGED <<want, mtime, info, hit, pos, probes, disk, golang, since, kept>>

(* create_dir_all, and the first half of fs::write: the file is opened and *)
(* truncated.                                                              *)
Create(c) ==
  /\ At(c, "create", "write")
  /\ disk' = [disk EXCEPT ![compute_cache_key(c)] = <<>>]
  /\ UNCHANGED <<want, mtime, info, hit, content, pos, probes, golang, since, kept>>

\* Mutant: the file is opened for appending.
Put_append(file, at, block) == Append(file, block)
(* A block lands at the writer's own offset: past the end of a file that   *)
(* another writer truncated in the meantime it leaves a hole.              *)
Put(file, at, block) ==
  [i \in 1..(IF Len(file) < at THEN at ELSE Len(file)) |->
     IF i = at THEN block ELSE IF i <= Len(file) THEN file[i] ELSE Zero]

\* Mutant: write() instead of write_all().
WriteNext_short(c) == At(c, "write", "run")
WriteNext(c) == At(c, "write", IF pos[c] + 1 = Len(content[c]) THEN "run" ELSE "write")

WriteBlock(c) ==
  LET at == pos[c] + 1
  IN /\ WriteNext(c)
     /\ disk' = [disk EXCEPT ![compute_cache_key(c)] = Put(@, at, content[c][at])]
     /\ pos' = [pos EXCEPT ![c] = at]
     /\ UNCHANGED <<want, mtime, info, hit, content, probes, golang, since, kept>>

(* Executor::run of the plan with binary_content, whatever comes of it.    *)
Run(c) ==
  /\ At(c, "run", "done")
  /\ UNCHANGED <<want, mtime, info, hit, content, pos, probes, disk, golang, since, kept>>

-----------------------------------------------------------------------------
(* Failures.                                                               *)

(* go is not found, the probe or the compiler fails, a call on a file      *)
(* fails: exec returns the error and leaves everything as it is.           *)
Fail(c) ==
  /\ Faults
  /\ pc[c] \in {"detect", "probe", "read", "compile", "create", "write"}
  /\ pc' = [pc EXCEPT ![c] = IF pc[c] = "write" THEN "cut" ELSE "failed"]
  /\ UNCHANGED <<want, mtime, info, hit, content, pos, probes, disk, golang, since, kept>>

(* A process is killed: its calls stop and its probe cache is gone.        *)
Crash(p) ==
  /\ Faults
  /\ pc' = [c \in Call |->
       CASE ProcessOf[c] # p \/ pc[c] \in {"detect", "done", "failed", "cut"} -> pc[c]
         [] ProcessOf[c] = p /\ pc[c] = "write" -> "cut"
         [] OTHER -> "failed"]
  /\ pc' # pc
  /\ probes' = [probes EXCEPT ![p] = [m \in Version |-> NoInfo]]
  /\ UNCHANGED <<want, mtime, info, hit, content, pos, disk, golang, since, kept>>

(* Another go binary takes the place of the old one; package managers may  *)
(* set its mtime to a fixed value.                                         *)
Upgrade ==
  /\ golang.version < MaxVersion
  /\ \E m \in {golang.mtime, golang.version + 1} :
       /\ golang' = [version |-> golang.version + 1, mtime |-> m]
       /\ kept' = (kept \/ m = golang.mtime)
  /\ UNCHANGED <<want, callVars, probes, disk, since>>

(* Every call has returned.                                                *)
Rest ==
  /\ \A c \in Call : pc[c] \in {"done", "failed", "cut"}
  /\ UNCHANGED vars

exec(c) ==
  \/ Detect(c) \/ LookupHit(c) \/ LookupMiss(c) \/ Probe(c) \/ Insert(c)
  \/ ExistsYes(c) \/ ExistsNo(c) \/ ReadBlock(c) \/ ReadEnd(c)
  \/ Compile(c) \/ Create(c) \/ WriteBlock(c) \/ Run(c) \/ Fail(c)

Next == (\E c \in Call : exec(c)) \/ (\E p \in Process : Crash(p)) \/ Upgrade \/ Rest

Spec == Init /\ [][Next]_vars

-----------------------------------------------------------------------------
(* Properties.                                                             *)

Binaries == [code : {r.code : r \in Builders}, go_mod : {r.go_mod : r \in Builders}, files : {r.files : r \in Builders},
             cgo : BOOLEAN, asked : BOOLEAN]
Blocks   == Binaries \cup {Zero}
Files    == {file \in Seq(Blocks) : Len(file) <= 2}

(* A hole is told from a program, and no file from any file.               *)
ASSUME FileAssumption == Zero \notin Binaries /\ Absent \notin Files

(* Types: a file in the cache, and what a call read of it, never grow past *)
(* the size of one program, however many writers fs::write interleaves.    *)
TypeOK ==
  /\ want \in [Call -> Builders]
  /\ pc \in [Call -> {"detect", "lookup", "probe", "insert", "exists", "read", "compile",
                      "create", "write", "run", "done", "failed", "cut"}]
  /\ mtime \in [Call -> Version] /\ since \in [Call -> Version]
  /\ info \in [Call -> Info \cup {NoInfo}]
  /\ hit \in [Call -> BOOLEAN] /\ pos \in [Call -> 0..2]
  /\ content \in [Call -> Files]
  /\ probes \in [Process -> [Version -> Info \cup {NoInfo}]]
  /\ disk \in [Keys -> {Absent} \cup Files]
  /\ golang \in [version : Version, mtime : Version] /\ kept \in BOOLEAN

Runs(c)   == pc[c] \in {"run", "done"}
Wrote(c)  == ~hit[c] /\ content[c] # <<>>
SameKey(c, d) == compute_cache_key(c) = compute_cache_key(d)

(* Two calls of one process asked for both cgo settings.                   *)
Mixed(c) == \E d \in Call : ProcessOf[d] = ProcessOf[c] /\ want[d].cgo # want[c].cgo

(* Two calls whose code, go.mod and cgo setting are the same string of     *)
(* bytes once written one after the other.  They share a key, whatever the *)
(* hash, and so a program: exec ("Execute the Go code", builder.rs:181)    *)
(* may run the other's code.                                               *)
Alike(c, d) == Hashed(want[c]) = Hashed(want[d])

(* The block is of a program that a call alike compiled: its code, go.mod  *)
(* and files, and its cgo setting unless its process asked for both.       *)
Own(block, c) ==
  \E d \in Call : \E cgo \in BOOLEAN :
    Alike(c, d) /\ block = Binary(d, cgo) /\ (cgo = want[d].cgo \/ Mixed(d))

(* GoBuilder::exec runs the program it was given, as far as the cache key  *)
(* tells programs apart: what it compiled itself is its own and under      *)
(* no_cache nothing else is run; what it takes whole from the disk was     *)
(* compiled by a call whose key is the hash of the same bytes.             *)
RunsOwnProgram ==
  \A c \in Call : Runs(c) =>
    /\ hit[c] => ~want[c].no_cache
    /\ ~hit[c] => content[c] = File(Binary(c, info[c].cgo))
    /\ Intact(content[c]) => Own(content[c][1], c)

(* A file in the cache is one whole program, unless a call is in the       *)
(* middle of fs::write or was stopped there, or two calls with the same    *)
(* key compiled different programs (other files, another cgo setting, or   *)
(* the same bytes divided in another way).                                 *)
TornHasCause ==
  \A k \in Keys : disk[k] # Absent /\ ~Intact(disk[k]) =>
    \/ \E c \in Call : compute_cache_key(c) = k /\ pc[c] \in {"write", "cut"}
    \/ \E c, d \in Call :
         /\ compute_cache_key(c) = k /\ SameKey(c, d)
         /\ Wrote(c) /\ Wrote(d) /\ content[c] # content[d]

(* What ProbeCache hands a call describes a go binary that was installed   *)
(* at some time since the call began, unless an upgrade kept the mtime;    *)
(* and it has the cgo setting the call asked for, unless another call of   *)
(* the process asked for the other one.                                    *)
ProbeFresh ==
  \A c \in Call : info[c] # NoInfo =>
    /\ info[c].version <= golang.version
    /\ kept \/ since[c] <= info[c].version
    /\ info[c].cgo = want[c].cgo \/ Mixed(c)
=============================================================================
