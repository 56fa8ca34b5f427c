----------------------------- MODULE MCLockdown -----------------------------
(* Small instances of Lockdown for TLC.                                    *)
EXTENDS Lockdown, TLC

(* One file in each kind of place, nested mounts in /opt, a data file that *)
(* is a mount of its own, and a command of the plan in the workspace.      *)
MCAbove == [p \in {"/usr", "/sbin", "/etc", "/etc/NIXOS", "/dev", "/proc", "/nix/store",
                   "/gnu/store", "/opt", "/root", "/run", "/work", "ws/work", "ws/tmp",
                   "ws/home"} |-> {p}]
  @@ [p \in {"/usr/tool"} |-> {p, "/usr"}] @@ [p \in {"/sbin/tool"} |-> {p, "/sbin"}]
  @@ [p \in {"/run/current-system", "/run/sock"} |-> {p, "/run"}]
  @@ [p \in {"/etc/conf"} |-> {p, "/etc"}]
  @@ [p \in {"/nix/store/tool"} |-> {p, "/nix/store"}]
  @@ [p \in {"/gnu/store/tool"} |-> {p, "/gnu/store"}]
  @@ [p \in {"/opt/venv", "/opt/data"} |-> {p, "/opt"}]
  @@ [p \in {"/opt/venv/tool"} |-> {p, "/opt/venv", "/opt"}]
  @@ [p \in {"/work/main"} |-> {p, "/work"}] @@ [p \in {"ws/work/main"} |-> {p, "ws/work"}]

MCDirs == {"/usr", "/sbin", "/etc", "/dev", "/proc", "/nix/store", "/gnu/store", "/opt",
           "/opt/venv", "/root", "/run", "/run/current-system", "/work", "ws/work", "ws/tmp", "ws/home"}

Common == {"/etc", "/etc/conf", "/run", "/run/sock", "/dev", "/proc", "/opt", "/opt/venv", "/opt/venv/tool", "/opt/data", "/root"}
Fhs == Common \cup {"/usr", "/usr/tool", "/sbin", "/sbin/tool"}
Nix == {"/nix/store", "/nix/store/tool"}
Guix == {"/gnu/store", "/gnu/store/tool"}

Modern == [kernel |-> <<6, 12, 0>>, landlock |-> 6, seccomp |-> TRUE, setpcap |-> FALSE,
           bin_sh |-> "other", files |-> Fhs]

(* Every kind of host, each feature missing in turn, and the kernels that  *)
(* brought a new Landlock ABI.                                             *)
Kernels == {<<<<5, 13, 0>>, 1>>, <<<<5, 19, 0>>, 2>>, <<<<6, 2, 0>>, 3>>, <<<<6, 7, 0>>, 4>>,
            <<<<6, 10, 0>>, 5>>, <<<<6, 12, 0>>, 6>>, <<<<7, 0, 0>>, 7>>, <<<<>>, 6>>,
            <<<<6, 12, 0>>, 0>>}
MCHosts ==
  {Modern, [Modern EXCEPT !.setpcap = TRUE], [Modern EXCEPT !.seccomp = FALSE],
   [Modern EXCEPT !.files = @ \cup Nix],
   [Modern EXCEPT !.files = Common \cup Nix, !.bin_sh = "absent"],
   [Modern EXCEPT !.files = Common \cup Nix \cup {"/etc/NIXOS", "/run/current-system"},
                  !.bin_sh = "nix"],
   [Modern EXCEPT !.files = Common \cup Guix, !.bin_sh = "gnu"]}
  \cup {[Modern EXCEPT !.kernel = k[1], !.landlock = k[2]] : k \in Kernels}

Ro(p) == [source |-> p, writable |-> FALSE, executable |-> TRUE]
RoNoexec(p) == [Ro(p) EXCEPT !.executable = FALSE]
Rw(p) == [Ro(p) EXCEPT !.writable = TRUE]

MCMounts ==
  {<<>>, <<Ro("/opt/data")>>, <<Rw("/opt")>>, <<Ro("/opt")>>, <<RoNoexec("/usr"), Ro("/opt/venv")>>,
   <<RoNoexec("/opt"), Ro("/opt/venv")>>, <<Rw("/opt"), RoNoexec("/opt/venv")>>}

Commands == {"/usr/tool", "/sbin/tool", "/nix/store/tool", "/gnu/store/tool", "/opt/venv/tool",
             "/root", "/work/main", "ws/work/main"}

MCPlans ==
  {[command |-> c, given |-> g, mounts |-> ms, network_blocked |-> b, user_files |-> {"ws/work/main"}] :
     c \in Commands, g \in BOOLEAN, ms \in MCMounts, b \in BOOLEAN}
=============================================================================
