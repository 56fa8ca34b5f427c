\* Every kind of host and plan, with every call failing in turn and files vanishing.
CONSTANTS
  Above <- MCAbove
  Dirs <- MCDirs
  Hosts <- MCHosts
  Plans <- MCPlans
  Removable = {"/opt/venv"}
  Faults = {"workspace", "nnp", "restrict", "rlimit"}
SPECIFICATION Spec
INVARIANTS
  NeverUnconfined
  ResolvedRuns
