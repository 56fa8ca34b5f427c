\* Hosts that pass the check, no call failing for reasons of its own.
CONSTANTS
  Above <- MCAbove
  Dirs <- MCDirs
  Hosts <- MCHosts
  Plans <- MCPlans
  Removable = {}
  Faults = {}
SPECIFICATION Spec
INVARIANT CheckedHostIsEnough
