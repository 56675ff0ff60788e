CONSTANTS
    p1 = p1
    p2 = p2
    Procs = {p1, p2}
    Roots = {"app", "lib"}
    Contents = {"a1", "a2", "b", "c"}
    Digest <- MCDigest
    TomlOf <- MCTomlOf
    RawServes <- MCRawServes
    RepoServes <- MCRepoServes
    InitToml <- MCInitToml
    Additions <- MCAdditions
    MaxAttempts = 2
    MaxCommands = 2
    MaxClones = 1
    MaxWalk = 7
SPECIFICATION Spec
CHECK_DEADLOCK FALSE
INVARIANTS
  DiskSound
  ImportsRight
PROPERTIES
  PinsAreEnforced
  RewritesKeep
  CommandsEnd
