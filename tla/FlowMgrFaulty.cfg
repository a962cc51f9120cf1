CONSTANTS
  Clients = {c1, c2}
  Switches = {s1, s2}
  MaxFd = 5
  Cmds <- Lasting
  Faults <- FaultKinds
  Null = null
SPECIFICATION Spec
SYMMETRY Alike
INVARIANTS OnlyLatestAwaited ReplyGoesOnce ExecutedAgainAtEnd
CHECK_DEADLOCK FALSE
