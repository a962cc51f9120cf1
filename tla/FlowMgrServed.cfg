CONSTANTS
  Clients = {c1, c2}
  Switches = {s1, s2}
  MaxFd = 5
  Cmds <- OneOfEach
  Faults <- Peaceful
  Null = null
SPECIFICATION FairSpec
INVARIANTS NotCrashed OwnReply StillListening
PROPERTIES ImplementsService FlowctlEnds ControlChannelFreed
CHECK_DEADLOCK FALSE
