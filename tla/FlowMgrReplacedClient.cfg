CONSTANTS
  Clients = {c1, c2}
  Switches = {s1}
  MaxFd = 4
  Cmds <- OneOfEach
  Faults <- Killed
  Null = null
SPECIFICATION FairSpec
INVARIANTS OwnReply
CHECK_DEADLOCK FALSE
