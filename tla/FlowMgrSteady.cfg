CONSTANTS
  Clients = {c1, c2}
  Switches = {s1, s2}
  MaxFd = 5
  Cmds <- OneOfEach
  Faults <- Steady
  Null = null
SPECIFICATION Spec
SYMMETRY Alike
INVARIANTS TypeOK TablesAgree OneLeakPerServer
CHECK_DEADLOCK FALSE
