CONSTANTS
  Names = {n1, n2, n3}
  Types = {"wire", "missing", "broken"}
  Ports = {}
  FP_DATAPLANE_MAX = 2
  Null = null
SPECIFICATION MgmtSpec
 
PROPERTY FailureLeavesNoTrace
CHECK_DEADLOCK FALSE
