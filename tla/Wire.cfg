CONSTANTS
  Names = {n1, n2, n3}
  Types = {"wire", "missing"}
  Ports = {1, 2, 3}
  FP_DATAPLANE_MAX = 2
  MaxSize = 3
  Null = null
SYMMETRY Symmetry
SPECIFICATION Spec
INVARIANTS TypeOK EndsInTable
PROPERTY ImplementsService
CHECK_DEADLOCK FALSE
