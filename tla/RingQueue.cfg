CONSTANTS
  Num = 4
  Items = {a, b}
  Junk = junk
  MaxBatch = 4
SPECIFICATION Spec
INVARIANTS TypeOK StoredItemsOnly
PROPERTY ImplementsFifo
