CONSTANTS
  Ids = {20, 52}
  Addresses = {73}
  Values = {p, q}
  Buckets = 17
  MaxEntries = 4
  Null = null
SPECIFICATION Spec
INVARIANTS TypeOK BucketOfOneKey SizeCountsEntries
PROPERTIES ImplementsMap
