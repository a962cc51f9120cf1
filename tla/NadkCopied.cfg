CONSTANTS
  Devices = {d1, d2}
  Udp = {d2}
  Budget = 2
  MaxFrames = 2
  Tests = {"xreflect"}
  Driver = {}
  Null = null
SPECIFICATION FairSpec
INVARIANTS QueuedDataLive
