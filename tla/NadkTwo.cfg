CONSTANTS
  Devices = {d1, d2}
  Udp = {}
  Budget = 2
  MaxFrames = 4
  Tests = {"reflect", "xreflect", "loopback", "xloopback"}
  Driver = {}
  Null = null
SPECIFICATION FairSpec
INVARIANTS TypeOK ForwardedInOrder SentOrFreed
PROPERTIES AllButLastBatchSent
