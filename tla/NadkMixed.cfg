CONSTANTS
  Devices = {d1, d2}
  Udp = {d2}
  Budget = 2
  MaxFrames = 3
  Tests = {"xreflect"}
  Driver = {"refuse", "no_mbuf"}
  Null = null
SPECIFICATION FairSpec
INVARIANTS SentOnce
