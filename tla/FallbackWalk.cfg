SPECIFICATION FairSpec
CONSTANTS
  r = r  a = a  b = b  d = d  x = x  y = y  z = z
  Unresolvable = Unresolvable  NoIdentity = NoIdentity
  Dirs = {r, a, b, d}
  Root = r
  Files = {x, y, z}
  Parent <- TreeParent
  Links = {d}
  Setups <- TreeSetups
  WorkerLimit = 2
  BatchSize = 3
  Capacity = 1
  PendingLimit = 1
  PublishAt = 2
  ProgressDelta = 3
INVARIANTS TypeOK OutstandingIsExact NoLostWakeup ReportedOnce EndIsLast CompletedIsComplete
PROPERTIES ScanEnds EndIsHeard
