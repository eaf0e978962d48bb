CONSTANTS
  Focused = {"prepare", "read"}
  p1 = p1
  p2 = p2
  c1 = c1
  c2 = c2
  r1 = r1
  b1 = b1
  b2 = b2
  b3 = b3
  o1 = o1
  o2 = o2
  e1 = e1
  e2 = e2
  e3 = e3
  NoOne = NoOne
  Event = {e1, e2, e3}
  Batch = {b1, b2, b3}
  eventsOf <- ThreeBatches
  Proc = {p1, p2}
  Committer = {c1, c2}
  Reader = {r1}
  procOf <- TwoProcesses
  Cancellable = {}
  Past = {o1, o2}
  origin <- PromotedLedger
  Managed = {b2}
SPECIFICATION LedgerSpec
PROPERTIES
  ImplementsLog
