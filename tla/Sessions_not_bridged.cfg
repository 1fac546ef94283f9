CONSTANTS
  Clients = {c1, c2}
  Sessions = {s1, s2}
  i1 = i1
  i2 = i2
  v1 = v1
  v2 = v2
  Instances = {i1}
  Servers = {v1}
  Failing = {}
  ServerLists <- OneServer
  Parts = 1
  Commands = {"select", "query"}
  MaxUnread = 0
  None = None
  Listen = Listen
SPECIFICATION Spec
INVARIANTS Bridged
