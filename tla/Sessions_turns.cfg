CONSTANTS
  Clients = {c1}
  Sessions = {s1, s2}
  i1 = i1
  i2 = i2
  v1 = v1
  v2 = v2
  Instances = {i1}
  Servers = {v1, v2}
  Failing = {v1}
  ServerLists <- Changing
  Parts = 2
  Commands = {"select", "query", "local"}
  MaxUnread = 0
  None = None
  Listen = Listen
SPECIFICATION FairSpec
INVARIANTS TypeOK InList HalfDuplex
PROPERTIES Answered Noticed
