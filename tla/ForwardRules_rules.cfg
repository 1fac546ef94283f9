SPECIFICATION FairSpec
CONSTANTS
  g1 = g1  g2 = g2  g3 = g3
  l1 = l1  l2 = l2  l3 = l3
  None = None
  Libraries = {l1, l2}
  Instances = {g1, g2, g3}
  Classes = {c1}
  Objects = {o1, o2}
  Confs <- SmallConfs
  HashOf <- FewHashes
  Faults = {}
  MaxKills = 2
  MaxPower = 32
  IntHalf = 64
  LongMod = 1024
INVARIANTS MemoryIsOnDisk RoutedIsSaved FilesLoad
PROPERTIES ObjectsStick ComesUpAgain
