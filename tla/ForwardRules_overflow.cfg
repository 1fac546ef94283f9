SPECIFICATION Spec
CONSTANTS
  g1 = g1  g2 = g2  g3 = g3
  l1 = l1  l2 = l2  l3 = l3
  None = None
  Libraries = {l1, l2, l3}
  Instances = {g1, g2, g3}
  Classes = {c1}
  Objects = {o1}
  Confs <- SmallConfs
  HashOf <- Hashes
  Faults = {"cut"}
  MaxKills = 2
  MaxPower = 64
  IntHalf = 4
  LongMod = 16
INVARIANTS TypeOK WeightsCountOthers
PROPERTIES LibrariesStick ObjectsStick
