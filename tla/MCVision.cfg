CONSTANTS
  i1 = i1  i2 = i2  i3 = i3  i4 = i4
  ma = ma  mb = mb  mc = mc  md = md
  None = None
  Names <- FourNames
  registry <- SomeRegistry
  Inferences <- FourInferences
  Images <- SomeImages
  Configs <- SomeConfigs
  Candidates <- SomeCandidates
  MaxRuns = 4
  Durations = {0, 1, 3}
SPECIFICATION Spec
INVARIANTS
  NmsKeepsTheBest
  BoxesComeBack
  OneSessionPerModel
  StatisticsDivide
