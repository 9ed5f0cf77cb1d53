CONSTANTS
  NoPlan = NoPlan
  Plans = {p1}
  Schedulers = {s1}
  Publishers = {}
  Workers = {w1, w2}
  MaxSends = 2
  MaxRetries = 0
  MaxFaults = 1
  MaxQuota = 1
SPECIFICATION FairSpec
INVARIANT SuccessIsReal
PROPERTIES
  UploadEnds
  TaskSettles
