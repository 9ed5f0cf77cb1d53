CONSTANTS
  NoPlan = NoPlan
  Plans = {p1}
  Schedulers = {s1}
  Publishers = {}
  Workers = {w1, w2}
  MaxSends = 2
  MaxRetries = 1
  MaxFaults = 0
  MaxQuota = 1
SPECIFICATION Spec
INVARIANT UploadedOnce
