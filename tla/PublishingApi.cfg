CONSTANTS
  NoPlan = NoPlan
  Plans = {p1}
  Schedulers = {s1}
  Publishers = {a1}
  Workers = {w1}
  MaxSends = 2
  MaxRetries = 1
  MaxFaults = 1
  MaxQuota = 2
SPECIFICATION MCSpec
INVARIANTS
  TypeOK
  GatePassed
  PublishedIsAccounted
  UploadingIsOwned
  UploadsNeedFaults
PROPERTY LifecycleSpec
