SPECIFICATION FairSpec
CONSTANTS
  s1 = s1 i1 = i1 i2 = i2 o1 = o1
  Subs <- OneSub
  Files <- TwoInputs
  OwnerOf <- Owned
  KindOf <- Kinds
  Facility <- Spack
  Required <- LongRun
  Manager = "pbs"
  Handlers = {h1, h2}
  Operations = {"pause", "continue", "delete"}
  ProxyFails = TRUE
  NoRow = NoRow NoJob = NoJob
  MaxStarts = 1 MaxJobs = 2 MaxOps = 1 MaxErrors = 1 MaxCrashes = 1 MaxUpsets = 2
INVARIANTS InputsFirst ReportsTrue  TextAgrees
PROPERTY EventuallyReported
CHECK_DEADLOCK FALSE
