\* Two partitions that are found and one that is not, one replica: failing attempts, stalled and duplicate jobs.
SPECIFICATION FairSpec
CONSTANTS
  jan = jan  feb = feb  mar = mar  j1 = j1  j2 = j2
  Partitions = {jan, feb, mar}
  Monthly = {jan, feb}
  NoPartition = NoPartition
  Jobs = {j1, j2}
  NoOne = NoOne
  Replicas = 1
  Attempts = 2
  Prompt = FALSE
  MaxFails = 2
  MaxCrashes = 1
PROPERTIES DropOnlyArchived DetachedArchived
