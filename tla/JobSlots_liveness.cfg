SPECIFICATION FairSpec
CONSTANTS
  Jobs = {j1, j2}
  NoJob = NoJob
  Tasks = {t1, t2}
  MaxJobs = 1
  SeenCap = 2
  MaxWedgeRestarts = 1
  CounterModulus = 4
INVARIANTS
  SlotSafety
PROPERTIES
  EveryJobRuns
