SPECIFICATION Spec
CONSTANTS
  Jobs = {j1, j2}
  NoJob = NoJob
  Tasks = {t1, t2, t3}
  MaxJobs = 2
  SeenCap = 2
  MaxWedgeRestarts = 1
  CounterModulus = 8
SYMMETRY Symmetry
INVARIANTS
  TypeOK
  NoSlotLeak
  AtMostOnce
PROPERTIES
  RefinesLedger
