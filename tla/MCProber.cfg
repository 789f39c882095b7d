SPECIFICATION Spec
CONSTANTS
  u = u
  t1 = t1
  t2 = t2
  UIDs = {u}
  Targets = {t1, t2}
  UIDOf <- OneUID
  Options <- BothOptions
  NoWorker = NoWorker
  NoOption = NoOption
  MaxFlips = 2
INVARIANTS TypeOK ReportsAreEarned
PROPERTIES CallsReturn KeepsReporting
