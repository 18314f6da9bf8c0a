SPECIFICATION Spec
CONSTANTS
  b1 = b1
  b2 = b2
  t1 = t1
  Tables = {t1}
  Branches = {b1, b2}
  NoBranch = NoBranch
  o1 = o1
  o2 = o2
  Migrators = {o1, o2}
  HumanOps = {"force", "no force", "drop table", "unreadable", "create policy", "alter policy"}
  MaxJournal = 4
  MaxEdits = 1
  MaxClock = 3
SYMMETRY Symmetry
CHECK_DEADLOCK FALSE
INVARIANTS NeverStranded DeployedIsDeclared
