CONSTANTS
  fresh1 = fresh1
  fresh2 = fresh2
  given = given
  bad = bad
  FreshIds = {fresh1, fresh2}
  ArgIds = {given, bad}
  BadIds = {bad}
  IatInts = {2, 3}
  Absent = Absent
  Torn = Torn
  MaxFaults = 2
SPECIFICATION StateSpec
INVARIANTS ServedIsStored RefusedKeeps
PROPERTY Identity
