SPECIFICATION Spec
CONSTANTS
  Processes = {p1, p2, p3}
  Rows = {conf}
  Tables = {"table"}
  TableOf <- OneTable
  Columns = {"warps", "stages"}
  Data = {2, 3, 4, 8}
  Values <- Three
  Absent = Absent
  MaxFailures = 1
SYMMETRY AnyProcess
INVARIANTS ReadBackSucceeds TearTakesThree RefusedAfterFailure
PROPERTIES ImplementsColumns
