SPECIFICATION Spec
CONSTANTS
  tex = tex
  aux = aux
  x = x
  y = y
  Files = {tex, aux}
  Outputs = {o1}
  Stdout = stdout
  Handles = {h1, h2}
  Data = {x, y}
  Closed = Closed
  Eof = Eof
  Contents <- MCContents
  Versions <- MCVersions
  Cells = 1
  CellBits = 3
  IntBits = 2
  BufSize = 3
  PendSize = 1
  Reads = {2, 3}
  Seeks = {1}
  Writes = {2}
  MaxEffort = 4
  Interrupts = TRUE
INVARIANTS
  ObservedCurrent
SYMMETRY HandleSymmetry
CHECK_DEADLOCK FALSE
