SPECIFICATION AgedSpec
CONSTANTS
  TableSize = 3
  Addr = {a, b, c, d}
  AddStates = {"Invalid", "Valid"}
SYMMETRY AddrSymmetry
PROPERTIES IsARouteMap TidyTableRetiresOldest
