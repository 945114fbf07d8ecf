SPECIFICATION Spec
CONSTANTS
  Heads = {ready, dead}
  Nodes = {a, b, c, d}
  NULL = null
PROPERTIES
  ListSpec
  DrainEmpties
