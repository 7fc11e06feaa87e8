SPECIFICATION Spec
CONSTANTS
  loop = loop  scalar = scalar
  assoc = assoc  helper = helper  class = class
  Names = {assoc, helper, class}
  Regions = {loop, scalar}
  Definers = {d1, d2}
  Classes = {class}
  Assumes <- AssumedNames
  Checked <- CheckedNames
  Inferred <- InferredNames
  NoName = NoName
  MaxNotes = 3
SYMMETRY Symmetry
CHECK_DEADLOCK FALSE
INVARIANTS GuardSound NotedIsOff
