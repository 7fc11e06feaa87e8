SPECIFICATION Spec
CONSTANTS
  x1 = x1  x2 = x2  NIL = NIL
  Items = {x1, x2}
  Capacity = 2
  MaxCapacity = 8
PROPERTIES SequenceDeque
