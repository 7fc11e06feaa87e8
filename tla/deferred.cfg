SPECIFICATION Spec
CONSTANTS
  Readers = {r1, r2, r3}
  Deliverers = {d1, d2, d3}
  Cancellers = {c1, c2}
  Values = {x, y}
  NoValue = NoValue
INVARIANTS WinnersValue CancelIsFinal
PROPERTIES DerefReturns
