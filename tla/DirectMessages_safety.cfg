SPECIFICATION Spec
CONSTANTS
  ann = ann
  bob = bob
  a1 = a1
  a2 = a2
  b1 = b1
  m1 = m1
  m2 = m2
  User = {ann, bob}
  Socket = {a1, a2, b1}
  Owner <- Tabs
  Msg = {m1}
  MaxTime = 3
SYMMETRY Symmetry
INVARIANTS
  TypeOK
  DeliveredIsPersisted
  NothingMissed
  UnsentIsHidden
  RepeatsOnlyIfForgotten
