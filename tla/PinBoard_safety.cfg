SPECIFICATION Spec
CONSTANTS
  Msg = {m1, m2}
  Handler = {h1, h2}
  MaxBoard = 2
SYMMETRY Symmetry
INVARIANTS
  TypeOK
  BoardFollowsPins
PROPERTIES
  NoLatePin
