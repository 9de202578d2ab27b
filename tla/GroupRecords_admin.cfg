SPECIFICATION Spec
CONSTANTS
  u1 = u1
  u2 = u2
  u3 = u3
  u4 = u4
  u5 = u5
  c1 = c1
  h1 = h1
  h2 = h2
  User = {u1, u2, u3, u4, u5}
  Conv = {c1}
  Target = {}
  Poster = {}
  Handler = {h1, h2}
SYMMETRY Symmetry
INVARIANTS
  GroupHasAdmin
