SPECIFICATION Spec
CONSTANTS
  u1 = u1
  u2 = u2
  u3 = u3
  u4 = u4
  u5 = u5
  c1 = c1
  h1 = h1
  h2 = h2
  h3 = h3
  User = {u1, u2, u3, u4, u5}
  Conv = {c1}
  Target = {u1}
  Poster = {u1}
  Handler = {h1, h2, h3}
SYMMETRY Symmetry
INVARIANTS
  TypeOK
  IndexMatchesMembership
  RolesWithinMembers
  HeadlessOnlyIfContested
  DepartingStillMember
  RowsHaveGroup
PROPERTIES
  LifecycleSpec
