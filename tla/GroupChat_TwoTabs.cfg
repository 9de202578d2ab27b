SPECIFICATION ChatSpec
CONSTANTS
  u1 = u1
  u2 = u2
  u3 = u3
  u4 = u4
  s1 = s1
  s2 = s2
  c1 = c1
  h1 = h1
  h2 = h2
  User = {u1, u2, u3, u4}
  Conv = {c1}
  Target = {u1}
  Poster = {u1}
  Handler = {h1, h2}
  Socket = {s1, s2}
  Owner <- TwoTabs
SYMMETRY Symmetry
INVARIANTS
  ChatTypeOK
  MembersSeeCurrentRecord
  RoomFollowsMembership
  ShownGroupIsMine
