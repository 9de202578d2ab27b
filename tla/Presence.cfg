SPECIFICATION Spec
CONSTANTS
  User = {ann, bob}
  Socket = {s1, s2, s3, s4}
  Profile = {p1, p2}
  None = None
  Absent = Absent
  Bad = Bad
SYMMETRY Symmetry
INVARIANTS
  TypeOK
  OnlineIfConnected
  RosterIsCurrent
