SPECIFICATION Spec
CONSTANTS
  ann = ann
  bob = bob
  User = {ann, bob}
  Absent = Absent
  Bad = Bad
  None = None
  Bell = {b1, b2}
  Owner <- AllAnn
  Desk = {d1, d2}
  Report = {r1}
  Reporter <- ByBob
  Staff = {ann}
  Noted = {ann}
  MaxPerUser = 2
  MaxMade <- Made
  MaxEmits = 2
SYMMETRY Symmetry
INVARIANTS
  TypeOK
  KeepsNewest
  BellAgrees
  NotifiedOncePerEmission
  ResolvedByAdmins
  DesksFollowVerdicts
