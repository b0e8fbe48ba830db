SPECIFICATION Spec
CONSTANTS
  AdminWorker = {w1, w2}
  MemberWorker = {w1, w2}
  User = {u1, u2}
  Company = {c1, c2}
  Project = {p1, p2}
  Name = {n1, n2}
  Role = {"dealer", "admin"}
  Founder = u1
  Home = c1
  Features = {"rollback", "lark"}
SYMMETRY MCSymmetry
INVARIANTS TypeOK OneActivePerName ReferencesExist OwnerLostOnlyWithUser
PROPERTIES CompanyGoesWhole
CHECK_DEADLOCK FALSE
