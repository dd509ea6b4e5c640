CONSTANTS
  Users = {founder, u2, u3}
  Founder = founder
  NoUser = NoUser
  Requests = {q1, q2}
SPECIFICATION Spec
SYMMETRY MembershipSymmetry
INVARIANTS
  TypeOK
  OwnerLostOnlyInRace
PROPERTIES
  OnlyOwnersManageOwners
CHECK_DEADLOCK FALSE
