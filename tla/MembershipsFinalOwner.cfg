CONSTANTS
  Users = {founder, u2}
  Founder = founder
  NoUser = NoUser
  Requests = {q1, q2}
SPECIFICATION Spec
INVARIANT
  ActiveOwnerRemains
