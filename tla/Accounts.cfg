SPECIFICATION Spec
CONSTANTS
  Account = {me, d1, d2}
  Me = me
  Handle = {h1, h2, h3}
  Nick = {n}
  NoHandle = NoHandle
  Query <- MCQuery
  Limit <- MCLimit
  MaxRequests = 3
  MaxChanges = 3
  Job = {j1, j2}
  Text = {name, bio}
  MaxEdits = 3
  MaxMishaps = 1
SYMMETRY MCSymmetry
CONSTRAINT Budget
CHECK_DEADLOCK FALSE
INVARIANTS FollowsMirrored SearchHonest CopiesAgree LastEditKept
