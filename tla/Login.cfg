SPECIFICATION FairSpec
CONSTANTS
  Logins = {l1, l2}
  Browsers = {b1, b2}
  Collections = {follows, profile}
  Public = {profile}
  Follows = follows
  Relayed = {TRUE, FALSE}
  NoLogin = NoLogin
  MaxMishaps = 1
CHECK_DEADLOCK FALSE
INVARIANTS IdleMeansLoaded LandsWhereAsked
PROPERTIES SpinnerEnds
