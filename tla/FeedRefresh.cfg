SPECIFICATION FairSpec
CONSTANTS
  f1 = f1
  f2 = f2
  w1 = w1
  r1 = r1
  Feeds = {f1, f2}
  Tagged = {f1}
  Workers = {w1}
  Requests = {r1}
  Deployments <- MCDeployments
  QueueBound = 1
  Window = 2
  MaxVersion = 2
  MaxMishaps = 1
CHECK_DEADLOCK FALSE
INVARIANT ValidatorCovers
PROPERTY EventuallyRefreshed
