CONSTANTS
  q1 = q1
  q2 = q2
  r1 = r1
  r2 = r2
  s1 = s1
  s2 = s2
  d1 = d1
  d2 = d2
  UpkeepDesks = {"fork", "lock", "snapshot", "upstream", "metrics", "access"}
  MaxRuns = 2
  MaxWrites = 2
  Proc = {d1, d2}
  StaleAfter = 2
  Timeout = 2
  Beat = 1
  RetryWait = 1
  MaxTime = 6
  Ctr = {c1}
  Listing = {r1, r2}
  MaxVer = 3
  MaxTick = 3
  Caller = {q1, q2}
  Served = {1, 2}
  MaxEpoch = 2
  MaxGap = 1
  Retention = 1
  MaxSec = 2
  MaxBytes = 2
  MaxGen = 2
  Session = {s1, s2}
  Token = {t1}
  Code = {k1}
  Approval = {a1}
  Ttls <- MCTtls
  Renewal = 1
  CodeTtl = 1
  MaxDay = 3
SPECIFICATION UpkeepSpec
SYMMETRY MCSymmetry
INVARIANTS ForkIsSound   StartsAfterKill AccessIsGranted ChartsAreTraffic
CHECK_DEADLOCK FALSE
