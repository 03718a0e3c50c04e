\* Two concurrent requests, two RemoteAddr values, a bucket of one token.
CONSTANTS
  r1 = r1
  r2 = r2
  c1 = c1
  c2 = c2
  Requests <- MCRequests
  Addrs <- MCAddrs
  Burst = 1
  Rps = 1
  MaxTime = 1
SPECIFICATION Spec
INVARIANT NoMapRace
CHECK_DEADLOCK FALSE
