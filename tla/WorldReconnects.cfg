SPECIFICATION Spec
CONSTANTS
  Server = {local, other}
  Local = local
  Sock = {s1, s2, s3}
  None = None
  MaxSwitches = 1
  MaxChecks = 2
\* switches and checks are bounded: the page stops when they are used up
CHECK_DEADLOCK FALSE
INVARIANT WorldReconnects
