SPECIFICATION Spec
CONSTANTS
  fi = fi
  cs = cs
  xx = xx
  Threads = {t, u}
  Codes = {fi, cs, xx}
  Available = {fi, cs}
  Way <- CollidingWay
  Nobody = Nobody
  Unavailable = Unavailable
  NoLocale = NoLocale
  Junk = Junk
  MaxCalls = 2
INVARIANTS
  ReturnsLocale
CHECK_DEADLOCK FALSE
