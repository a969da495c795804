SPECIFICATION Spec
CONSTANTS
  s1 = s1
  s2 = s2
  p1 = p1
  p2 = p2
  g1 = g1
  g2 = g2
  f1 = f1
  f2 = f2
  NoAddr = NoAddr
  Server = {s1, s2}
  Prober = {p1, p2}
  Gateway = {g1, g2}
  Forward = {f1, f2}
  Path <- MCPath
INVARIANTS TypeOK NeverToNowhere OneProbePerServer MeasuresUsedPath ChangesAreReported
PROPERTY PathIsKept
CHECK_DEADLOCK FALSE
