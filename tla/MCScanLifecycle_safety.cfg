SPECIFICATION Spec
CONSTANTS
  web1 = web1
  web2 = web2
  cli1 = cli1
  s1 = s1
  s2 = s2
  r1 = r1
  r2 = r2
  r3 = r3
  i1 = i1
  i2 = i2
  Sites = {s1, s2}
  Unregistered = {s2}
  Procs = {"web", "cli"}
  Schedulers = {"web"}
  Pids = {i1, i2}
  PidReuse = TRUE
  Rows = {r1, r2, r3}
  DbErrors = {"claim", "open", "stream", "close"}
  MaxDbErrors = 1
  MaxCrashes = 0
  Workers <- MCWorkers
  Home <- MCHome
  HostOf <- OneHost
  NoSite = NoSite
  NoPid = NoPid
  NoRow = NoRow
SYMMETRY Symmetry
INVARIANT TypeOK
INVARIANT InProcessExclusion
PROPERTY RefinesSiteMutex
