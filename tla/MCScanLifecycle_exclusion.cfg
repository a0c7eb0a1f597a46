SPECIFICATION Spec
CONSTANTS
  web1 = web1
  web2 = web2
  cli1 = cli1
  s1 = s1
  r1 = r1
  r2 = r2
  r3 = r3
  i1 = i1
  i2 = i2
  i3 = i3
  Sites = {s1}
  Unregistered = {}
  Procs = {"web", "cli"}
  Schedulers = {"web"}
  Pids = {i1, i2, i3}
  PidReuse = FALSE
  Rows = {r1, r2, r3}
  DbErrors = {}
  MaxDbErrors = 0
  MaxCrashes = 0
  Workers <- MCWorkers
  Home <- MCHome
  HostOf <- OneHost
  NoSite = NoSite
  NoPid = NoPid
  NoRow = NoRow
SYMMETRY Symmetry
INVARIANT OneScanPerSite
