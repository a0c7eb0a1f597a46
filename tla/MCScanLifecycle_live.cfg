SPECIFICATION FairSpec
CONSTANTS
  web1 = web1
  web2 = web2
  cli1 = cli1
  s1 = s1
  r1 = r1
  r2 = r2
  i1 = i1
  i2 = i2
  Sites = {s1}
  Unregistered = {}
  Procs = {"web", "cli"}
  Schedulers = {"web"}
  Pids = {i1, i2}
  PidReuse = TRUE
  Rows = {r1, r2}
  DbErrors = {"stream", "close"}
  MaxDbErrors = 1
  MaxCrashes = 1
  Workers <- SmallWorkers
  Home <- MCHome
  HostOf <- OneHost
  NoSite = NoSite
  NoPid = NoPid
  NoRow = NoRow
INVARIANT NoLeakedClaim
PROPERTY LiveRunLeftAlone
PROPERTY EveryRunCloses
PROPERTY NextTickPicksItUp
