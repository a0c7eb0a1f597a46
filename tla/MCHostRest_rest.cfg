\* Two fetchers, every interleaving of their reads and writes.
CONSTANTS
    Hosts = {h1, h2}
    Threads = {t1, t2}
    LastCount = 2
    NoHost = NoHost
    NoRow = NoRow
SPECIFICATION Spec
SYMMETRY Alike
INVARIANT TypeOK
PROPERTY RestIsKept RestIsEarned RestCoversThePlatform
