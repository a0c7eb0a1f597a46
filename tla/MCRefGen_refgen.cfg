SPECIFICATION FairSpec
CONSTANTS
    m = m
    f = f
    k = k
    a = a
    b = b
    web = web
    scan = scan
    Models = {m}
    Firms = {f}
    Calibers = {k}
    Carries <- MCCarries
    Text <- MCText
    Thread = {web, scan}
    Writers = {web}
    Seeded <- MCSeeded
    MaxEdits = 1
    NoGen = NoGen
    Nobody = Nobody
INVARIANTS TypeOK StaleIsNoticed
PROPERTIES EditsMoveIt EditArrives
