SPECIFICATION Spec
CONSTANTS
    i = i
    j = j
    u = u
    g = g
    scan = scan
    button = button
    command = command
    Photo = {1, 2}
    Url = {u}
    UrlOf <- MCShared
    Item = {i, j}
    ItemOf <- MCTwoItems
    Host = {g}
    HostOf <- MCOneHost
    Drain = {scan, button, command}
    Buttons = {button}
    Commands = {command}
    Scans = {scan}
    Limit = 1
    MaxAttempts = 1
    MaxPresses = 1
    MaxHeard = 2
    Housekeeping = TRUE
INVARIANTS TypeOK RowHasItsFile GiveUpIsEarned
PROPERTY OnlyForward
