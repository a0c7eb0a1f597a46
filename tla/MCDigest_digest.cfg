SPECIFICATION Spec
CONSTANTS
    l1 = l1
    l2 = l2
    s1 = s1
    Listings = {l1, l2}
    Sites = {s1}
    Shop <- MCShop
    Ticks = {tick}
    Asked = {now}
    Limit = 1
INVARIANTS
    TypeOK
    Accounted
    
SYMMETRY Symmetry
