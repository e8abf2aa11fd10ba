SPECIFICATION Spec
CONSTANTS
    g1 = g1
    g2 = g2
    g3 = g3
    Users = {g1, g2, g3}
    Quota <- MCQuota
    ItemCount = 3
    ItemSize = 1
    MaxWrites = 2
SYMMETRY Alike
CHECK_DEADLOCK FALSE
INVARIANTS
    OneHolder
    QuotaServed
    CountBounded
