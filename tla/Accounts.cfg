CONSTANTS
    d1 = d1 d2 = d2 w1 = w1 w2 = w2 i1 = i1 i2 = i2
    Requests = {r1, r2}
    Deletions = {d1, d2}
    Conns = {w1, w2}
    Tickets = {t1}
    Instances = {i1, i2}
    InstanceOf <- OnTwoInstances
    None = None
SPECIFICATION Spec
INVARIANTS TicketAdmitsOnce ErasedOnce
PROPERTY ErasureSettles
SYMMETRY RequestSymmetry
CHECK_DEADLOCK FALSE
