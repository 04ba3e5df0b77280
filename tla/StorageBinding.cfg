SPECIFICATION BindingSpec
CONSTANTS
    t1 = t1
    t2 = t2
    k1 = k1
    k2 = k2
    s1 = s1
    s2 = s2
    Unbound = Unbound
    Absent = Absent
    MaxBoots = 1
    Threads <- MCThreads
    Keys <- MCKeys
    Seeds <- MCSeeds
SYMMETRY MCSymmetry
INVARIANT SeedRequired
