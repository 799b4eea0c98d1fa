SPECIFICATION Spec
CONSTANTS
    Engines = {e1, e2}
    Keys = {k1, k2}
    Threads = {t1, t2}
    Shapes = {s1}
    Times = {x1}
    Addrs = {a1, a2}
    MaxLoads = 2
    Hosts = {{}, {{"manage", "synth"}, {"synth"}}}
    None = None
SYMMETRY Symmetry
INVARIANTS
    SharedCachesCurrent
    LastOneFrees
    WeightsKept
    
CHECK_DEADLOCK FALSE
