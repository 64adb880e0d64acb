SPECIFICATION Spec
CONSTANTS
    p1 = p1
    p2 = p2
    r1 = r1
    r2 = r2
    m1 = m1
    m2 = m2
    c1 = c1
    c2 = c2
    None = None
    Procs = {p1, p2}
    Refs = {r1, r2}
    Manifests = {m1, m2}
    Conts = {c1, c2}
    Layers = 1
SYMMETRY Symmetry
INVARIANT LowerdirWhole
