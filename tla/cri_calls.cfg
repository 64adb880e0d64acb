SPECIFICATION Spec
CONSTANTS
    s1 = s1
    s2 = s2
    c1 = c1
    c2 = c2
    p1 = p1
    p2 = p2
    r1 = r1
    r2 = r2
    None = None
    Pods = {s1, s2}
    PodNames = {"web"}
    Containers = {c1, c2}
    Names = {"app"}
    Pids = {p1, p2}
    Calls = {r1, r2}
    Rules = {"serial", "lists", "once", "wipe"}
SYMMETRY Symmetry
INVARIANTS RecordsHaveBundles Accounted
PROPERTIES PodEnds
CHECK_DEADLOCK FALSE
