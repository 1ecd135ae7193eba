\* Three calls, two connections; every call into the kernel may fail.
SPECIFICATION FairSpec
CONSTANTS
    s1 = s1  s2 = s2
    t1 = t1  t2 = t2  t3 = t3
    c1 = c1  c2 = c2
    Sockets = {s1, s2}
    Ports = {1, 2}
    Callers = {t1, t2, t3}
    Conns = {c1, c2}
    Acceptor = Acceptor
    None = None
    MayFail = TRUE
INVARIANTS
    EventPointerValid
    AcceptsOnlyActive
    RingsConsistent
    DestroyReleasesAll
PROPERTIES
    DestroyTerminates
    NoConnectionStuck
CHECK_DEADLOCK FALSE
