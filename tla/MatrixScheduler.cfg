SPECIFICATION Spec
CONSTANTS
    base = base
    middle = middle
    top = top
    m1 = m1
    m2 = m2
    Never = Never
    Order <- MCOrder
    DependsOn <- MCDependsOn
    Launchd = {top}
    Docker = {}
    Probed = {base, top}
    Watched = {top}
    Scanners = {m1, m2}
    Window = 3
    MaxHeals = 2
    Base = 1
    Hopeless = 4
    MaxMishaps = 1
INVARIANTS
    RestartsBounded
PROPERTIES
    UptimeIsTrue
    UnrecoverableIsEarned
