SPECIFICATION Spec
CONSTANTS
    Rooms = {r1, r2}
    Handlers = {h1, h2}
    Guards = {g1, g2}
    NoGuard = NoGuard
    Nobody = Nobody
    MaxCooldown = 2
    DefaultCooldown = 2
    Typed = {0, 3}
    NotSet = NotSet
    MaxTime = 4
    r1 = r1
    r2 = r2
    h1 = h1
    h2 = h2
    g1 = g1
    g2 = g2
SYMMETRY Symmetry
INVARIANTS
    TypeOK
    OneCommandPerRoom
    CooldownIsCurrent
PROPERTIES
    DrawsSpaced
    RefusedOnlyInCooldown
