SPECIFICATION Spec
CONSTANTS
    a = a
    b = b
    c = c
    Request = {r1, r2, r3}
    Text <- MCText
    Keyworded <- MCKeyworded
    Similar <- MCSimilar
    MaxHistory = 1
    MaxLoads = 1
    Handler = {h1, h2}
    ClickId = {k1}
    MaxStarts = 3
    MaxDeliveries = 2
    User = {u1, u2}
    MaxCommands = 4
    MaxCrashes = 2
    Caller = {c1, c2, c3}
    Task = {t1, t2}
    MaxRows = 2
SYMMETRY Symmetry
CHECK_DEADLOCK FALSE
INVARIANTS
    SecondLookForAReason
    ConnectedIsAlive
    BindingsSurvive
    RowsTellTheTruth
