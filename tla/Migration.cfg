SPECIFICATION MigrationSpec
CONSTANTS
    f1 = f1
    f2 = f2
    c1 = c1
    Paths = {f1, f2}
    NoPath = NoPath
    Invocations = {c1}
    MaxNames = 2
    MaxStarts = 4
    MaxEdits = 2
    MaxStops = 2
    Liberties = {}
SYMMETRY Perms
CHECK_DEADLOCK FALSE
INVARIANTS NothingIsLost MountServesItsOwn
PROPERTIES UndoGivesBackTheUsersText
