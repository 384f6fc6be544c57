\* Two imports and two deletions over two addresses.
SPECIFICATION Spec
CONSTANTS
    a = a
    b = b
    Emails = {a, b}
    Imports = {r1, r2}
    Deleters = {d1, d2}
    Files <- SomeFiles
    None = None
    MaxFaults = 1
INVARIANTS ImportedIsExact NothingIsLost EveryRowIsReported KeepsFirstValid
PROPERTIES RowsAreNotReplaced
CHECK_DEADLOCK FALSE
