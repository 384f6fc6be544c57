\* Three checks of one domain and the maintenance worker.
SPECIFICATION Spec
SYMMETRY Interchangeable
CONSTANTS
    Checkers = {c1, c2, c3}
    Reports <- SomeReports
    None = None
INVARIANTS RowShowsReport LosersWereRaced
CHECK_DEADLOCK FALSE
