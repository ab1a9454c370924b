CONSTANTS
    Messages = {1, 2, 3}
    Pages = {p1}
    Conns = {c1, c2}
    Failures = TRUE
    MaxUnread = 2
SYMMETRY Symmetry
SPECIFICATION Spec
INVARIANTS TypeOK ShownOnce NothingMissedWhileConnected
