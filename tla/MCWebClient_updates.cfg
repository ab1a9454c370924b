CONSTANTS
    Messages = {1}
    Pages = {p1}
    Conns = {c1}
    Failures = FALSE
    MaxUnread = 1
SPECIFICATION FairSpec
PROPERTIES UpdatesReachThePage
