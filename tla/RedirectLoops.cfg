\* A legal sequence of requests, one at a time, that builds a circle.
SPECIFICATION RedirectSpec
CONSTANTS
    Editors = 1
    Paths = {p1, p2, p3}
    MaxChain = 3
    MaxRows = 3
    MaxSaves = 3
INVARIANT NoCircularRedirects
CHECK_DEADLOCK FALSE
