CONSTANTS
    up = up  down = down
    Tasks = {up, down}
    Uploads = {up}
    Root = "/"
    Paths = {"/", "/a"}
    TargetOf <- MCTargetOf
    MaxListings = 2
SPECIFICATION ProjectionSpec
INVARIANTS RestAgrees ClosedStaysClosed
CHECK_DEADLOCK FALSE
