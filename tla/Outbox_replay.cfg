SPECIFICATION Spec
CONSTANTS
    Users = {"ann", "bob"}
    Reads = {1, 2}
    Owner = "ann"
    MaxUpsets = 0
INVARIANT NewestTimeWins
CHECK_DEADLOCK FALSE
