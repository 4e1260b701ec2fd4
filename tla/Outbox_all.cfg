SPECIFICATION Spec
CONSTANTS
    Users = {"ann", "bob"}
    Reads = {1, 2}
    Owner = "ann"
    MaxUpsets = 1
INVARIANTS NothingReadIsLost FiledAsItsReader NewestWins
CHECK_DEADLOCK FALSE
