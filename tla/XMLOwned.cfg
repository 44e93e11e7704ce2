CONSTANTS
    Blocks = {0, 1, 2, 3, 4, 5, 6, 7, 8, 9, 10}
    Items = {1, 2, 3}
    Owner <- Owners
    Valid <- Complete
    Uids <- TwoUsers
SPECIFICATION Spec
INVARIANTS TypeOK Owned NothingLost
