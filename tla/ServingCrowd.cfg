\* More requests than threads and connections, and a database that restarts.
SPECIFICATION Spec
CONSTANTS
    Requests = {r1, r2, r3, r4}
    NoRequest = none
    Threads = 2
    PoolSize = 1
    MaxOverflow = 1
    Routes = {"register", "checkin", "cancel", "update", "delete", "read", "probe", "health"}
    MaxRestarts = 1
SYMMETRY Symmetry
INVARIANTS
    PoolIsSound
    StandstillIsStarvation
    FailuresBounded
