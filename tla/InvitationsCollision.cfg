\* MySQL's default isolation: a batch meets a row that another committed since.
SPECIFICATION Spec
CONSTANTS
    i1 = i1
    i2 = i2
    Invitees <- MCInvitees
    Batches <- MCBatches
    Workers = {w1, w2}
    NoWorker = NoWorker
    Isolations = {"repeatable_read"}
PROPERTY NoBatchLostToACollision
