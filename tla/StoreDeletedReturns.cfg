CONSTANTS
    Admins = {root}
    LocationField = location
    NoUser = NoUser
    NoRow = NoRow
    NoTxn = NoTxn
    NoWorker = NoWorker
    Users = {root, ann}
    Ids = {l1}
    Fields = {location}
    Values = {low}
    Workers = {w1, w2}
    AdminSite = FALSE
SPECIFICATION Spec
PROPERTY SoftDeletedStaysDeleted
