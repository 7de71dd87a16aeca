CONSTANTS
    Admins = {root}
    LocationField = location
    NoUser = NoUser
    NoRow = NoRow
    NoTxn = NoTxn
    NoWorker = NoWorker
    Users = {root, ann, bob}
    Ids = {l1}
    Fields = {location, price}
    Values = {low, high}
    Workers = {w1}
    AdminSite = TRUE
SPECIFICATION Spec
INVARIANT SnapshotsAreCurrent
PROPERTIES
    SoftDeletedStaysDeleted
    OnlyAdminsReassign
    PatchTouchesOnlySupplied
    ImplementsRegistry
