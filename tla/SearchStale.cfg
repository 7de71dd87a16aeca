CONSTANTS
    low = low
    high = high
    Ids = {l1}
    Users = {root}
    Admins = {root}
    Fields = {location}
    LocationField = location
    Values = {low, high}
    Clients = {w1, w2}
    AdminSite = FALSE
    NoUser = NoUser
    NoRow = NoRow
    NoTxn = NoTxn
    NoWorker = NoWorker
    Keys <- OneQuery
    Content <- SetsOfIds
    EntryTTL = 1
    IndexTTL = 2
    Faulty = FALSE
    Absent = Absent
    NoCall = NoCall
    NoSearch = NoSearch
SPECIFICATION SearchSpec
INVARIANT CachedResultsAreCurrent
