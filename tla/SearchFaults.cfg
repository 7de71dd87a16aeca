CONSTANTS
    low = low
    high = high
    Ids = {l1}
    Users = {root}
    Admins = {root}
    Fields = {location}
    LocationField = location
    Values = {low, high}
    Clients = {w1, w2}
    AdminSite = TRUE
    NoUser = NoUser
    NoRow = NoRow
    NoTxn = NoTxn
    NoWorker = NoWorker
    Keys <- OneQuery
    Content <- SetsOfIds
    EntryTTL = 1
    IndexTTL = 1
    Faulty = TRUE
    Absent = Absent
    NoCall = NoCall
    NoSearch = NoSearch
SPECIFICATION FairSearchSpec
INVARIANT SearchIInv
PROPERTIES AnswersAreTimely EventuallyCurrent
