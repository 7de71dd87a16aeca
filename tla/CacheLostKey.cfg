CONSTANTS
    Clients = {c1, c2}
    Keys = {k1, k2}
    Content = {v}
    EntryTTL = 2
    IndexTTL = 3
    Faulty = FALSE
    Absent = Absent
    NoCall = NoCall
SPECIFICATION Spec
INVARIANT EntriesAreRegistered
