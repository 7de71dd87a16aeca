CONSTANTS
    Tables <- SomeTables
    Params <- SomeParams
    Types = {"rent", "sale"}
    DefaultRadius = 1
    PageSize = 1
    MaxPageSize = 2
    MaxCached = 1
    Unset = Unset
    NoListing = NoListing
SPECIFICATION Spec
INVARIANTS TypeOK AnswersMatchTheQuery IInv PagesAreTheAnswer
PROPERTIES SameSearchSameAnswer
