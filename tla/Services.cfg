\* Requests and folders, and forms and presets, hold the same model values, so that one symmetry serves all parts.
CONSTANTS
    Requests = {r1, r2}
    Forms = {f1, f2, f3}
    MaxMatches = 1
    Folders = {r1, r2}
    Limit = 1
    MaxUid = 3
    MaxValidity = 2
    Poller = poller
    Checker = checker
    Floor = 4
    Horizon = 9
    MaxAttempts = 2
    Roles = {user, admin}
    Wanted = {admin}
    Texts <- ShortTexts
    Wants <- ShortWants
    MaxFilters = 2
    MaxParts = 2
    MaxLines = 3
    HeaderCap = 2
SPECIFICATION ServicesSpec
INVARIANTS
    FiltersAreOneForm
    LastWordStands
    ReadOnce
    MatchingIsMonotone
    StalledIsStuck
    DeliveryIsTrue
    SeedsKeepAndHold
    OneOrder
    AnswersAreTrue
CHECK_DEADLOCK FALSE
SYMMETRY Sym
