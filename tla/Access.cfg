\* Sets of the same size hold the same model values, so that one symmetry serves all parts.
CONSTANTS
    Requests = {r1, r2}
    Tokens = {t1, t2}
    Passwords = {p1, p2}
    Roles = {s1, s2}
    Links = {t1, t2}
    States = {t1, t2}
    Accounts = {r1, r2}
    Addresses = {p1, p2}
    Slugs = {s1, s2}
    Allowance = 2
    MaxHits = 4
    Channels = {t1, t2}
    Draws = {s1, s2}
SPECIFICATION AccessSpec
INVARIANTS
    CacheIsFresh
    SessionsFollowPassword
    SuspendedIsQuiet
    SpentOnce
    TokensOpenMailbox
    DeletedStaysGone
    WindowHolds
    OneDefault
    CodeSpentOnce
CHECK_DEADLOCK FALSE
SYMMETRY Sym
