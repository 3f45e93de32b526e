\* One user on one connection is enough.
SPECIFICATION Spec
CONSTANTS
    Conns = {c1}
    Threads = {t1}
    Tsi <- OneThread
    Stems <- MCStems
    Usernames <- Short
    Passwords = {p1}
    FirstNames <- Short
    LastNames <- FullShort
    AdminFlags <- OnlyFalse
    ContractNames <- ShortLong
    Descriptions <- NoTexts
    Prices <- PlainPrice
    Attachments = {}
    PageLimit = 1
    MaxUsers = 1
    MaxContracts = 0
    MaxTokens = 1
    MaxTime = 1
    None = None
INVARIANTS EditMeReplyIsCurrent
