\* Two connections on two threads; two users, who rename themselves and become
\* administrators, two contracts over two seconds, and pages of one contract.
SPECIFICATION Spec
CONSTANTS
    Conns = {c1, c2}
    Threads = {c1, c2}
    Tsi <- OwnThread
    Stems <- MCStems
    Usernames <- TwoShort
    Passwords = {p1}
    FirstNames <- Short
    LastNames <- Short
    AdminFlags <- OnlyTrue
    ContractNames <- Short
    Descriptions <- NoTexts
    Prices <- PlainPrice
    Attachments = {}
    PageLimit = 1
    MaxUsers = 2
    MaxContracts = 2
    MaxTokens = 3
    MaxTime = 1
    None = None
INVARIANTS RequesterExists
PROPERTIES PageShowsOwn FiledByHolder RequestsKeepOrder
SYMMETRY Symmetry
CONSTRAINTS FewGrants FewReplies
