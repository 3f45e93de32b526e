\* One connection; every length of text, kind of price and kind of attachment
\* that request_contract tells apart.
SPECIFICATION Spec
CONSTANTS
    Conns = {c1}
    Threads = {t1}
    Tsi <- OneThread
    Stems <- MCStems
    Usernames <- Short
    Passwords = {p1}
    FirstNames <- Short
    LastNames <- FullShort
    AdminFlags <- OnlyFalse
    ContractNames <- ShortLong
    Descriptions <- ShortFullLong
    Prices <- AllPrices
    Attachments <- AllFiles
    PageLimit = 1
    MaxUsers = 1
    MaxContracts = 2
    MaxTokens = 1
    MaxTime = 1
    None = None
INVARIANTS EchoMatchesStore
