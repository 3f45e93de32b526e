\* Two connections on two threads; registrations, logins, edits and lists, no
\* contracts.
SPECIFICATION Spec
CONSTANTS
    Conns = {c1, c2}
    Threads = {c1, c2}
    Tsi <- OwnThread
    Stems <- MCStems
    Usernames <- ShortLong
    Passwords = {p1, p2}
    FirstNames <- Short
    LastNames <- Short
    AdminFlags <- OnlyFalse
    ContractNames <- NoTexts
    Descriptions <- NoTexts
    Prices = {}
    Attachments = {}
    PageLimit = 1
    MaxUsers = 2
    MaxContracts = 0
    MaxTokens = 3
    MaxTime = 0
    None = None
INVARIANTS TypeOK SessionIntegrity TokensDistinct
PROPERTIES NoTokenResurrection CredentialChangeRotates OnlyHolderEdits
SYMMETRY Symmetry
