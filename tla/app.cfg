\* Two accounts on one phone, two calls at once, and up to three tokens.
SPECIFICATION Spec
CONSTANTS
    Accounts = {a, b}
    Calls = {1, 2}
    MaxTokens = 3
    NoOne = NoOne
INVARIANTS StoredTokenIsOwn LogoutSticks
