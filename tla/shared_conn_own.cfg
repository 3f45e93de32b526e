\* Two logins at the same time are enough.
SPECIFICATION Spec
CONSTANTS
    Threads = {t1, t2}
    Users = {u1, u2}
    MaxPending = 4
    None = None
INVARIANTS OwnToken
