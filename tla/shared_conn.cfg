\* Three users on two threads; a connection with room for two answers that
\* were left behind.
SPECIFICATION Spec
CONSTANTS
    Threads = {t1, t2}
    Users = {u1, u2, u3}
    MaxPending = 4
    None = None
INVARIANTS OwnTokenUnlessOverlapped
