\* Three service threads at most; the number asked for below, at and above that,
\* zero, negative, and a long whose low bits make a small int; two signals.
SPECIFICATION Spec
CONSTANTS
    Longs = {0, 1, 2, 12, 17, 18, 23}
    IntMod = 16
    PortLimit = 6
    MaxSMP = 3
    DefaultThreads = 4
    MaxSignals = 2
    Debug = TRUE
INVARIANTS ThreadsHoldResources SlotsInBounds ServingSurvivesSignals CleanExit
PROPERTIES StopsWhenAsked
CHECK_DEADLOCK FALSE
