\* Responses below, at and beyond one, two and three chunks; bodies that are
\* empty, read in one piece and in several.
SPECIFICATION Spec
CONSTANTS
    Chunk = 3
    RxMax = 2
    BodyLens = {0, 1, 2, 5}
    ReplyLens = {1, 2, 3, 4, 6, 7, 10}
INVARIANTS StreamExact KeptMeansComplete BodyWhole HeapExact CrashOnlyWhenEmpty
PROPERTIES EveryAnswerEnds ImplementsExchange
