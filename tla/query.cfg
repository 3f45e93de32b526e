CONSTANTS
    Lengths = {1, 2, 10, 20, 68, 132, 260, 8044, 8045, 32772, 131072, 131073,
               1801958, 1801959, 2097061, 2097062, 2097063, 3000000}
    Modulus = 1073741824
SPECIFICATION Spec
CHECK_DEADLOCK FALSE
INVARIANTS InsideBuffer PrefixKept UpdateIsWhole InsertCutOnlyByName
