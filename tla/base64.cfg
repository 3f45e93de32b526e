CONSTANTS
    Bytes = {0, 90, 131, 255}
    MaxLen = 5
    Modulus = 4096
    Lengths <- MCLengths
    Chars = {47, 61, 10}
    MaxText = 8
    Foreign = {10}
SPECIFICATION Spec
CHECK_DEADLOCK FALSE
INVARIANTS BufferSuffices EncodesBits RoundTrip DecodeFits
