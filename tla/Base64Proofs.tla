---------------------------- MODULE Base64Proofs ----------------------------
(***************************************************************************)
(* Proofs about Base64 for every width of size_t, every length of data and *)
(* every content: the encoder stays inside its buffer and writes the text  *)
(* of RFC 4648, the decoder stays inside its own for every text, and it    *)
(* inverts the encoder.                                                    *)
(***************************************************************************)
EXTENDS Base64, SequenceTheorems, FiniteSetTheorems, TLAPS

Byte == 0..255

\* A product with 4 wraps around at most three times.
LEMMA WrapAround ==
    ASSUME NEW M \in Nat, M >= 256, NEW x \in Nat, x < 4 * M
    PROVE  /\ x < M => x % M = x
           /\ M <= x /\ x < 2 * M => x % M = x - M
           /\ 2 * M <= x /\ x < 3 * M => x % M = x - 2 * M
           /\ 3 * M <= x => x % M = x - 3 * M
<1>1. x < M => x % M = x
  BY SMT
<1>2. M <= x /\ x < 2 * M => x % M = x - M
  BY SMT
<1>3. 2 * M <= x /\ x < 3 * M => x % M = x - 2 * M
  BY SMT
<1>4. 3 * M <= x => x % M = x - 3 * M
  BY SMT
<1> QED BY <1>1, <1>2, <1>3, <1>4

\* A number below the modulus is not changed.
LEMMA NoWrap ==
    ASSUME NEW M \in Nat, NEW x \in Nat, x < M
    PROVE  x % M = x
  BY SMT

-----------------------------------------------------------------------------
\* What b64_encode does not refuse did not wrap around, and the text with its
\* terminator fits.
LEMMA SizeSuffices ==
    ASSUME NEW n \in Nat, n < Modulus, SizeFor(n) >= n
    PROVE  SizeFor(n) \in Nat /\ EncodedSize(n) <= SizeFor(n)
<1> DEFINE w == (4 * n) % Modulus
           e == w \div 3
           a == e + 4
           l == a \div 72
           d == (n + 2) \div 3
<1>1. Modulus \in Nat /\ Modulus >= 256
  BY Base64Assumption
<1>2. /\ 4 * n < Modulus => w = 4 * n
      /\ Modulus <= 4 * n /\ 4 * n < 2 * Modulus => w = 4 * n - Modulus
      /\ 2 * Modulus <= 4 * n /\ 4 * n < 3 * Modulus => w = 4 * n - 2 * Modulus
      /\ 3 * Modulus <= 4 * n => w = 4 * n - 3 * Modulus
  <2> DEFINE x == 4 * n
  <2>1. x \in Nat /\ x < 4 * Modulus
    BY <1>1
  <2> HIDE DEF x
  <2>2. /\ x < Modulus => x % Modulus = x
        /\ Modulus <= x /\ x < 2 * Modulus => x % Modulus = x - Modulus
        /\ 2 * Modulus <= x /\ x < 3 * Modulus => x % Modulus = x - 2 * Modulus
        /\ 3 * Modulus <= x => x % Modulus = x - 3 * Modulus
    BY <1>1, <2>1, WrapAround
  <2> QED BY <2>2 DEF x
<1>3. w \in Nat /\ w < Modulus
  BY <1>1, <1>2
<1>4. e \in Nat /\ 3 * e <= w /\ w <= 3 * e + 2
  BY <1>3
<1>5. l \in Nat /\ 72 * l <= a
  BY <1>4
<1>6. a % Modulus = a /\ (a + l) % Modulus = a + l /\ (a + l + 1) % Modulus = a + l + 1
  <2>1. a + l + 1 < Modulus /\ a \in Nat /\ a + l \in Nat
    BY <1>1, <1>3, <1>4, <1>5
  <2> QED BY <2>1, <1>1, <1>5, NoWrap
<1>7. SizeFor(n) = a + l + 1
  <2>1. n * 4 = 4 * n
    OBVIOUS
  <2> HIDE DEF e, l
  <2> QED BY <2>1, <1>6 DEF SizeFor, e, l, a, w
<1>8. 4 * n < Modulus
  BY <1>1, <1>2, <1>3, <1>4, <1>5, <1>7
<1>9. d \in Nat /\ 3 * d <= n + 2
  OBVIOUS
<1>10. EncodedSize(n) = 4 * d + 1
  BY DEF EncodedSize
<1>11. 4 * d + 1 <= a + l + 1
  BY <1>2, <1>4, <1>5, <1>8, <1>9
<1> QED BY <1>4, <1>5, <1>7, <1>10, <1>11

\* The alphabet consists of characters.
LEMMA TableType ==
    ASSUME NEW n \in Nat
    PROVE  base64_table(n) \in Byte
  BY DEF base64_table, Byte

-----------------------------------------------------------------------------
\* A byte of the data; beyond the end a zero.  A bit of a byte, by its weight.
ByteAt(j) == IF j < Len(src) THEN src[j + 1] ELSE 0
Of(x, w) == (x \div w) % 2

\* The data consist of bytes.
LEMMA ByteAtType ==
    ASSUME src \in Seq(Byte), NEW j \in Nat
    PROVE  ByteAt(j) \in Byte
<1>1. Len(src) \in Nat
  BY LenProperties
<1>2. ASSUME j < Len(src) PROVE src[j + 1] \in Byte
  BY <1>1, <1>2, ElementOfSeq
<1>3. 0 \in Byte
  BY DEF Byte
<1> QED BY <1>2, <1>3 DEF ByteAt

\* Bit r of byte j.
LEMMA BitOf ==
    ASSUME src \in Seq(Byte), NEW j \in Nat, NEW r \in 0..7
    PROVE  Bit(8 * j + r) = Of(ByteAt(j), Weight[r + 1])
<1>1. (8 * j + r) \div 8 = j /\ (8 * j + r) % 8 = r
  OBVIOUS
<1>2. Len(src) \in Nat
  BY LenProperties
<1>3. (0 \div Weight[r + 1]) % 2 = 0
  BY DEF Weight
<1> QED BY <1>1, <1>2, <1>3 DEF Bit, ByteAt, Of

\* The eight bits of byte j.
LEMMA BitsOf ==
    ASSUME src \in Seq(Byte), NEW j \in Nat
    PROVE  /\ Bit(8 * j) = Of(ByteAt(j), 128) /\ Bit(8 * j + 1) = Of(ByteAt(j), 64)
           /\ Bit(8 * j + 2) = Of(ByteAt(j), 32) /\ Bit(8 * j + 3) = Of(ByteAt(j), 16)
           /\ Bit(8 * j + 4) = Of(ByteAt(j), 8) /\ Bit(8 * j + 5) = Of(ByteAt(j), 4)
           /\ Bit(8 * j + 6) = Of(ByteAt(j), 2) /\ Bit(8 * j + 7) = Of(ByteAt(j), 1)
<1>1. \A r \in 0..7 : Bit(8 * j + r) = Of(ByteAt(j), Weight[r + 1])
  BY BitOf
<1>2. Bit(8 * j) = Bit(8 * j + 0)
  OBVIOUS
<1> QED BY <1>1, <1>2 DEF Weight

\* The bits of a byte add up to its pieces of six, four and two bits.
LEMMA BitSums ==
    ASSUME NEW x \in Byte
    PROVE  /\ 32 * Of(x, 128) + 16 * Of(x, 64) + 8 * Of(x, 32) + 4 * Of(x, 16) + 2 * Of(x, 8)
                + Of(x, 4) = x \div 4
           /\ 32 * Of(x, 2) + 16 * Of(x, 1) = (x % 4) * 16
           /\ 8 * Of(x, 128) + 4 * Of(x, 64) + 2 * Of(x, 32) + Of(x, 16) = x \div 16
           /\ 32 * Of(x, 8) + 16 * Of(x, 4) + 8 * Of(x, 2) + 4 * Of(x, 1) = (x % 16) * 4
           /\ 2 * Of(x, 128) + Of(x, 64) = x \div 64
           /\ 32 * Of(x, 32) + 16 * Of(x, 16) + 8 * Of(x, 8) + 4 * Of(x, 4) + 2 * Of(x, 2)
                + Of(x, 1) = x % 64
<1>1. /\ x = 2 * (x \div 2) + Of(x, 1) /\ x \div 2 = 2 * (x \div 4) + Of(x, 2)
      /\ x \div 4 = 2 * (x \div 8) + Of(x, 4) /\ x \div 8 = 2 * (x \div 16) + Of(x, 8)
      /\ x \div 16 = 2 * (x \div 32) + Of(x, 16) /\ x \div 32 = 2 * (x \div 64) + Of(x, 32)
      /\ x \div 64 = 2 * (x \div 128) + Of(x, 64) /\ x \div 128 = Of(x, 128)
  BY DEF Byte, Of
<1>2. /\ x = 4 * (x \div 4) + (x % 4) /\ x = 16 * (x \div 16) + (x % 16)
      /\ x = 64 * (x \div 64) + (x % 64)
  BY DEF Byte
<1>3. \A n \in {1, 2, 4, 8, 16, 32, 64, 128} : Of(x, n) \in Int /\ x \div n \in Int /\ x % n \in Int
  BY DEF Byte, Of
<1>4. PICK b1 \in Int, b2 \in Int, b4 \in Int, b8 \in Int, b16 \in Int, b32 \in Int,
           b64 \in Int, b128 \in Int :
             /\ b1 = Of(x, 1) /\ b2 = Of(x, 2) /\ b4 = Of(x, 4) /\ b8 = Of(x, 8)
             /\ b16 = Of(x, 16) /\ b32 = Of(x, 32) /\ b64 = Of(x, 64) /\ b128 = Of(x, 128)
  BY <1>3
<1>5. PICK d2 \in Int, d4 \in Int, d8 \in Int, d16 \in Int, d32 \in Int, d64 \in Int,
           d128 \in Int, r4 \in Int, r16 \in Int, r64 \in Int :
             /\ d2 = x \div 2 /\ d4 = x \div 4 /\ d8 = x \div 8 /\ d16 = x \div 16
             /\ d32 = x \div 32 /\ d64 = x \div 64 /\ d128 = x \div 128
             /\ r4 = x % 4 /\ r16 = x % 16 /\ r64 = x % 64
  BY <1>3
<1>6. /\ x \in Int /\ x = 2 * d2 + b1 /\ d2 = 2 * d4 + b2
      /\ d4 = 2 * d8 + b4 /\ d8 = 2 * d16 + b8
      /\ d16 = 2 * d32 + b16 /\ d32 = 2 * d64 + b32
      /\ d64 = 2 * d128 + b64 /\ d128 = b128
      /\ x = 4 * d4 + r4 /\ x = 16 * d16 + r16 /\ x = 64 * d64 + r64
  BY <1>1, <1>2, <1>4, <1>5 DEF Byte
<1>7. /\ 32 * b128 + 16 * b64 + 8 * b32 + 4 * b16 + 2 * b8 + b4 = d4
      /\ 32 * b2 + 16 * b1 = r4 * 16
      /\ 8 * b128 + 4 * b64 + 2 * b32 + b16 = d16
      /\ 32 * b8 + 16 * b4 + 8 * b2 + 4 * b1 = r16 * 4
      /\ 2 * b128 + b64 = d64
      /\ 32 * b32 + 16 * b16 + 8 * b8 + 4 * b4 + 2 * b2 + b1 = r64
  BY <1>6
<1> QED BY <1>4, <1>5, <1>7

\* The sum that makes a sextet, from the first of its bits.
LEMMA SextetSum ==
    ASSUME NEW n, NEW k, k = 6 * n
    PROVE  Sextet(n) = 32 * Bit(k) + 16 * Bit(k + 1) + 8 * Bit(k + 2) + 4 * Bit(k + 3)
                       + 2 * Bit(k + 4) + Bit(k + 5)
  BY DEF Sextet

\* Three bytes are four sextets.
LEMMA SextetValue ==
    ASSUME src \in Seq(Byte), NEW m \in Nat
    PROVE  /\ Sextet(4 * m) = ByteAt(3 * m) \div 4
           /\ Sextet(4 * m + 1) = (ByteAt(3 * m) % 4) * 16 + (ByteAt(3 * m + 1) \div 16)
           /\ Sextet(4 * m + 2) = (ByteAt(3 * m + 1) % 16) * 4 + (ByteAt(3 * m + 2) \div 64)
           /\ Sextet(4 * m + 3) = ByteAt(3 * m + 2) % 64
<1> DEFINE a == 8 * (3 * m)
           x == ByteAt(3 * m)
           y == ByteAt(3 * m + 1)
           z == ByteAt(3 * m + 2)
<1>1. x \in Byte /\ y \in Byte /\ z \in Byte /\ a \in Nat
  BY ByteAtType
<1>2. /\ Bit(a) = Of(x, 128) /\ Bit(a + 1) = Of(x, 64)
      /\ Bit(a + 2) = Of(x, 32) /\ Bit(a + 3) = Of(x, 16)
      /\ Bit(a + 4) = Of(x, 8) /\ Bit(a + 5) = Of(x, 4)
      /\ Bit(a + 6) = Of(x, 2) /\ Bit(a + 7) = Of(x, 1)
  <2> DEFINE j == 3 * m
  <2>1. /\ 8 * j = a /\ 8 * j + 1 = a + 1 /\ 8 * j + 2 = a + 2 /\ 8 * j + 3 = a + 3
        /\ 8 * j + 4 = a + 4 /\ 8 * j + 5 = a + 5 /\ 8 * j + 6 = a + 6 /\ 8 * j + 7 = a + 7
    OBVIOUS
  <2>2. j \in Nat /\ x = ByteAt(j)
    OBVIOUS
  <2> HIDE DEF j, a, x
  <2> QED BY <2>1, <2>2, BitsOf
<1>3. /\ Bit(a + 8) = Of(y, 128) /\ Bit(a + 9) = Of(y, 64)
      /\ Bit(a + 10) = Of(y, 32) /\ Bit(a + 11) = Of(y, 16)
      /\ Bit(a + 12) = Of(y, 8) /\ Bit(a + 13) = Of(y, 4)
      /\ Bit(a + 14) = Of(y, 2) /\ Bit(a + 15) = Of(y, 1)
  <2> DEFINE j == 3 * m + 1
  <2>1. /\ 8 * j = a + 8 /\ 8 * j + 1 = a + 9 /\ 8 * j + 2 = a + 10 /\ 8 * j + 3 = a + 11
        /\ 8 * j + 4 = a + 12 /\ 8 * j + 5 = a + 13 /\ 8 * j + 6 = a + 14 /\ 8 * j + 7 = a + 15
    OBVIOUS
  <2>2. j \in Nat /\ y = ByteAt(j)
    OBVIOUS
  <2> HIDE DEF j, a, y
  <2> QED BY <2>1, <2>2, BitsOf
<1>4. /\ Bit(a + 16) = Of(z, 128) /\ Bit(a + 17) = Of(z, 64)
      /\ Bit(a + 18) = Of(z, 32) /\ Bit(a + 19) = Of(z, 16)
      /\ Bit(a + 20) = Of(z, 8) /\ Bit(a + 21) = Of(z, 4)
      /\ Bit(a + 22) = Of(z, 2) /\ Bit(a + 23) = Of(z, 1)
  <2> DEFINE j == 3 * m + 2
  <2>1. /\ 8 * j = a + 16 /\ 8 * j + 1 = a + 17 /\ 8 * j + 2 = a + 18 /\ 8 * j + 3 = a + 19
        /\ 8 * j + 4 = a + 20 /\ 8 * j + 5 = a + 21 /\ 8 * j + 6 = a + 22 /\ 8 * j + 7 = a + 23
    OBVIOUS
  <2>2. j \in Nat /\ z = ByteAt(j)
    OBVIOUS
  <2> HIDE DEF j, a, z
  <2> QED BY <2>1, <2>2, BitsOf
<1> HIDE DEF x, y, z, a
<1>5. Sextet(4 * m) = x \div 4
  <2>1. a = 6 * (4 * m)
    BY DEF a
  <2>2. Sextet(4 * m) = 32 * Bit(a) + 16 * Bit(a + 1) + 8 * Bit(a + 2) + 4 * Bit(a + 3)
                       + 2 * Bit(a + 4) + Bit(a + 5)
    BY <2>1, SextetSum
  <2>3. Sextet(4 * m) = 32 * Of(x, 128) + 16 * Of(x, 64) + 8 * Of(x, 32) + 4 * Of(x, 16)
                       + 2 * Of(x, 8) + Of(x, 4)
    BY <1>2, <1>3, <1>4, <2>2
  <2>4. \A w \in {1, 2, 4, 8, 16, 32, 64, 128} : Of(x, w) \in Int /\ Of(y, w) \in Int /\ Of(z, w) \in Int
    BY <1>1 DEF Of, Byte
  <2> QED BY <1>1, <2>3, <2>4, BitSums
<1>6. Sextet(4 * m + 1) = (x % 4) * 16 + (y \div 16)
  <2>1. a + 6 = 6 * (4 * m + 1)
    BY DEF a
  <2>2. Sextet(4 * m + 1) = 32 * Bit(a + 6) + 16 * Bit(a + 7) + 8 * Bit(a + 8) + 4 * Bit(a + 9)
                       + 2 * Bit(a + 10) + Bit(a + 11)
    <3>1. /\ a + 6 + 1 = a + 7 /\ a + 6 + 2 = a + 8 /\ a + 6 + 3 = a + 9 /\ a + 6 + 4 = a + 10 /\ a + 6 + 5 = a + 11
      BY <1>1
    <3> QED BY <2>1, <3>1, SextetSum
  <2>3. Sextet(4 * m + 1) = 32 * Of(x, 2) + 16 * Of(x, 1) + 8 * Of(y, 128) + 4 * Of(y, 64)
                       + 2 * Of(y, 32) + Of(y, 16)
    BY <1>2, <1>3, <1>4, <2>2
  <2>4. \A w \in {1, 2, 4, 8, 16, 32, 64, 128} : Of(x, w) \in Int /\ Of(y, w) \in Int /\ Of(z, w) \in Int
    BY <1>1 DEF Of, Byte
  <2>5. PICK b1 \in Int, b2 \in Int, b3 \in Int, b4 \in Int, b5 \in Int, b6 \in Int,
           p \in Int, q \in Int :
             /\ b1 = Of(x, 2) /\ b2 = Of(x, 1) /\ b3 = Of(y, 128)
             /\ b4 = Of(y, 64) /\ b5 = Of(y, 32) /\ b6 = Of(y, 16)
             /\ p = (x % 4) * 16 /\ q = y \div 16
    <3>1. (x % 4) * 16 \in Int /\ y \div 16 \in Int
      BY <1>1 DEF Byte
    <3> QED BY <2>4, <3>1
  <2>6. 32 * b1 + 16 * b2 = p /\ 8 * b3 + 4 * b4 + 2 * b5 + b6 = q
    BY <1>1, <2>5, BitSums
  <2>7. Sextet(4 * m + 1) = 32 * b1 + 16 * b2 + 8 * b3 + 4 * b4 + 2 * b5 + b6
    BY <2>3, <2>5
  <2>8. Sextet(4 * m + 1) = p + q
    BY <2>6, <2>7
  <2> QED BY <2>5, <2>8
<1>7. Sextet(4 * m + 2) = (y % 16) * 4 + (z \div 64)
  <2>1. a + 12 = 6 * (4 * m + 2)
    BY DEF a
  <2>2. Sextet(4 * m + 2) = 32 * Bit(a + 12) + 16 * Bit(a + 13) + 8 * Bit(a + 14) + 4 * Bit(a + 15)
                       + 2 * Bit(a + 16) + Bit(a + 17)
    <3>1. /\ a + 12 + 1 = a + 13 /\ a + 12 + 2 = a + 14 /\ a + 12 + 3 = a + 15 /\ a + 12 + 4 = a + 16 /\ a + 12 + 5 = a + 17
      BY <1>1
    <3> QED BY <2>1, <3>1, SextetSum
  <2>3. Sextet(4 * m + 2) = 32 * Of(y, 8) + 16 * Of(y, 4) + 8 * Of(y, 2) + 4 * Of(y, 1)
                       + 2 * Of(z, 128) + Of(z, 64)
    BY <1>2, <1>3, <1>4, <2>2
  <2>4. \A w \in {1, 2, 4, 8, 16, 32, 64, 128} : Of(x, w) \in Int /\ Of(y, w) \in Int /\ Of(z, w) \in Int
    BY <1>1 DEF Of, Byte
  <2>5. PICK b1 \in Int, b2 \in Int, b3 \in Int, b4 \in Int, b5 \in Int, b6 \in Int,
           p \in Int, q \in Int :
             /\ b1 = Of(y, 8) /\ b2 = Of(y, 4) /\ b3 = Of(y, 2)
             /\ b4 = Of(y, 1) /\ b5 = Of(z, 128) /\ b6 = Of(z, 64)
             /\ p = (y % 16) * 4 /\ q = z \div 64
    <3>1. (y % 16) * 4 \in Int /\ z \div 64 \in Int
      BY <1>1 DEF Byte
    <3> QED BY <2>4, <3>1
  <2>6. 32 * b1 + 16 * b2 + 8 * b3 + 4 * b4 = p /\ 2 * b5 + b6 = q
    BY <1>1, <2>5, BitSums
  <2>7. Sextet(4 * m + 2) = 32 * b1 + 16 * b2 + 8 * b3 + 4 * b4 + 2 * b5 + b6
    BY <2>3, <2>5
  <2>8. Sextet(4 * m + 2) = p + q
    BY <2>6, <2>7
  <2> QED BY <2>5, <2>8
<1>8. Sextet(4 * m + 3) = z % 64
  <2>1. a + 18 = 6 * (4 * m + 3)
    BY DEF a
  <2>2. Sextet(4 * m + 3) = 32 * Bit(a + 18) + 16 * Bit(a + 19) + 8 * Bit(a + 20) + 4 * Bit(a + 21)
                       + 2 * Bit(a + 22) + Bit(a + 23)
    <3>1. /\ a + 18 + 1 = a + 19 /\ a + 18 + 2 = a + 20 /\ a + 18 + 3 = a + 21 /\ a + 18 + 4 = a + 22 /\ a + 18 + 5 = a + 23
      BY <1>1
    <3> QED BY <2>1, <3>1, SextetSum
  <2>3. Sextet(4 * m + 3) = 32 * Of(z, 32) + 16 * Of(z, 16) + 8 * Of(z, 8) + 4 * Of(z, 4)
                       + 2 * Of(z, 2) + Of(z, 1)
    BY <1>2, <1>3, <1>4, <2>2
  <2>4. \A w \in {1, 2, 4, 8, 16, 32, 64, 128} : Of(x, w) \in Int /\ Of(y, w) \in Int /\ Of(z, w) \in Int
    BY <1>1 DEF Of, Byte
  <2> QED BY <1>1, <2>3, <2>4, BitSums
<1> QED BY <1>5, <1>6, <1>7, <1>8 DEF x, y, z

\* No two sextets have the same character, and none has '='.
LEMMA TableInjective ==
    ASSUME NEW n \in 0..63
    PROVE  /\ base64_table(n) \in Byte /\ base64_table(n) # Equals
           /\ \A k \in 0..63 : base64_table(k) = base64_table(n) => k = n
  BY DEF base64_table, Byte, Equals

\* dtable inverts the alphabet.
LEMMA TableInverse ==
    /\ \A n \in 0..63 : dtable[base64_table(n)] = n
    /\ dtable[Equals] = 0
    /\ \A c \in Byte : dtable[c] # 128 => dtable[c] \in 0..63
<1>1. ASSUME NEW n \in 0..63 PROVE dtable[base64_table(n)] = n
  <2> DEFINE c == base64_table(n)
  <2>1. c \in 0..255 /\ c # Equals /\ \A k \in 0..63 : base64_table(k) = c => k = n
    BY TableInjective DEF Byte
  <2>2. \E k \in 0..63 : base64_table(k) = c
    OBVIOUS
  <2> HIDE DEF c
  <2>3. (CHOOSE k \in 0..63 : base64_table(k) = c) = n
    BY <2>1, <2>2
  <2>4. dtable[c] = n
    BY <2>1, <2>2, <2>3 DEF dtable
  <2> QED BY <2>4 DEF c
<1>2. dtable[Equals] = 0
  BY DEF dtable, Equals
<1>3. ASSUME NEW c \in Byte, dtable[c] # 128 PROVE dtable[c] \in 0..63
  <2>1. CASE c = Equals
    BY <2>1, <1>2
  <2>2. CASE c # Equals
    <3>1. \E n \in 0..63 : base64_table(n) = c
      BY <1>3, <2>2 DEF dtable, Byte
    <3> QED BY <3>1, <1>1
  <2> QED BY <2>1, <2>2
<1> QED BY <1>1, <1>2, <1>3

\* Unpack undoes what the encoder does to three bytes.
LEMMA UnpackPack ==
    ASSUME NEW x \in Byte, NEW y \in Byte, NEW z \in Byte
    PROVE  Unpack(<<x \div 4, (x % 4) * 16 + (y \div 16), (y % 16) * 4 + (z \div 64), z % 64>>)
             = <<x, y, z>>
<1>1. PICK xh \in 0..63, xl \in 0..3 : x = 4 * xh + xl /\ xh = x \div 4 /\ xl = x % 4
  BY DEF Byte
<1>2. PICK yh \in 0..15, yl \in 0..15 : y = 16 * yh + yl /\ yh = y \div 16 /\ yl = y % 16
  BY DEF Byte
<1>3. PICK zh \in 0..3, zl \in 0..63 : z = 64 * zh + zl /\ zh = z \div 64 /\ zl = z % 64
  BY DEF Byte
<1>4. (xh * 4 + (xl * 16 + yh) \div 16) % 256 = x
  BY <1>1, <1>2
<1>5. (((xl * 16 + yh) * 16) % 256) + ((yl * 4 + zh) \div 4) = y
  BY <1>1, <1>2, <1>3
<1>6. (((yl * 4 + zh) * 64) % 256) + zl = z
  BY <1>2, <1>3
<1>7. Unpack(<<xh, xl * 16 + yh, yl * 4 + zh, zl>>)
       = <<(xh * 4 + (xl * 16 + yh) \div 16) % 256,
           (((xl * 16 + yh) * 16) % 256) + ((yl * 4 + zh) \div 4),
           (((yl * 4 + zh) * 64) % 256) + zl>>
  BY DEF Unpack
<1> QED BY <1>1, <1>2, <1>3, <1>4, <1>5, <1>6, <1>7

-----------------------------------------------------------------------------
\* What the two loops keep.  Encoding: three bytes are four characters.
EncodeInv ==
    /\ src \in Seq(Byte) /\ len \in Nat /\ len < Modulus
    /\ in \in Nat /\ in <= len /\ out \in Seq(Byte)
    /\ pc = "encode" => in = 0 /\ out = <<>>
    /\ pc \in {"block", "encoded"} => Len(src) = len
    /\ pc \in {"block", "encoded", "sized"} => olen \in Nat /\ EncodedSize(len) <= olen
    /\ pc = "block" => 3 * Len(out) = 4 * in
    /\ pc = "encoded" => Len(out) + 1 = EncodedSize(len)

\* The invariant of the encoder bounds what has been written.
LEMMA EncodeInvSuffices == EncodeInv => BufferSuffices
<1> SUFFICES ASSUME EncodeInv PROVE BufferSuffices
  OBVIOUS
<1>1. Len(out) \in Nat
  BY LenProperties DEF EncodeInv
<1>2. ASSUME pc = "block" PROVE Len(out) + 1 <= olen
  <2>1. 4 * ((len + 2) \div 3) + 1 <= olen
    BY <1>2 DEF EncodeInv, EncodedSize
  <2>2. /\ olen \in Nat /\ 3 * Len(out) = 4 * in
        /\ len \in Nat /\ in \in Nat /\ in <= len
    BY <1>2 DEF EncodeInv
  <2> QED BY <1>1, <2>1, <2>2
<1> QED BY <1>2 DEF EncodeInv, BufferSuffices

\* Enumerated data are sequences of numbers, no longer than the bound.
LEMMA StringsType ==
    ASSUME NEW S, S \subseteq Byte, NEW n \in Nat, NEW s \in Strings(S, n)
    PROVE  s \in Seq(Byte) /\ Len(s) \in Nat /\ Len(s) <= n
<1>1. PICK k \in 0..n : s \in [1..k -> S]
  BY DEF Strings
<1>2. k \in Nat /\ k <= n
  OBVIOUS
<1>3. s \in Seq(Byte)
  <2>1. s \in Seq(S)
    BY <1>1, <1>2, SeqDef
  <2> QED BY <2>1, SeqMonotonic
<1>4. Len(s) = k
  BY <1>1, <1>2, <1>3, LenProperties
<1> QED BY <1>2, <1>3, <1>4

\* Before the encoder starts nothing is written.
LEMMA EncodeInit == Init => EncodeInv
<1> SUFFICES ASSUME Init PROVE EncodeInv
  OBVIOUS
<1>1. <<>> \in Seq(Byte)
  BY EmptySeq
<1>2. pc \in {"encode", "decode"} /\ in = 0 /\ out = <<>>
  BY DEF Init
<1>3. src \in Seq(Byte) /\ len \in Nat /\ len < Modulus
  <2>1. /\ Bytes \subseteq Byte /\ MaxLen \in Nat /\ MaxLen < Modulus /\ Modulus \in Nat
        /\ Modulus >= 256 /\ \A n \in Lengths : n \in Nat /\ n < Modulus
    BY Base64Assumption DEF Byte
  <2>2. CASE src \in Strings(Bytes, MaxLen) /\ len = Len(src)
    <3>1. src \in Seq(Byte) /\ Len(src) \in Nat /\ Len(src) <= MaxLen
      BY <2>1, <2>2, StringsType
    <3> QED BY <2>1, <2>2, <3>1
  <2>3. CASE src = <<>> /\ len \in Lengths
    BY <2>1, <2>3, <1>1
  <2>4. CASE src = <<>> /\ len = 0
    BY <2>1, <2>4, <1>1
  <2> QED BY <2>2, <2>3, <2>4 DEF Init
<1> QED BY <1>1, <1>2, <1>3 DEF EncodeInv

\* What the encoder reads is a byte of the data.
LEMMA AtIsByte ==
    ASSUME src \in Seq(Byte), Len(src) = len, in \in Nat, NEW k \in Nat, in + k < len
    PROVE  At(k) = ByteAt(in + k) /\ At(k) \in Byte /\ At(k) \in Nat
<1>1. in + 1 + k = (in + k) + 1 /\ in + k \in Nat
  OBVIOUS
<1>2. At(k) = ByteAt(in + k)
  BY <1>1 DEF At, ByteAt
<1>3. At(k) \in Byte
  BY <1>1, <1>2, ByteAtType
<1>4. Byte \subseteq Nat
  BY DEF Byte
<1> QED BY <1>2, <1>3, <1>4

\* The characters of a block or of the rest of the data are numbers.
LEMMA CharsType ==
    ASSUME NEW x \in Nat, NEW y \in Nat
    PROVE  /\ base64_table(x \div 4) \in Byte
           /\ base64_table((x % 4) * 16) \in Byte
           /\ base64_table((x % 4) * 16 + (y \div 16)) \in Byte
           /\ base64_table((x % 16) * 4) \in Byte
           /\ base64_table((x % 16) * 4 + (y \div 64)) \in Byte
           /\ base64_table(x % 64) \in Byte
<1>1. /\ x \div 4 \in Nat /\ (x % 4) * 16 \in Nat /\ (x % 4) * 16 + (y \div 16) \in Nat
      /\ (x % 16) * 4 \in Nat /\ (x % 16) * 4 + (y \div 64) \in Nat /\ x % 64 \in Nat
  OBVIOUS
<1> QED BY <1>1, TableType

\* Four characters more.
LEMMA AppendFour ==
    ASSUME NEW s \in Seq(Byte), NEW t \in Seq(Byte), Len(t) = 4
    PROVE  s \o t \in Seq(Byte) /\ Len(s \o t) = Len(s) + 4
<1>1. s \o t \in Seq(Byte) /\ Len(s \o t) = Len(s) + Len(t)
  BY ConcatProperties, Zenon
<1> QED BY <1>1, Zenon

\* A turn of the loop writes four characters for three bytes.
LEMMA BlockKeeps == EncodeInv /\ EncodeBlock => EncodeInv'
<1> SUFFICES ASSUME EncodeInv, EncodeBlock PROVE EncodeInv'
  OBVIOUS
<1>1. /\ pc = "block" /\ pc' = "block" /\ UNCHANGED <<src, len, olen>> /\ in' = in + 3
      /\ len - in >= 3 /\ in \in Nat /\ len \in Nat /\ Len(src) = len /\ src \in Seq(Byte)
      /\ out \in Seq(Byte) /\ 3 * Len(out) = 4 * in
  BY DEF EncodeInv, EncodeBlock
<1>2. \A k \in 0..2 : At(k) \in Nat
  BY <1>1, AtIsByte
<1> DEFINE c == <<base64_table(At(0) \div 4),
                  base64_table((At(0) % 4) * 16 + (At(1) \div 16)),
                  base64_table((At(1) % 16) * 4 + (At(2) \div 64)),
                  base64_table(At(2) % 64)>>
<1>3. c \in Seq(Byte) /\ Len(c) = 4
  <2>1. At(0) \in Nat /\ At(1) \in Nat /\ At(2) \in Nat
    BY <1>2
  <2>2. /\ base64_table(At(0) \div 4) \in Byte
        /\ base64_table((At(0) % 4) * 16 + (At(1) \div 16)) \in Byte
        /\ base64_table((At(1) % 16) * 4 + (At(2) \div 64)) \in Byte
        /\ base64_table(At(2) % 64) \in Byte
    BY <2>1, CharsType
  <2> QED BY <2>2
<1>4. out' = out \o c
  BY DEF EncodeBlock
<1> HIDE DEF c
<1>5. out' \in Seq(Byte) /\ Len(out') = Len(out) + 4 /\ Len(out) \in Nat
  <2>1. out \in Seq(Byte)
    BY DEF EncodeInv
  <2>2. Len(out) \in Nat
    BY <2>1, LenProperties
  <2>3. out \o c \in Seq(Byte) /\ Len(out \o c) = Len(out) + 4
    BY <1>3, <2>1, AppendFour
  <2> QED BY <1>4, <2>2, <2>3, Zenon
<1>6. in' \in Nat /\ in' <= len' /\ 3 * Len(out') = 4 * in'
  <2>1. in' = in + 3 /\ len' = len /\ in \in Nat /\ len \in Nat /\ len - in >= 3
    BY <1>1
  <2>2. 3 * Len(out) = 4 * in
    BY <1>1
  <2> QED BY <1>5, <2>1, <2>2
<1>7. EncodedSize(len)' = EncodedSize(len)
  BY <1>1 DEF EncodedSize
<1> QED BY <1>1, <1>5, <1>6, <1>7 DEF EncodeInv

\* The tail completes the text to a multiple of four.
LEMMA TailKeeps == EncodeInv /\ EncodeTail => EncodeInv'
<1> SUFFICES ASSUME EncodeInv, EncodeTail PROVE EncodeInv'
  OBVIOUS
<1>1. /\ pc = "block" /\ pc' = "encoded" /\ UNCHANGED <<src, len, olen, in>>
      /\ len - in < 3 /\ in \in Nat /\ in <= len /\ len \in Nat /\ Len(src) = len
      /\ src \in Seq(Byte) /\ out \in Seq(Byte) /\ 3 * Len(out) = 4 * in
  BY DEF EncodeInv, EncodeTail
<1>2. Len(out) \in Nat
  BY <1>1, LenProperties
<1>3. out \in Seq(Byte)
  BY <1>1
<1>4. len \in Nat /\ in \in Nat /\ 3 * Len(out) = 4 * in
  BY <1>1
<1> DEFINE two == <<base64_table(At(0) \div 4), base64_table((At(0) % 4) * 16), Equals, Equals>>
           one == <<base64_table(At(0) \div 4),
                    base64_table((At(0) % 4) * 16 + (At(1) \div 16)),
                    base64_table((At(1) % 16) * 4), Equals>>
<1>5. out' \in Seq(Byte) /\ Len(out') + 1 = EncodedSize(len)
  <2>1. CASE len - in = 0
    <3>1. out' = out
      BY <2>1 DEF EncodeTail
    <3> QED BY <1>1, <1>2, <2>1, <3>1 DEF EncodedSize
  <2>2. CASE len - in = 1
    <3>1. out' = out \o two
      BY <2>2 DEF EncodeTail
    <3>2. two \in Seq(Byte) /\ Len(two) = 4
      <4>1. At(0) \in Nat
        BY <1>1, <2>2, AtIsByte
      <4>2. base64_table(At(0) \div 4) \in Byte /\ base64_table((At(0) % 4) * 16) \in Byte
        BY <4>1, CharsType
      <4> QED BY <4>2 DEF Equals, Byte
    <3> HIDE DEF two
    <3>3. out \o two \in Seq(Byte) /\ Len(out \o two) = Len(out) + 4
      BY <1>3, <3>2, AppendFour
    <3>4. out' \in Seq(Byte) /\ Len(out') = Len(out) + 4
      BY <3>1, <3>3, Zenon
    <3> QED BY <1>4, <1>2, <2>2, <3>4 DEF EncodedSize
  <2>3. CASE len - in = 2
    <3>1. out' = out \o one
      BY <2>3 DEF EncodeTail
    <3>2. one \in Seq(Byte) /\ Len(one) = 4
      <4>1. At(0) \in Nat /\ At(1) \in Nat
        BY <1>1, <2>3, AtIsByte
      <4>2. /\ base64_table(At(0) \div 4) \in Byte
            /\ base64_table((At(0) % 4) * 16 + (At(1) \div 16)) \in Byte
            /\ base64_table((At(1) % 16) * 4) \in Byte
        BY <4>1, CharsType
      <4> QED BY <4>2 DEF Equals, Byte
    <3> HIDE DEF one
    <3>3. out \o one \in Seq(Byte) /\ Len(out \o one) = Len(out) + 4
      BY <1>3, <3>2, AppendFour
    <3>4. out' \in Seq(Byte) /\ Len(out') = Len(out) + 4
      BY <3>1, <3>3, Zenon
    <3> QED BY <1>4, <1>2, <2>3, <3>4 DEF EncodedSize
  <2> QED BY <1>1, <2>1, <2>2, <2>3
<1>6. EncodedSize(len)' = EncodedSize(len)
  BY <1>1 DEF EncodedSize
<1> QED BY <1>1, <1>5, <1>6 DEF EncodeInv

\* An accepted size covers the whole text.
LEMMA StartKeeps == EncodeInv /\ EncodeStart => EncodeInv'
<1> SUFFICES ASSUME EncodeInv, EncodeStart PROVE EncodeInv'
  OBVIOUS
<1>1. /\ pc = "encode" /\ UNCHANGED <<src, len, in, out>> /\ olen' = SizeFor(len)
      /\ in = 0 /\ out = <<>> /\ len \in Nat /\ len < Modulus
  BY DEF EncodeInv, EncodeStart
<1>2. CASE pc' \in {"refused", "nomem"}
  BY <1>1, <1>2 DEF EncodeInv
<1>3. CASE SizeFor(len) >= len /\ pc' = IF Len(src) # len THEN "sized" ELSE "block"
  <2>1. olen' \in Nat /\ EncodedSize(len) <= olen'
    BY <1>1, <1>3, SizeSuffices
  <2>2. EncodedSize(len)' = EncodedSize(len)
    BY <1>1 DEF EncodedSize
  <2>3. Len(out') = 0
    BY <1>1
  <2>4. pc' = "block" => Len(src') = len'
    BY <1>1, <1>3
  <2>5. pc' \notin {"encode", "encoded"}
    BY <1>3
  <2> QED BY <1>1, <2>1, <2>2, <2>3, <2>4, <2>5 DEF EncodeInv
<1>4. SizeFor(len) \in Int
  BY <1>1, Base64Assumption DEF SizeFor
<1> QED BY <1>1, <1>2, <1>3, <1>4 DEF EncodeStart

\* Every step keeps the invariant; the decoder leaves the encoder's part alone.
LEMMA EncodeStep == EncodeInv /\ [Next]_vars => EncodeInv'
<1> SUFFICES ASSUME EncodeInv, [Next]_vars PROVE EncodeInv'
  OBVIOUS
<1>1. CASE EncodeStart
  BY <1>1, StartKeeps
<1>2. CASE EncodeBlock
  BY <1>2, BlockKeeps
<1>3. CASE EncodeTail
  BY <1>3, TailKeeps
<1>4. CASE Hand
  BY <1>4 DEF EncodeInv, Hand
<1>5. CASE DecodeStart
  BY <1>5 DEF EncodeInv, DecodeStart
<1>6. CASE DecodeSkip
  BY <1>6 DEF EncodeInv, DecodeSkip
<1>7. CASE DecodeChar
  <2>1. /\ UNCHANGED <<src, len, olen, in, out>>
        /\ pc' \in {"refused", "decoded", "decoding"}
    BY <1>7 DEF DecodeChar
  <2> QED BY <2>1 DEF EncodeInv
<1>8. CASE DecodeEnd
  BY <1>8 DEF EncodeInv, DecodeEnd
<1>9. CASE UNCHANGED vars
  BY <1>9 DEF EncodeInv, vars, EncodedSize
<1> QED BY <1>1, <1>2, <1>3, <1>4, <1>5, <1>6, <1>7, <1>8, <1>9 DEF Next

\* The buffer b64_encode allocates holds the text and its terminator at every
\* turn of its loop, whatever the length of the data and the width of size_t;
\* a length for which the size wraps around is refused.
THEOREM BufferSafe == Spec => []BufferSuffices
<1>1. Init => EncodeInv
  BY EncodeInit
<1>2. EncodeInv /\ [Next]_vars => EncodeInv'
  BY EncodeStep
<1>3. EncodeInv => BufferSuffices
  BY EncodeInvSuffices
<1> QED BY <1>1, <1>2, <1>3, PTL DEF Spec

-----------------------------------------------------------------------------
\* What the encoder has written, and the text it is done with.
Written == \A k \in 1..Len(out) : out[k] = base64_table(Sextet(k - 1))
EncodedText ==
    /\ Len(src) = len /\ Len(out) + 1 = EncodedSize(len)
    /\ \A k \in 1..Len(out) :
          out[k] = IF 6 * (k - 1) < 8 * len THEN base64_table(Sextet(k - 1)) ELSE Equals

BitsInv ==
    /\ pc = "block" => Written
    /\ pc \in {"encode", "sized"} => out = <<>>
    /\ pc = "encoded" \/ (pc \notin {"encode", "block", "sized"} /\ out # <<>>) => EncodedText

\* Four characters that continue a text.
LEMMA FourMore ==
    ASSUME NEW m \in Nat, NEW t \in Seq(Byte), Len(t) = 4, out \in Seq(Byte), Len(out) = 4 * m
    PROVE  /\ Len(out \o t) = 4 * m + 4
           /\ \A k \in 1 .. 4 * m + 4 :
                 \/ k <= 4 * m /\ (out \o t)[k] = out[k]
                 \/ \E j \in 1..4 : k = 4 * m + j /\ (out \o t)[k] = t[j]
<1>1. /\ Len(out \o t) = Len(out) + Len(t)
      /\ \A j \in 1 .. Len(out) + Len(t) :
            (out \o t)[j] = IF j <= Len(out) THEN out[j] ELSE t[j - Len(out)]
  BY ConcatProperties
<1> DEFINE n == 4 * m
<1>2. n \in Nat /\ Len(out) = n
  OBVIOUS
<1> HIDE DEF n
<1>3. ASSUME NEW k \in 1 .. n + 4
      PROVE  \/ k <= n /\ (out \o t)[k] = out[k]
             \/ \E j \in 1..4 : k = n + j /\ (out \o t)[k] = t[j]
  <2>1. Len(out) + Len(t) = n + 4
    BY <1>2
  <2>2. (out \o t)[k] = IF k <= n THEN out[k] ELSE t[k - n]
    BY <1>1, <1>2, <2>1
  <2>3. CASE k > n
    <3>1. k - n \in 1..4 /\ k = n + (k - n)
      BY <1>2, <2>3
    <3> QED BY <1>2, <2>2, <2>3, <3>1
  <2> QED BY <1>2, <2>2, <2>3
<1> QED BY <1>1, <1>2, <1>3 DEF n

\* The characters of a whole block are those of its sextets.
LEMMA BlockBits == EncodeInv /\ BitsInv /\ EncodeBlock => BitsInv'
<1> SUFFICES ASSUME EncodeInv, BitsInv, EncodeBlock PROVE BitsInv'
  OBVIOUS
<1>1. /\ pc = "block" /\ pc' = "block" /\ UNCHANGED <<src, len, olen>>
      /\ len - in >= 3 /\ in \in Nat /\ len \in Nat /\ Len(src) = len /\ src \in Seq(Byte)
      /\ out \in Seq(Byte) /\ 3 * Len(out) = 4 * in /\ Written
  BY DEF EncodeInv, BitsInv, EncodeBlock
<1>2. Len(out) \in Nat
  BY <1>1, LenProperties
<1>3. PICK m \in Nat : in = 3 * m /\ Len(out) = 4 * m
  <2>1. Len(out) = 4 * (in \div 3) /\ in = 3 * (in \div 3) /\ in \div 3 \in Nat
    BY <1>1, <1>2
  <2> QED BY <2>1
<1>4. /\ At(0) = ByteAt(3 * m) /\ At(0) \in Nat
      /\ At(1) = ByteAt(3 * m + 1) /\ At(1) \in Nat
      /\ At(2) = ByteAt(3 * m + 2) /\ At(2) \in Nat
  <2>1. in + 0 = 3 * m /\ in + 1 = 3 * m + 1 /\ in + 2 = 3 * m + 2
    BY <1>3
  <2>2. in + 0 < len /\ in + 1 < len /\ in + 2 < len
    BY <1>1
  <2> QED BY <1>1, <2>1, <2>2, AtIsByte
<1> DEFINE c == <<base64_table(At(0) \div 4),
                  base64_table((At(0) % 4) * 16 + (At(1) \div 16)),
                  base64_table((At(1) % 16) * 4 + (At(2) \div 64)),
                  base64_table(At(2) % 64)>>
<1>5. c = <<base64_table(Sextet(4 * m)), base64_table(Sextet(4 * m + 1)),
            base64_table(Sextet(4 * m + 2)), base64_table(Sextet(4 * m + 3))>>
  BY <1>1, <1>4, SextetValue
<1>6. c \in Seq(Byte) /\ Len(c) = 4
  <2>1. /\ base64_table(At(0) \div 4) \in Byte
        /\ base64_table((At(0) % 4) * 16 + (At(1) \div 16)) \in Byte
        /\ base64_table((At(1) % 16) * 4 + (At(2) \div 64)) \in Byte
        /\ base64_table(At(2) % 64) \in Byte
    BY <1>4, CharsType
  <2> QED BY <2>1
<1>7. out' = out \o c
  BY DEF EncodeBlock
<1>8. /\ c[1] = base64_table(Sextet(4 * m)) /\ c[2] = base64_table(Sextet(4 * m + 1))
      /\ c[3] = base64_table(Sextet(4 * m + 2)) /\ c[4] = base64_table(Sextet(4 * m + 3))
  BY <1>5
<1> HIDE DEF c
<1>9. \A k : Sextet(k)' = Sextet(k)
  BY <1>1 DEF Sextet, Bit
<1>10. Len(out') = 4 * m + 4
  BY <1>1, <1>3, <1>6, <1>7, FourMore
<1>11. ASSUME NEW k \in 1 .. 4 * m + 4 PROVE out'[k] = base64_table(Sextet(k - 1))
  <2>1. CASE k <= 4 * m /\ out'[k] = out[k]
    BY <1>1, <1>3, <2>1 DEF Written
  <2>2. ASSUME NEW j \in 1..4, k = 4 * m + j, out'[k] = c[j]
        PROVE  out'[k] = base64_table(Sextet(k - 1))
    <3>1. \/ j = 1 /\ k - 1 = 4 * m
          \/ j = 2 /\ k - 1 = 4 * m + 1
          \/ j = 3 /\ k - 1 = 4 * m + 2
          \/ j = 4 /\ k - 1 = 4 * m + 3
      BY <2>2
    <3> QED BY <1>8, <2>2, <3>1
  <2> QED BY <1>1, <1>3, <1>6, <1>7, <2>1, <2>2, FourMore
<1>12. Written'
  BY <1>9, <1>10, <1>11 DEF Written
<1> QED BY <1>1, <1>12 DEF BitsInv

\* The rest of the data and the padding end the text.
LEMMA TailBits == EncodeInv /\ BitsInv /\ EncodeTail => BitsInv'
<1> SUFFICES ASSUME EncodeInv, BitsInv, EncodeTail PROVE BitsInv'
  OBVIOUS
<1>1. /\ pc = "block" /\ pc' = "encoded" /\ UNCHANGED <<src, len, olen, in>>
      /\ len - in < 3 /\ in \in Nat /\ in <= len /\ len \in Nat /\ Len(src) = len
      /\ src \in Seq(Byte) /\ out \in Seq(Byte) /\ 3 * Len(out) = 4 * in /\ Written
  BY DEF EncodeInv, BitsInv, EncodeTail
<1>2. Len(out) \in Nat
  BY <1>1, LenProperties
<1>3. PICK m \in Nat : in = 3 * m /\ Len(out) = 4 * m
  <2>1. Len(out) = 4 * (in \div 3) /\ in = 3 * (in \div 3) /\ in \div 3 \in Nat
    BY <1>1, <1>2
  <2> QED BY <2>1
<1>4. \A k : Sextet(k)' = Sextet(k)
  BY <1>1 DEF Sextet, Bit
<1>5. EncodedSize(len)' = EncodedSize(len)
  BY <1>1 DEF EncodedSize
<1>6. EncodeInv'
  BY TailKeeps
<1>7. Len(out') + 1 = EncodedSize(len) /\ Len(src') = len'
  BY <1>1, <1>5, <1>6 DEF EncodeInv
<1> DEFINE Char(k) == IF 6 * (k - 1) < 8 * len THEN base64_table(Sextet(k - 1)) ELSE Equals
<1>8. ASSUME NEW k \in 1 .. 4 * m PROVE out[k] = Char(k)
  <2>1. 6 * (k - 1) < 8 * len
    BY <1>1, <1>3
  <2> QED BY <1>1, <1>3, <2>1 DEF Written
<1>9. \A k \in 1..Len(out') : out'[k] = Char(k)
  <2>1. CASE len - in = 0
    <3>1. out' = out
      BY <2>1 DEF EncodeTail
    <3> QED BY <1>3, <1>8, <3>1
  <2>2. CASE len - in = 1
    <3>1. len = 3 * m + 1 /\ in + 0 = 3 * m /\ in + 0 < len
      BY <1>1, <1>3, <2>2
    <3>2. At(0) = ByteAt(3 * m) /\ At(0) \in Nat
      BY <1>1, <3>1, AtIsByte
    <3>3. ByteAt(3 * m + 1) = 0
      BY <1>1, <3>1 DEF ByteAt
    <3> DEFINE c == <<base64_table(At(0) \div 4), base64_table((At(0) % 4) * 16), Equals, Equals>>
    <3>4. out' = out \o c
      BY <2>2 DEF EncodeTail
    <3>5. c \in Seq(Byte) /\ Len(c) = 4
      <4>1. base64_table(At(0) \div 4) \in Byte /\ base64_table((At(0) % 4) * 16) \in Byte
        BY <3>2, CharsType
      <4> QED BY <4>1 DEF Equals, Byte
    <3>6. Sextet(4 * m) = At(0) \div 4 /\ Sextet(4 * m + 1) = (At(0) % 4) * 16
      <4>1. /\ Sextet(4 * m) = ByteAt(3 * m) \div 4
            /\ Sextet(4 * m + 1) = (ByteAt(3 * m) % 4) * 16 + (ByteAt(3 * m + 1) \div 16)
        BY <1>1, SextetValue
      <4> QED BY <3>2, <3>3, <4>1
    <3>7. /\ c[1] = base64_table(Sextet(4 * m)) /\ c[2] = base64_table(Sextet(4 * m + 1))
          /\ c[3] = Equals /\ c[4] = Equals
      BY <3>6
    <3> HIDE DEF c
    <3>8. ASSUME NEW k \in 1 .. 4 * m + 4, NEW j \in 1..4, k = 4 * m + j, out'[k] = c[j]
          PROVE  out'[k] = Char(k)
      <4>1. \/ j = 1 /\ k - 1 = 4 * m /\ 6 * (k - 1) < 8 * len
            \/ j = 2 /\ k - 1 = 4 * m + 1 /\ 6 * (k - 1) < 8 * len
            \/ j \in {3, 4} /\ ~(6 * (k - 1) < 8 * len)
        BY <3>1, <3>8
      <4> QED BY <3>7, <3>8, <4>1
    <3> HIDE DEF Char
    <3> QED BY <1>1, <1>3, <1>8, <3>4, <3>5, <3>8, FourMore
  <2>3. CASE len - in = 2
    <3>1. /\ len = 3 * m + 2 /\ in + 0 = 3 * m /\ in + 1 = 3 * m + 1
          /\ in + 0 < len /\ in + 1 < len
      BY <1>1, <1>3, <2>3
    <3>2. /\ At(0) = ByteAt(3 * m) /\ At(0) \in Nat
          /\ At(1) = ByteAt(3 * m + 1) /\ At(1) \in Nat
      BY <1>1, <3>1, AtIsByte
    <3>3. ByteAt(3 * m + 2) = 0
      BY <1>1, <3>1 DEF ByteAt
    <3> DEFINE c == <<base64_table(At(0) \div 4),
                      base64_table((At(0) % 4) * 16 + (At(1) \div 16)),
                      base64_table((At(1) % 16) * 4), Equals>>
    <3>4. out' = out \o c
      BY <2>3 DEF EncodeTail
    <3>5. c \in Seq(Byte) /\ Len(c) = 4
      <4>1. /\ base64_table(At(0) \div 4) \in Byte
            /\ base64_table((At(0) % 4) * 16 + (At(1) \div 16)) \in Byte
            /\ base64_table((At(1) % 16) * 4) \in Byte
        BY <3>2, CharsType
      <4> QED BY <4>1 DEF Equals, Byte
    <3>6. /\ Sextet(4 * m) = At(0) \div 4
          /\ Sextet(4 * m + 1) = (At(0) % 4) * 16 + (At(1) \div 16)
          /\ Sextet(4 * m + 2) = (At(1) % 16) * 4
      <4>1. /\ Sextet(4 * m) = ByteAt(3 * m) \div 4
            /\ Sextet(4 * m + 1) = (ByteAt(3 * m) % 4) * 16 + (ByteAt(3 * m + 1) \div 16)
            /\ Sextet(4 * m + 2) = (ByteAt(3 * m + 1) % 16) * 4 + (ByteAt(3 * m + 2) \div 64)
        BY <1>1, SextetValue
      <4> QED BY <3>2, <3>3, <4>1
    <3>7. /\ c[1] = base64_table(Sextet(4 * m)) /\ c[2] = base64_table(Sextet(4 * m + 1))
          /\ c[3] = base64_table(Sextet(4 * m + 2)) /\ c[4] = Equals
      BY <3>6
    <3> HIDE DEF c
    <3>8. ASSUME NEW k \in 1 .. 4 * m + 4, NEW j \in 1..4, k = 4 * m + j, out'[k] = c[j]
          PROVE  out'[k] = Char(k)
      <4>1. \/ j = 1 /\ k - 1 = 4 * m /\ 6 * (k - 1) < 8 * len
            \/ j = 2 /\ k - 1 = 4 * m + 1 /\ 6 * (k - 1) < 8 * len
            \/ j = 3 /\ k - 1 = 4 * m + 2 /\ 6 * (k - 1) < 8 * len
            \/ j = 4 /\ ~(6 * (k - 1) < 8 * len)
        BY <3>1, <3>8
      <4> QED BY <3>7, <3>8, <4>1
    <3> HIDE DEF Char
    <3> QED BY <1>1, <1>3, <1>8, <3>4, <3>5, <3>8, FourMore
  <2> QED BY <1>1, <2>1, <2>2, <2>3
<1>10. EncodedText'
  BY <1>1, <1>4, <1>5, <1>7, <1>9 DEF EncodedText
<1> QED BY <1>1, <1>10 DEF BitsInv

\* Every step keeps what the encoder has written.
LEMMA BitsStep == EncodeInv /\ BitsInv /\ [Next]_vars => BitsInv'
<1> SUFFICES ASSUME EncodeInv, BitsInv, [Next]_vars PROVE BitsInv'
  OBVIOUS
<1>1. CASE EncodeStart
  <2>1. out = <<>> /\ out' = out /\ src' = src /\ pc' \in {"refused", "nomem", "sized", "block"}
    BY <1>1 DEF EncodeStart, EncodeInv
  <2>2. Len(out') = 0
    BY <2>1
  <2>3. Written'
    BY <2>2 DEF Written
  <2> QED BY <2>1, <2>3 DEF BitsInv
<1>2. CASE EncodeBlock
  BY <1>2, BlockBits
<1>3. CASE EncodeTail
  BY <1>3, TailBits
<1>4. CASE Hand \/ DecodeStart \/ DecodeSkip \/ DecodeChar \/ DecodeEnd
  <2>1. /\ UNCHANGED <<src, len, out>>
        /\ pc \in {"encoded", "decode", "decoding"}
        /\ pc' \in {"decode", "decoding", "decoded", "refused", "nomem"}
    BY <1>4 DEF Hand, DecodeStart, DecodeSkip, DecodeChar, DecodeEnd
  <2>2. EncodedText => EncodedText'
    BY <2>1 DEF EncodedText, EncodedSize, Sextet, Bit
  <2> QED BY <2>1, <2>2 DEF BitsInv
<1>5. CASE UNCHANGED vars
  <2>1. EncodedText => EncodedText'
    BY <1>5 DEF EncodedText, EncodedSize, Sextet, Bit, vars
  <2>2. Written => Written'
    BY <1>5 DEF Written, Sextet, Bit, vars
  <2> QED BY <1>5, <2>1, <2>2 DEF BitsInv, vars
<1> QED BY <1>1, <1>2, <1>3, <1>4, <1>5 DEF Next

\* Nothing is written before the encoder starts.
LEMMA BitsInit == Init => BitsInv
<1> SUFFICES ASSUME Init PROVE BitsInv
  OBVIOUS
<1>1. pc \in {"encode", "decode"} /\ out = <<>>
  BY DEF Init
<1> QED BY <1>1 DEF BitsInv

\* The two invariants hold for ever.
LEMMA EncoderAlways == Spec => [](EncodeInv /\ BitsInv)
<1>1. Init => EncodeInv /\ BitsInv
  BY EncodeInit, BitsInit
<1>2. EncodeInv /\ BitsInv /\ [Next]_vars => (EncodeInv /\ BitsInv)'
  BY EncodeStep, BitsStep
<1> QED BY <1>1, <1>2, PTL DEF Spec

\* The text that b64_encode returns is that of RFC 4648, bit for bit, for data
\* of every length and content.
THEOREM EncodingCorrect == Spec => []EncodesBits
<1>1. EncodeInv /\ BitsInv => EncodesBits
  <2> SUFFICES ASSUME EncodeInv, BitsInv, pc = "encoded"
               PROVE  /\ Len(out) = EncodedSize(len) - 1
                      /\ \A k \in 0 .. Len(out) - 1 :
                            out[k + 1] = IF 6 * k < 8 * len THEN base64_table(Sextet(k)) ELSE Equals
    BY DEF EncodesBits
  <2>1. EncodedText /\ Len(out) \in Nat /\ len \in Nat
    BY LenProperties DEF BitsInv, EncodeInv
  <2>2. EncodedSize(len) \in Int
    BY <2>1 DEF EncodedSize
  <2>3. ASSUME NEW k \in 0 .. Len(out) - 1
        PROVE  out[k + 1] = IF 6 * k < 8 * len THEN base64_table(Sextet(k)) ELSE Equals
    <3>1. k + 1 \in 1..Len(out) /\ (k + 1) - 1 = k
      BY <2>1
    <3> QED BY <2>1, <3>1 DEF EncodedText
  <2> QED BY <2>1, <2>2, <2>3 DEF EncodedText
<1> QED BY <1>1, EncoderAlways, PTL

-----------------------------------------------------------------------------
\* The characters of the alphabet among the first j.
Taken(j) == {k \in Accepted : k <= j}

\* What the decoder keeps: four characters of the alphabet are three bytes, and
\* padding only occurs in the block at hand.
DecodeInv ==
    /\ text \in Seq(Byte) /\ i \in Nat /\ i <= Len(text) /\ bytes \in Seq(Nat)
    /\ block \in Seq(0..63) /\ Len(block) < 4 /\ pad \in 0..4 /\ olen \in Nat
    /\ pc \in {"encode", "block", "encoded", "sized", "decode"} =>
          i = 0 /\ block = <<>> /\ pad = 0 /\ bytes = <<>>
    /\ pc = "decoding" =>
          /\ pad <= Len(block)
          /\ 4 * Len(bytes) = 3 * (Cardinality(Taken(i)) - Len(block))
          /\ 4 * olen = 3 * Cardinality(Accepted)
    /\ pc = "decoded" => Len(bytes) <= olen

\* The accepted characters are finitely many, and those of a prefix are no more.
LEMMA TakenFinite ==
    ASSUME text \in Seq(Byte), NEW j \in Nat
    PROVE  /\ IsFiniteSet(Accepted) /\ IsFiniteSet(Taken(j))
           /\ Cardinality(Accepted) \in Nat /\ Cardinality(Taken(j)) \in Nat
           /\ Cardinality(Taken(j)) <= Cardinality(Accepted)
<1>1. Len(text) \in Nat /\ DOMAIN text = 1..Len(text)
  BY LenProperties
<1>2. IsFiniteSet(1..Len(text))
  BY <1>1, FS_Interval
<1>3. IsFiniteSet(Accepted)
  BY <1>1, <1>2, FS_Subset DEF Accepted
<1>4. Taken(j) \in SUBSET Accepted
  BY DEF Taken
<1> QED BY <1>3, <1>4, FS_Subset, FS_CardinalityType

\* The next character adds one to them or none.
LEMMA TakenNext ==
    ASSUME text \in Seq(Byte), NEW j \in Nat, j < Len(text)
    PROVE  /\ dtable[text[j + 1]] = 128 => Taken(j + 1) = Taken(j)
           /\ dtable[text[j + 1]] # 128 => Cardinality(Taken(j + 1)) = Cardinality(Taken(j)) + 1
<1>1. Len(text) \in Nat /\ DOMAIN text = 1..Len(text)
  BY LenProperties
<1>2. \A k \in Accepted : k \in Nat /\ (k <= j + 1 <=> k <= j \/ k = j + 1)
  BY <1>1 DEF Accepted
<1>3. ASSUME dtable[text[j + 1]] = 128 PROVE Taken(j + 1) = Taken(j)
  <2>1. j + 1 \notin Accepted
    BY <1>3 DEF Accepted
  <2> QED BY <1>2, <2>1 DEF Taken
<1>4. ASSUME dtable[text[j + 1]] # 128
      PROVE  Cardinality(Taken(j + 1)) = Cardinality(Taken(j)) + 1
  <2>1. j + 1 \in Accepted
    BY <1>1, <1>4 DEF Accepted
  <2>2. Taken(j + 1) = Taken(j) \cup {j + 1} /\ j + 1 \notin Taken(j)
    BY <1>2, <2>1 DEF Taken
  <2> QED BY <2>2, TakenFinite, FS_AddElement
<1> QED BY <1>3, <1>4

\* Before the first character none is taken.
LEMMA TakenNone ==
    ASSUME text \in Seq(Byte) PROVE Cardinality(Taken(0)) = 0
<1>1. DOMAIN text = 1..Len(text) /\ Len(text) \in Nat
  BY LenProperties
<1>2. Taken(0) = {}
  BY <1>1 DEF Taken, Accepted
<1> QED BY <1>2, FS_EmptySet

\* There is room for the block at hand, and for the bytes of those before it.
LEMMA DecodeInvFits == DecodeInv => DecodeFits
<1> SUFFICES ASSUME DecodeInv PROVE DecodeFits
  OBVIOUS
<1>1. Len(bytes) \in Nat /\ Len(block) \in Nat /\ olen \in Nat /\ (block # <<>> => Len(block) > 0)
  BY LenProperties, EmptySeq DEF DecodeInv
<1>2. ASSUME pc = "decoding"
      PROVE  Len(bytes) <= olen /\ (block # <<>> => Len(bytes) + 3 <= olen)
  <2>1. /\ Cardinality(Accepted) \in Nat /\ Cardinality(Taken(i)) \in Nat
        /\ Cardinality(Taken(i)) <= Cardinality(Accepted)
    BY TakenFinite DEF DecodeInv
  <2>2. PICK n \in Nat, a \in Nat : n = Cardinality(Taken(i)) /\ a = Cardinality(Accepted)
    BY <2>1
  <2>3. PICK l \in Nat, b \in Nat : l = Len(bytes) /\ b = Len(block)
    BY <1>1
  <2>4. n <= a /\ 4 * l = 3 * (n - b) /\ 4 * olen = 3 * a /\ b < 4
    BY <1>2, <2>1, <2>2, <2>3 DEF DecodeInv
  <2>5. l <= olen /\ (b > 0 => l + 3 <= olen)
    BY <1>1, <2>4
  <2> QED BY <1>1, <2>3, <2>5
<1> QED BY <1>2 DEF DecodeFits, DecodeInv

\* A block of four characters is three numbers.
LEMMA UnpackType ==
    ASSUME NEW b \in Seq(0..63), Len(b) = 4
    PROVE  Unpack(b) \in Seq(Nat) /\ Len(Unpack(b)) = 3
<1>1. 1 \in 1..Len(b) /\ 2 \in 1..Len(b) /\ 3 \in 1..Len(b) /\ 4 \in 1..Len(b)
  OBVIOUS
<1>2. b[1] \in 0..63 /\ b[2] \in 0..63 /\ b[3] \in 0..63 /\ b[4] \in 0..63
  BY <1>1, ElementOfSeq
<1>3. PICK s \in 0..63, t \in 0..63, u \in 0..63, v \in 0..63 :
          s = b[1] /\ t = b[2] /\ u = b[3] /\ v = b[4]
  BY <1>2
<1>4. /\ (s * 4 + t \div 16) % 256 \in Nat
      /\ ((t * 16) % 256) + u \div 4 \in Nat
      /\ ((u * 64) % 256) + v \in Nat
  OBVIOUS
<1>5. Unpack(b) = <<(s * 4 + t \div 16) % 256, ((t * 16) % 256) + u \div 4,
                    ((u * 64) % 256) + v>>
  BY <1>3 DEF Unpack
<1> QED BY <1>4, <1>5

\* Three bytes more.
LEMMA AppendThree ==
    ASSUME NEW s \in Seq(Nat), NEW t \in Seq(Nat), Len(t) = 3
    PROVE  s \o t \in Seq(Nat) /\ Len(s \o t) = Len(s) + 3
<1>1. s \o t \in Seq(Nat) /\ Len(s \o t) = Len(s) + Len(t)
  BY ConcatProperties, Zenon
<1> QED BY <1>1, Zenon

\* A character of the alphabet.
LEMMA DecodeCharKeeps == DecodeInv /\ DecodeChar => DecodeInv'
<1> SUFFICES ASSUME DecodeInv, DecodeChar PROVE DecodeInv'
  OBVIOUS
<1> DEFINE c    == text[i + 1]
           next == Append(block, dtable[c])
           p    == IF c = Equals THEN pad + 1 ELSE pad
           full == Len(next) = 4
           all  == bytes \o Unpack(next)
<1>1. /\ pc = "decoding" /\ i < Len(text) /\ dtable[c] # 128 /\ i' = i + 1
      /\ UNCHANGED <<src, len, olen, in, out, text>>
      /\ pad' = p /\ block' = (IF full THEN <<>> ELSE next)
      /\ bytes' = (IF ~full THEN bytes ELSE IF p \in {1, 2} THEN SubSeq(all, 1, Len(all) - p) ELSE all)
      /\ pc' = (IF full /\ p > 2 THEN "refused" ELSE IF full /\ p > 0 THEN "decoded" ELSE "decoding")
  BY DEF DecodeChar
<1>2. /\ text \in Seq(Byte) /\ i \in Nat /\ bytes \in Seq(Nat) /\ block \in Seq(0..63)
      /\ Len(block) < 4 /\ pad \in 0..4 /\ olen \in Nat /\ pad <= Len(block)
      /\ 4 * Len(bytes) = 3 * (Cardinality(Taken(i)) - Len(block))
      /\ 4 * olen = 3 * Cardinality(Accepted)
  BY <1>1 DEF DecodeInv
<1>3. Len(text) \in Nat /\ Len(block) \in Nat /\ Len(bytes) \in Nat
  BY <1>2, LenProperties
<1>4. c \in Byte /\ dtable[c] \in 0..63
  <2>1. c \in Byte
    BY <1>1, <1>2, <1>3, ElementOfSeq
  <2> QED BY <1>1, <2>1, TableInverse
<1>5. next \in Seq(0..63) /\ Len(next) = Len(block) + 1
  BY <1>2, <1>4, AppendProperties
<1>a. Len(next) = 4 <=> Len(block) = 3
  <2>1. PICK l \in Nat : l = Len(block)
    BY <1>3
  <2>2. Len(next) = l + 1
    BY <1>5, <2>1
  <2>3. Len(next) = 4 <=> l = 3
    BY <2>2
  <2> QED BY <2>1, <2>3
<1>6. p \in Nat /\ p <= Len(block) + 1 /\ p <= 4
  BY <1>2, <1>3
<1>7. /\ Cardinality(Taken(i + 1)) = Cardinality(Taken(i)) + 1
      /\ Cardinality(Taken(i)) \in Nat /\ Cardinality(Accepted) \in Nat
      /\ Cardinality(Taken(i + 1)) <= Cardinality(Accepted)
  <2>1. i + 1 \in Nat
    BY <1>2
  <2>2. Cardinality(Taken(i + 1)) = Cardinality(Taken(i)) + 1
    BY <1>1, <1>2, TakenNext
  <2> QED BY <1>2, <2>1, <2>2, TakenFinite
<1>8. Accepted' = Accepted /\ Taken(i)' = Taken(i + 1)
  BY <1>1 DEF Accepted, Taken
<1>9. full => all \in Seq(Nat) /\ Len(all) = Len(bytes) + 3
  <2> SUFFICES ASSUME full PROVE all \in Seq(Nat) /\ Len(all) = Len(bytes) + 3
    OBVIOUS
  <2>1. Unpack(next) \in Seq(Nat) /\ Len(Unpack(next)) = 3
    BY <1>5, UnpackType
  <2>2. bytes \in Seq(Nat)
    BY <1>2
  <2> HIDE DEF next
  <2> QED BY <2>1, <2>2, AppendThree
<1> HIDE DEF c, next, p, all
<1>10. CASE ~full
  <2>1. /\ block' = next /\ bytes' = bytes /\ pc' = "decoding" /\ Len(next) < 4
    BY <1>1, <1>2, <1>3, <1>5, <1>10
  <2>2. 4 * Len(bytes) = 3 * (Cardinality(Taken(i + 1)) - Len(next))
    BY <1>2, <1>3, <1>5, <1>7
  <2>3. i' \in Nat /\ i' <= Len(text') /\ pad' \in 0..4 /\ pad' <= Len(next)
    BY <1>1, <1>2, <1>3, <1>5, <1>6
  <2> QED BY <1>1, <1>2, <1>5, <1>8, <2>1, <2>2, <2>3 DEF DecodeInv
<1>11. CASE full
  <2>1. block' = <<>> /\ <<>> \in Seq(0..63) /\ Len(<<>>) = 0
    BY <1>1, <1>11, EmptySeq
  <2>2. i' \in Nat /\ i' <= Len(text') /\ pad' \in 0..4
    BY <1>1, <1>2, <1>3, <1>6
  <2>3. bytes' \in Seq(Nat) /\ Len(bytes') <= Len(bytes) + 3
        /\ (p = 0 => Len(bytes') = Len(bytes) + 3)
    <3>1. CASE p \in {1, 2}
      <4>1. bytes' = SubSeq(all, 1, Len(all) - p) /\ Len(all) - p \in Int /\ 1 \in Int
        BY <1>1, <1>3, <1>9, <1>11, <3>1
      <4>2. \A j \in 1 .. Len(all) - p : all[j] \in Nat
        <5>1. ASSUME NEW j \in 1 .. Len(all) - p PROVE j \in 1..Len(all)
          BY <1>3, <1>6, <1>9, <1>11
        <5> QED BY <1>9, <1>11, <5>1, ElementOfSeq
      <4>3. /\ SubSeq(all, 1, Len(all) - p) \in Seq(Nat)
            /\ Len(SubSeq(all, 1, Len(all) - p))
                 = IF 1 <= Len(all) - p THEN Len(all) - p - 1 + 1 ELSE 0
        BY <4>1, <4>2, SubSeqProperties
      <4> QED BY <1>3, <1>9, <1>11, <3>1, <4>1, <4>3
    <3>2. CASE p \notin {1, 2}
      BY <1>1, <1>3, <1>9, <1>11, <3>2
    <3> QED BY <3>1, <3>2
  <2>4. Len(bytes) + 3 <= olen /\ Len(bytes') \in Nat
    <3>1. Len(block) = 3
      BY <1>a, <1>11
    <3>2. PICK n \in Nat, a \in Nat, l \in Nat :
              n = Cardinality(Taken(i)) /\ a = Cardinality(Accepted) /\ l = Len(bytes)
      BY <1>3, <1>7
    <3>3. n + 1 <= a /\ 4 * l = 3 * (n - 3) /\ 4 * olen = 3 * a
      BY <1>2, <1>7, <3>1, <3>2
    <3>4. l + 3 <= olen
      BY <1>2, <3>3
    <3> QED BY <2>3, <3>2, <3>4, LenProperties
  <2>5. pc' \in {"refused", "decoded", "decoding"} /\ (pc' = "decoding" => p = 0)
    BY <1>1, <1>6, <1>11
  <2>6. pc' = "decoding" =>
          /\ pad' <= Len(block')
          /\ 4 * Len(bytes') = 3 * (Cardinality(Taken(i + 1)) - Len(block'))
    <3>1. ASSUME pc' = "decoding" PROVE pad' = 0 /\ Len(bytes') = Len(bytes) + 3
      BY <1>1, <2>3, <2>5, <3>1
    <3>2. Len(block) = 3 /\ Len(block') = 0
      BY <1>a, <1>11, <2>1
    <3>3. 4 * (Len(bytes) + 3) = 3 * (Cardinality(Taken(i + 1)) - 0)
      <4>1. PICK n \in Nat, l \in Nat : n = Cardinality(Taken(i)) /\ l = Len(bytes)
        BY <1>3, <1>7
      <4>2. 4 * l = 3 * (n - 3) /\ Cardinality(Taken(i + 1)) = n + 1
        BY <1>2, <1>7, <3>2, <4>1
      <4> QED BY <4>1, <4>2
    <3> QED BY <3>1, <3>2, <3>3
  <2>7. Len(bytes') <= olen
    BY <1>2, <1>3, <2>3, <2>4
  <2> QED BY <1>1, <1>2, <1>8, <2>1, <2>2, <2>3, <2>5, <2>6, <2>7 DEF DecodeInv
<1> QED BY <1>10, <1>11

\* A character put into a text, after k others.
Spliced(t, s, k, c) ==
    /\ Len(t) = Len(s) + 1
    /\ \A j \in 1 .. Len(s) + 1 :
          t[j] = IF j <= k THEN s[j] ELSE IF j = k + 1 THEN c ELSE s[j - 1]

LEMMA Inserted ==
    ASSUME NEW s \in Seq(Byte), NEW c \in Byte, NEW k \in 0..Len(s), NEW t,
           t = SubSeq(s, 1, k) \o <<c>> \o SubSeq(s, k + 1, Len(s))
    PROVE  t \in Seq(Byte) /\ Spliced(t, s, k, c)
<1> DEFINE a == SubSeq(s, 1, k)
           b == SubSeq(s, k + 1, Len(s))
           u == a \o <<c>>
<1>1. Len(s) \in Nat /\ k \in Nat /\ k <= Len(s) /\ k + 1 \in Int /\ Len(s) \in Int
      /\ \A j \in 1..Len(s) : s[j] \in Byte
  BY LenProperties, ElementOfSeq
<1>2. /\ a \in Seq(Byte) /\ Len(a) = k
      /\ \A j \in 1..k : a[j] = s[j]
  <2>1. \A j \in 1..k : s[j] \in Byte
    BY <1>1
  <2>2. /\ a \in Seq(Byte) /\ Len(a) = (IF 1 <= k THEN k - 1 + 1 ELSE 0)
        /\ \A j \in 1 .. k - 1 + 1 : a[j] = s[1 + j - 1]
    BY <1>1, <2>1, SubSeqProperties
  <2>3. Len(a) = k
    BY <1>1, <2>2
  <2>4. ASSUME NEW j \in 1..k PROVE a[j] = s[j]
    <3>1. j \in 1 .. k - 1 + 1 /\ 1 + j - 1 = j
      BY <1>1
    <3> QED BY <2>2, <3>1
  <2> QED BY <2>2, <2>3, <2>4
<1>3. /\ b \in Seq(Byte) /\ Len(b) = Len(s) - k
      /\ \A j \in 1 .. Len(s) - k : b[j] = s[k + j]
  <2>1. \A j \in k + 1 .. Len(s) : s[j] \in Byte
    BY <1>1
  <2>2. /\ b \in Seq(Byte) /\ Len(b) = (IF k + 1 <= Len(s) THEN Len(s) - (k + 1) + 1 ELSE 0)
        /\ \A j \in 1 .. Len(s) - (k + 1) + 1 : b[j] = s[k + 1 + j - 1]
    BY <1>1, <2>1, SubSeqProperties
  <2>3. Len(b) = Len(s) - k
    BY <1>1, <2>2
  <2>4. ASSUME NEW j \in 1 .. Len(s) - k PROVE b[j] = s[k + j]
    <3>1. j \in 1 .. Len(s) - (k + 1) + 1 /\ k + 1 + j - 1 = k + j
      BY <1>1
    <3> QED BY <2>2, <3>1
  <2> QED BY <2>2, <2>3, <2>4
<1> HIDE DEF a, b
<1>4. <<c>> \in Seq(Byte) /\ Len(<<c>>) = 1 /\ <<c>>[1] = c
  OBVIOUS
<1>5. /\ u \in Seq(Byte) /\ Len(u) = k + 1
      /\ \A j \in 1 .. k + 1 : u[j] = IF j <= k THEN s[j] ELSE c
  <2>1. /\ u \in Seq(Byte) /\ Len(u) = Len(a) + Len(<<c>>)
        /\ \A j \in 1 .. Len(a) + Len(<<c>>) :
              u[j] = IF j <= Len(a) THEN a[j] ELSE <<c>>[j - Len(a)]
    BY <1>2, <1>4, ConcatProperties
  <2>2. Len(u) = k + 1
    BY <1>2, <1>4, <2>1
  <2>3. ASSUME NEW j \in 1 .. k + 1 PROVE u[j] = IF j <= k THEN s[j] ELSE c
    <3>1. u[j] = IF j <= k THEN a[j] ELSE <<c>>[j - k]
      BY <1>2, <1>4, <2>1
    <3>2. j <= k \/ j - k = 1
      BY <1>1
    <3> QED BY <1>1, <1>2, <1>4, <3>1, <3>2
  <2> QED BY <2>1, <2>2, <2>3
<1> HIDE DEF u
<1>6. t = u \o b
  BY DEF u, a, b
<1> DEFINE v == u \o b
<1>7. /\ v \in Seq(Byte) /\ Len(v) = Len(u) + Len(b)
      /\ \A j \in 1 .. Len(u) + Len(b) :
            v[j] = IF j <= Len(u) THEN u[j] ELSE b[j - Len(u)]
  <2>1. u \in Seq(Byte) /\ b \in Seq(Byte)
    BY <1>3, <1>5
  <2> QED BY <2>1, ConcatProperties
<1>v. t = v
  BY <1>6
<1> HIDE DEF v
<1>8. Len(u) + Len(b) = Len(s) + 1
  BY <1>1, <1>3, <1>5
<1>9. ASSUME NEW j \in 1 .. Len(s) + 1
      PROVE  v[j] = IF j <= k THEN s[j] ELSE IF j = k + 1 THEN c ELSE s[j - 1]
  <2>1. v[j] = IF j <= k + 1 THEN u[j] ELSE b[j - (k + 1)]
    BY <1>5, <1>7, <1>8
  <2>2. CASE j <= k + 1
    <3>1. j \in 1 .. k + 1 /\ (j <= k \/ j = k + 1)
      BY <1>1, <2>2
    <3>2. u[j] = IF j <= k THEN s[j] ELSE c
      BY <1>5, <3>1
    <3> QED BY <2>1, <2>2, <3>1, <3>2
  <2>3. CASE j > k + 1
    <3>1. j - (k + 1) \in 1 .. Len(s) - k /\ k + (j - (k + 1)) = j - 1
      BY <1>1, <2>3
    <3>2. ~(j <= k) /\ j # k + 1 /\ ~(j <= k + 1)
      BY <1>1, <2>3
    <3>3. b[j - (k + 1)] = s[k + (j - (k + 1))]
      BY <1>3, <3>1
    <3> QED BY <2>1, <3>1, <3>2, <3>3
  <2> QED BY <1>1, <2>2, <2>3
<1>10. t \in Seq(Byte) /\ Len(t) = Len(s) + 1
  BY <1>v, <1>7, <1>8
<1>11. \A j \in 1 .. Len(s) + 1 :
          t[j] = IF j <= k THEN s[j] ELSE IF j = k + 1 THEN c ELSE s[j - 1]
  BY <1>v, <1>9, Zenon
<1> QED BY <1>10, <1>11, Zenon DEF Spliced

\* What is handed to the decoder.
LEMMA HandText ==
    ASSUME out \in Seq(Byte), Hand
    PROVE  /\ text' \in Seq(Byte)
           /\ \/ text' = out
              \/ \E k \in 0..Len(out), c \in Byte : dtable[c] = 128 /\ Spliced(text', out, k, c)
<1>1. CASE text' = out
  BY <1>1
<1>2. CASE \E c \in Foreign, k \in 0..Len(out) :
             text' = SubSeq(out, 1, k) \o <<c>> \o SubSeq(out, k + 1, Len(out))
  <2>1. PICK c \in Foreign, k \in 0..Len(out) :
             text' = SubSeq(out, 1, k) \o <<c>> \o SubSeq(out, k + 1, Len(out))
    BY <1>2
  <2>2. c \in Byte /\ dtable[c] = 128
    BY Base64Assumption, ForeignAssumption DEF Byte
  <2>3. text' \in Seq(Byte) /\ Spliced(text', out, k, c)
    BY <2>1, <2>2, Inserted, Zenon
  <2> QED BY <2>2, <2>3
<1> QED BY <1>1, <1>2 DEF Hand

\* A computed size is a number.
LEMMA SizeType == ASSUME NEW n \in Nat PROVE SizeFor(n) \in Nat
<1> DEFINE w == (n * 4) % Modulus
           a == (w \div 3 + 4) % Modulus
           b == (a + a \div 72) % Modulus
<1>1. Modulus \in Nat /\ Modulus > 0
  BY Base64Assumption
<1>2. w \in Nat
  BY <1>1
<1> HIDE DEF w
<1>3. a \in Nat
  BY <1>1, <1>2
<1> HIDE DEF a
<1>4. b \in Nat
  BY <1>1, <1>3
<1> HIDE DEF b
<1>5. (b + 1) % Modulus \in Nat
  BY <1>1, <1>4
<1> QED BY <1>5 DEF SizeFor, a, b, w

\* At first the decoder has done nothing.
LEMMA DecodeInit == Init => DecodeInv
<1> SUFFICES ASSUME Init PROVE DecodeInv
  OBVIOUS
<1>1. /\ olen = 0 /\ i = 0 /\ block = <<>> /\ pad = 0 /\ bytes = <<>>
      /\ pc \in {"encode", "decode"}
  BY DEF Init
<1>2. text \in Seq(Byte)
  <2>1. CASE text = <<>>
    BY <2>1, EmptySeq
  <2>2. CASE text \in Strings(Chars, MaxText)
    <3>1. Chars \subseteq Byte /\ MaxText \in Nat
      BY Base64Assumption DEF Byte
    <3> QED BY <2>2, <3>1, StringsType
  <2> QED BY <2>1, <2>2 DEF Init
<1>3. <<>> \in Seq(Nat) /\ <<>> \in Seq(0..63) /\ Len(<<>>) = 0 /\ Len(text) \in Nat
  BY <1>2, EmptySeq, LenProperties
<1> QED BY <1>1, <1>2, <1>3 DEF DecodeInv

\* Every step keeps the decoder's invariant.
LEMMA DecodeStep == EncodeInv /\ DecodeInv /\ [Next]_vars => DecodeInv'
<1> SUFFICES ASSUME EncodeInv, DecodeInv, [Next]_vars PROVE DecodeInv'
  OBVIOUS
<1>0. text \in Seq(Byte) /\ Len(text) \in Nat /\ i \in Nat
  BY LenProperties DEF DecodeInv
<1>1. CASE EncodeStart
  <2>1. olen' \in Nat
    BY <1>1, SizeType DEF EncodeStart, EncodeInv
  <2>2. pc = "encode" /\ pc' \in {"refused", "nomem", "sized", "block"} /\ UNCHANGED decodeVars
    BY <1>1 DEF EncodeStart
  <2> QED BY <2>1, <2>2 DEF DecodeInv, decodeVars
<1>2. CASE EncodeBlock
  BY <1>2 DEF EncodeBlock, DecodeInv, decodeVars
<1>3. CASE EncodeTail
  BY <1>3 DEF EncodeTail, DecodeInv, decodeVars
<1>4. CASE Hand
  <2>1. text' \in Seq(Byte) /\ Len(text') \in Nat
    BY <1>4, HandText, LenProperties DEF EncodeInv
  <2>2. pc = "encoded" /\ pc' = "decode" /\ UNCHANGED <<olen, i, block, pad, bytes>>
    BY <1>4 DEF Hand
  <2> QED BY <2>1, <2>2 DEF DecodeInv
<1>5. CASE DecodeStart
  <2> DEFINE count == Cardinality(Accepted)
  <2>1. count \in Nat
    BY <1>0, TakenFinite
  <2>2. pc = "decode" /\ UNCHANGED decodeVars /\ i = 0 /\ block = <<>> /\ pad = 0 /\ bytes = <<>>
    BY <1>5 DEF DecodeStart, DecodeInv
  <2>3. CASE pc' = "refused" /\ UNCHANGED olen
    BY <2>2, <2>3 DEF DecodeInv, decodeVars
  <2>4. CASE pc' \in {"nomem", "decoding"} /\ count % 4 = 0 /\ olen' = (count \div 4) * 3
    <3> HIDE DEF count
    <3>1. olen' \in Nat /\ 4 * olen' = 3 * count
      BY <2>1, <2>4
    <3>2. Cardinality(Taken(i)') = 0 /\ Cardinality(Accepted)' = count
      <4>1. Taken(i)' = Taken(0) /\ Accepted' = Accepted
        BY <2>2 DEF Taken, Accepted, decodeVars
      <4> QED BY <1>0, <4>1, TakenNone DEF count
    <3>3. Len(bytes') = 0 /\ Len(block') = 0 /\ pad' = 0
      BY <2>2 DEF decodeVars
    <3> QED BY <2>2, <2>4, <3>1, <3>2, <3>3 DEF DecodeInv, decodeVars
  <2> QED BY <1>5, <2>3, <2>4 DEF DecodeStart
<1>6. CASE DecodeSkip
  <2>1. /\ pc = "decoding" /\ i < Len(text) /\ dtable[text[i + 1]] = 128 /\ i' = i + 1
        /\ UNCHANGED <<pc, olen, text, block, pad, bytes>>
    BY <1>6 DEF DecodeSkip
  <2>2. Taken(i)' = Taken(i) /\ Accepted' = Accepted
    <3>1. Taken(i)' = Taken(i + 1) /\ Accepted' = Accepted
      BY <2>1 DEF Taken, Accepted
    <3> QED BY <1>0, <2>1, <3>1, TakenNext
  <2> QED BY <1>0, <2>1, <2>2 DEF DecodeInv
<1>7. CASE DecodeChar
  BY <1>7, DecodeCharKeeps
<1>8. CASE DecodeEnd
  <2>1. DecodeFits
    BY DecodeInvFits
  <2>2. pc = "decoding" /\ pc' = "decoded" /\ UNCHANGED <<olen, decodeVars>>
    BY <1>8 DEF DecodeEnd
  <2> QED BY <2>1, <2>2 DEF DecodeInv, DecodeFits, decodeVars
<1>9. CASE UNCHANGED vars
  BY <1>9 DEF DecodeInv, vars, Taken, Accepted
<1> QED BY <1>1, <1>2, <1>3, <1>4, <1>5, <1>6, <1>7, <1>8, <1>9 DEF Next

\* The invariants of encoder and decoder hold for ever.
LEMMA CodecAlways == Spec => [](EncodeInv /\ DecodeInv)
<1>1. Init => EncodeInv /\ DecodeInv
  BY EncodeInit, DecodeInit
<1>2. EncodeInv /\ DecodeInv /\ [Next]_vars => (EncodeInv /\ DecodeInv)'
  BY EncodeStep, DecodeStep
<1> QED BY <1>1, <1>2, PTL DEF Spec

\* b64_decode writes inside the buffer it allocated, whatever the text: foreign
\* characters, padding in the middle of it and blocks that are cut short included.
THEOREM DecoderSafe == Spec => []DecodeFits
<1>1. DecodeInv => DecodeFits
  BY DecodeInvFits
<1> QED BY <1>1, CodecAlways, PTL

\* The counters of both loops stay inside the data and the text.
THEOREM CodecTypes == Spec => []TypeOK
<1>1. EncodeInv /\ DecodeInv /\ pc \in {"encode", "block", "encoded", "sized", "decode",
        "decoding", "decoded", "refused", "nomem"} => TypeOK
  <2> SUFFICES ASSUME EncodeInv, DecodeInv, pc \in {"encode", "block", "encoded", "sized",
                 "decode", "decoding", "decoded", "refused", "nomem"}
               PROVE  TypeOK
    OBVIOUS
  <2>1. Len(text) \in Nat
    BY LenProperties DEF DecodeInv
  <2> QED BY <2>1 DEF EncodeInv, DecodeInv, TypeOK
<1>2. Init => pc \in {"encode", "block", "encoded", "sized", "decode", "decoding", "decoded",
        "refused", "nomem"}
  BY DEF Init
<1>3. pc \in {"encode", "block", "encoded", "sized", "decode", "decoding", "decoded", "refused",
        "nomem"} /\ [Next]_vars
      => (pc \in {"encode", "block", "encoded", "sized", "decode", "decoding", "decoded",
        "refused", "nomem"})'
  BY DEF Next, vars, EncodeStart, EncodeBlock, EncodeTail, Hand, DecodeStart, DecodeSkip,
         DecodeChar, DecodeEnd
<1> QED BY <1>1, <1>2, <1>3, CodecAlways, PTL DEF Spec

-----------------------------------------------------------------------------
\* How far into the encoded text i characters of the handed text go, when a
\* foreign one follows the first h; h = Len(out) + 1 if there is none.
Place(j, h) == IF j <= h THEN j ELSE j - 1
Handed(h) ==
    \/ h = Len(out) + 1 /\ text = out
    \/ h \in 0..Len(out) /\ \E c \in Byte : dtable[c] = 128 /\ Spliced(text, out, h, c)

\* q blocks are decoded, and the characters of the next one that were read are
\* in block; '=' stands after the characters that carry data.
DataChars == (4 * len + 2) \div 3
Progress(h, q) ==
    /\ Place(i, h) = 4 * q + Len(block)
    /\ \A k \in 1..Len(block) : block[k] = Sextet(4 * q + k - 1)
    /\ 3 * q <= len /\ Len(bytes) = 3 * q /\ \A k \in 1 .. 3 * q : bytes[k] = src[k]
    /\ pad = IF Place(i, h) > DataChars THEN Place(i, h) - DataChars ELSE 0

RoundInv ==
    pc \in {"decode", "decoding"} /\ out # <<>> =>
        \E h \in Nat : Handed(h) /\ (pc = "decoding" => \E q \in Nat : Progress(h, q))

\* The text that was handed over, character by character.
LEMMA HandedText ==
    ASSUME out \in Seq(Byte), NEW h \in Nat, Handed(h)
    PROVE  /\ Len(out) \in Nat /\ Len(text) \in Nat /\ Place(Len(text), h) = Len(out)
           /\ \A k \in 1..Len(text) :
                 /\ k = h + 1 => dtable[text[k]] = 128
                 /\ k # h + 1 => Place(k, h) \in 1..Len(out) /\ text[k] = out[Place(k, h)]
           /\ Len(text) = Len(out) \/ (Len(text) = Len(out) + 1 /\ h + 1 \in 1..Len(text))
           /\ Len(text) = Len(out) => h + 1 \notin 1..Len(text)
<1>1. Len(out) \in Nat
  BY LenProperties
<1>2. CASE h = Len(out) + 1 /\ text = out
  <2>1. ASSUME NEW k \in 1..Len(text) PROVE k # h + 1 /\ Place(k, h) = k
    BY <1>1, <1>2 DEF Place
  <2>2. Place(Len(text), h) = Len(out)
    BY <1>1, <1>2 DEF Place
  <2>3. h + 1 \notin 1..Len(text)
    BY <1>1, <1>2
  <2> QED BY <1>1, <1>2, <2>1, <2>2, <2>3
<1>3. CASE h \in 0..Len(out) /\ \E c \in Byte : dtable[c] = 128 /\ Spliced(text, out, h, c)
  <2>1. PICK c \in Byte : dtable[c] = 128 /\ Spliced(text, out, h, c)
    BY <1>3
  <2>2. /\ Len(text) = Len(out) + 1
        /\ \A k \in 1..Len(text) :
              text[k] = IF k <= h THEN out[k] ELSE IF k = h + 1 THEN c ELSE out[k - 1]
    BY <2>1 DEF Spliced
  <2>3. Place(Len(text), h) = Len(out)
    BY <1>1, <1>3, <2>2 DEF Place
  <2>4. ASSUME NEW k \in 1..Len(text), k = h + 1 PROVE dtable[text[k]] = 128
    <3>1. text[k] = c
      BY <2>2, <2>4
    <3> QED BY <2>1, <3>1
  <2>5. ASSUME NEW k \in 1..Len(text), k # h + 1
        PROVE  Place(k, h) \in 1..Len(out) /\ text[k] = out[Place(k, h)]
    <3>1. CASE k <= h
      <4>1. Place(k, h) = k /\ k \in 1..Len(out)
        BY <1>1, <1>3, <3>1 DEF Place
      <4> QED BY <2>2, <3>1, <4>1
    <3>2. CASE k > h + 1
      <4>1. Place(k, h) = k - 1 /\ k - 1 \in 1..Len(out) /\ ~(k <= h)
        BY <1>1, <1>3, <2>2, <3>2 DEF Place
      <4>2. text[k] = out[k - 1]
        BY <2>2, <2>5, <4>1
      <4> QED BY <4>1, <4>2
    <3> QED BY <2>5, <3>1, <3>2
  <2>6. h + 1 \in 1..Len(text) /\ Len(text) # Len(out)
    BY <1>1, <1>3, <2>2
  <2> QED BY <1>1, <2>2, <2>3, <2>4, <2>5, <2>6
<1> QED BY <1>2, <1>3 DEF Handed

\* Sextets fit the alphabet, and there are none beyond the data.
LEMMA SextetRange ==
    ASSUME src \in Seq(Byte), NEW n \in Nat
    PROVE  Sextet(n) \in 0..63 /\ (6 * n >= 8 * Len(src) => Sextet(n) = 0)
<1>1. PICK m \in Nat, r \in 0..3 : n = 4 * m + r
  <2>1. n = 4 * (n \div 4) + (n % 4) /\ n \div 4 \in Nat /\ n % 4 \in 0..3
    OBVIOUS
  <2> QED BY <2>1
<1>2. /\ ByteAt(3 * m) \in Byte /\ ByteAt(3 * m + 1) \in Byte /\ ByteAt(3 * m + 2) \in Byte
  BY ByteAtType
<1>3. PICK x \in Byte, y \in Byte, z \in Byte :
        x = ByteAt(3 * m) /\ y = ByteAt(3 * m + 1) /\ z = ByteAt(3 * m + 2)
  BY <1>2
<1>4. /\ Sextet(4 * m) = x \div 4 /\ Sextet(4 * m + 1) = (x % 4) * 16 + (y \div 16)
      /\ Sextet(4 * m + 2) = (y % 16) * 4 + (z \div 64) /\ Sextet(4 * m + 3) = z % 64
  BY <1>3, SextetValue
<1>5. /\ x \div 4 \in 0..63 /\ (x % 4) * 16 + (y \div 16) \in 0..63
      /\ (y % 16) * 4 + (z \div 64) \in 0..63 /\ z % 64 \in 0..63
  BY DEF Byte
<1>6. \/ r = 0 /\ n = 4 * m
      \/ r = 1 /\ n = 4 * m + 1
      \/ r = 2 /\ n = 4 * m + 2
      \/ r = 3 /\ n = 4 * m + 3
  BY <1>1
<1>7. Sextet(n) \in 0..63
  BY <1>4, <1>5, <1>6
<1>8. ASSUME 6 * n >= 8 * Len(src) PROVE Sextet(n) = 0
  <2>1. Len(src) \in Nat
    BY LenProperties
  <2>2. ASSUME NEW k \in 0..5 PROVE Bit(6 * n + k) = 0
    <3>1. ~((6 * n + k) \div 8 < Len(src))
      BY <1>8, <2>1
    <3> QED BY <3>1 DEF Bit
  <2>3. 6 * n + 0 = 6 * n
    OBVIOUS
  <2>4. Bit(6 * n) = 0 /\ Bit(6 * n + 1) = 0 /\ Bit(6 * n + 2) = 0 /\ Bit(6 * n + 3) = 0
        /\ Bit(6 * n + 4) = 0 /\ Bit(6 * n + 5) = 0
    BY <2>2, <2>3
  <2> QED BY <2>4 DEF Sextet
<1> QED BY <1>7, <1>8

\* Decoding a character of an encoded text gives the sextet it stands for, and
\* '=' zero.
LEMMA DecodedChar ==
    ASSUME src \in Seq(Byte), len \in Nat, EncodedText, Len(out) \in Nat, NEW k \in 1..Len(out)
    PROVE  /\ dtable[out[k]] = Sextet(k - 1) /\ dtable[out[k]] # 128
           /\ out[k] = Equals <=> k > DataChars
<1>1. k - 1 \in Nat /\ Len(src) = len /\ DataChars \in Nat
  BY DEF EncodedText, DataChars
<1>2. out[k] = IF 6 * (k - 1) < 8 * len THEN base64_table(Sextet(k - 1)) ELSE Equals
  BY DEF EncodedText
<1>3. Sextet(k - 1) \in 0..63 /\ (6 * (k - 1) >= 8 * len => Sextet(k - 1) = 0)
  BY <1>1, SextetRange
<1>4. 6 * (k - 1) >= 8 * len <=> k > DataChars
  BY <1>1 DEF DataChars
<1>5. CASE 6 * (k - 1) < 8 * len
  <2>1. out[k] = base64_table(Sextet(k - 1)) /\ ~(k > DataChars)
    BY <1>2, <1>4, <1>5
  <2>2. /\ dtable[base64_table(Sextet(k - 1))] = Sextet(k - 1)
        /\ base64_table(Sextet(k - 1)) # Equals
    BY <1>3, TableInverse, TableInjective
  <2>3. Sextet(k - 1) # 128
    <3>1. \A n \in 0..63 : n # 128
      OBVIOUS
    <3> QED BY <1>3, <3>1, Zenon
  <2> QED BY <2>1, <2>2, <2>3
<1>6. CASE ~(6 * (k - 1) < 8 * len)
  <2>1. out[k] = Equals /\ k > DataChars /\ Sextet(k - 1) = 0
    BY <1>1, <1>2, <1>3, <1>4, <1>6
  <2> QED BY <2>1, TableInverse
<1> QED BY <1>5, <1>6

\* Every character that was encoded is accepted, the foreign one is not.
LEMMA HandedCount ==
    ASSUME src \in Seq(Byte), len \in Nat, EncodedText, out \in Seq(Byte), text \in Seq(Byte),
           NEW h \in Nat, Handed(h)
    PROVE  Cardinality(Accepted) = Len(out) /\ Len(out) = 4 * ((len + 2) \div 3)
<1>1. /\ Len(out) \in Nat /\ Len(text) \in Nat
      /\ \A k \in 1..Len(text) :
            /\ k = h + 1 => dtable[text[k]] = 128
            /\ k # h + 1 => Place(k, h) \in 1..Len(out) /\ text[k] = out[Place(k, h)]
      /\ Len(text) = Len(out) \/ (Len(text) = Len(out) + 1 /\ h + 1 \in 1..Len(text))
      /\ Len(text) = Len(out) => h + 1 \notin 1..Len(text)
  BY HandedText, Zenon
<1>2. ASSUME NEW k \in 1..Len(text), k # h + 1 PROVE dtable[text[k]] # 128
  <2>1. PICK m \in 1..Len(out) : text[k] = out[m]
    <3>1. Place(k, h) \in 1..Len(out) /\ text[k] = out[Place(k, h)]
      BY <1>1, <1>2, Zenon
    <3> QED BY <3>1, Zenon
  <2>2. dtable[out[m]] # 128
    BY <1>1, DecodedChar, Zenon
  <2> QED BY <2>1, <2>2
<1>3. Accepted = (1..Len(text)) \ {h + 1}
  <2>1. DOMAIN text = 1..Len(text)
    BY LenProperties
  <2>2. \A k \in 1..Len(text) : dtable[text[k]] = 128 <=> k = h + 1
    BY <1>1, <1>2, Zenon
  <2>3. Accepted = {k \in 1..Len(text) : dtable[text[k]] # 128}
    BY <2>1 DEF Accepted
  <2>4. ASSUME NEW k PROVE k \in Accepted <=> k \in 1..Len(text) /\ k # h + 1
    BY <2>2, <2>3, Zenon
  <2> QED BY <2>4, Zenon
<1>4. IsFiniteSet(1..Len(text)) /\ Cardinality(1..Len(text)) = Len(text)
  <2>1. PICK n \in Nat : n = Len(text)
    BY <1>1
  <2>2. IsFiniteSet(1..n) /\ Cardinality(1..n) = IF 1 > n THEN 0 ELSE n - 1 + 1
    BY FS_Interval
  <2>3. IsFiniteSet(1..n) /\ Cardinality(1..n) = n
    BY <2>2
  <2> QED BY <2>1, <2>3
<1>5. Cardinality(Accepted) = IF h + 1 \in 1..Len(text) THEN Len(text) - 1 ELSE Len(text)
  BY <1>3, <1>4, FS_RemoveElement, Zenon
<1>6. Cardinality(Accepted) = Len(out)
  <2>1. CASE Len(text) = Len(out)
    BY <1>1, <1>5, <2>1
  <2>2. CASE Len(text) = Len(out) + 1 /\ h + 1 \in 1..Len(text)
    BY <1>1, <1>5, <2>2
  <2> QED BY <1>1, <2>1, <2>2
<1>7. Len(out) = 4 * ((len + 2) \div 3)
  <2>1. PICK n \in Nat : n = Len(out)
    BY <1>1
  <2>2. n + 1 = 4 * ((len + 2) \div 3) + 1
    BY <2>1 DEF EncodedText, EncodedSize
  <2> QED BY <2>1, <2>2
<1> QED BY <1>6, <1>7

\* The sextets of three bytes decode to these.
LEMMA BlockDecodes ==
    ASSUME src \in Seq(Byte), NEW q \in Nat, NEW b \in Seq(0..63), Len(b) = 4,
           \A k \in 1..4 : b[k] = Sextet(4 * q + k - 1)
    PROVE  Unpack(b) = <<ByteAt(3 * q), ByteAt(3 * q + 1), ByteAt(3 * q + 2)>>
<1>1. /\ ByteAt(3 * q) \in Byte /\ ByteAt(3 * q + 1) \in Byte /\ ByteAt(3 * q + 2) \in Byte
  BY ByteAtType
<1>2. PICK x \in Byte, y \in Byte, z \in Byte :
        x = ByteAt(3 * q) /\ y = ByteAt(3 * q + 1) /\ z = ByteAt(3 * q + 2)
  BY <1>1
<1>3. /\ 4 * q + 1 - 1 = 4 * q /\ 4 * q + 2 - 1 = 4 * q + 1
      /\ 4 * q + 3 - 1 = 4 * q + 2 /\ 4 * q + 4 - 1 = 4 * q + 3
  OBVIOUS
<1>4. /\ b[1] = Sextet(4 * q) /\ b[2] = Sextet(4 * q + 1)
      /\ b[3] = Sextet(4 * q + 2) /\ b[4] = Sextet(4 * q + 3)
  <2>1. 1 \in 1..4 /\ 2 \in 1..4 /\ 3 \in 1..4 /\ 4 \in 1..4
    OBVIOUS
  <2> QED BY <1>3, <2>1, Zenon
<1>5. /\ b[1] = x \div 4 /\ b[2] = (x % 4) * 16 + (y \div 16)
      /\ b[3] = (y % 16) * 4 + (z \div 64) /\ b[4] = z % 64
  BY <1>2, <1>4, SextetValue
<1> DEFINE d == <<x \div 4, (x % 4) * 16 + (y \div 16), (y % 16) * 4 + (z \div 64), z % 64>>
<1>6. d[1] = b[1] /\ d[2] = b[2] /\ d[3] = b[3] /\ d[4] = b[4]
  BY <1>5
<1>7. Unpack(b) = Unpack(d)
  <2> HIDE DEF d
  <2> QED BY <1>6 DEF Unpack
<1>8. Unpack(d) = <<x, y, z>>
  BY UnpackPack
<1> QED BY <1>2, <1>7, <1>8

\* Three bytes more of the data.
LEMMA ThreeMore ==
    ASSUME src \in Seq(Byte), NEW q \in Nat, NEW b \in Seq(Nat), Len(b) = 3 * q,
           3 * q <= Len(src), \A k \in 1 .. 3 * q : b[k] = src[k],
           NEW t, t = <<ByteAt(3 * q), ByteAt(3 * q + 1), ByteAt(3 * q + 2)>>
    PROVE  /\ b \o t \in Seq(Nat) /\ Len(b \o t) = 3 * q + 3
           /\ \A k \in 1 .. 3 * q + 3 : k <= Len(src) => (b \o t)[k] = src[k]
<1>1. /\ ByteAt(3 * q) \in Nat /\ ByteAt(3 * q + 1) \in Nat /\ ByteAt(3 * q + 2) \in Nat
  <2>1. 3 * q \in Nat /\ 3 * q + 1 \in Nat /\ 3 * q + 2 \in Nat /\ Byte \subseteq Nat
    BY DEF Byte
  <2> QED BY <2>1, ByteAtType, Zenon
<1>2. /\ t \in Seq(Nat) /\ Len(t) = 3
      /\ t[1] = ByteAt(3 * q) /\ t[2] = ByteAt(3 * q + 1) /\ t[3] = ByteAt(3 * q + 2)
  BY <1>1
<1>3. Len(src) \in Nat
  BY LenProperties
<1> DEFINE u == b \o t
<1>4. /\ u \in Seq(Nat) /\ Len(u) = Len(b) + Len(t)
      /\ \A k \in 1 .. Len(b) + Len(t) : u[k] = IF k <= Len(b) THEN b[k] ELSE t[k - Len(b)]
  BY <1>2, ConcatProperties
<1> HIDE DEF u
<1>5. Len(b) + Len(t) = 3 * q + 3
  BY <1>2
<1>6. ASSUME NEW k \in 1 .. 3 * q + 3, k <= Len(src) PROVE u[k] = src[k]
  <2>1. u[k] = IF k <= 3 * q THEN b[k] ELSE t[k - 3 * q]
    BY <1>4, <1>5
  <2>2. CASE k <= 3 * q
    BY <2>1, <2>2
  <2>3. CASE k > 3 * q
    <3>1. \/ k - 3 * q = 1 /\ k = 3 * q + 1
          \/ k - 3 * q = 2 /\ k = 3 * q + 1 + 1
          \/ k - 3 * q = 3 /\ k = 3 * q + 2 + 1
      BY <2>3
    <3>2. ~(k <= 3 * q)
      BY <2>3
    <3>3. CASE k - 3 * q = 1 /\ k = 3 * q + 1
      <4>1. 3 * q < Len(src)
        BY <1>3, <1>6, <3>3
      <4> QED BY <1>2, <2>1, <3>2, <3>3, <4>1 DEF ByteAt
    <3>4. CASE k - 3 * q = 2 /\ k = 3 * q + 1 + 1
      <4>1. 3 * q + 1 < Len(src)
        BY <1>3, <1>6, <3>4
      <4> QED BY <1>2, <2>1, <3>2, <3>4, <4>1 DEF ByteAt
    <3>5. CASE k - 3 * q = 3 /\ k = 3 * q + 2 + 1
      <4>1. 3 * q + 2 < Len(src)
        BY <1>3, <1>6, <3>5
      <4> QED BY <1>2, <2>1, <3>2, <3>5, <4>1 DEF ByteAt
    <3> QED BY <3>1, <3>3, <3>4, <3>5
  <2> QED BY <2>2, <2>3
<1> QED BY <1>4, <1>5, <1>6 DEF u

\* The padding says how much of the last block is data.
LEMMA PadCount ==
    ASSUME len \in Nat, NEW q \in Nat, 4 * q + 4 <= 4 * ((len + 2) \div 3)
    PROVE  \/ len >= 3 * q + 3 /\ 4 * q + 4 <= DataChars
           \/ len = 3 * q + 2 /\ DataChars = 4 * q + 3
           \/ len = 3 * q + 1 /\ DataChars = 4 * q + 2
<1>1. PICK d \in Nat : d = (len + 2) \div 3 /\ 3 * d <= len + 2
  <2>1. (len + 2) \div 3 \in Nat /\ 3 * ((len + 2) \div 3) <= len + 2
    OBVIOUS
  <2> QED BY <2>1
<1>2. 3 * q + 1 <= len
  BY <1>1
<1>3. PICK e \in Nat : e = DataChars /\ 3 * e <= 4 * len + 2 /\ 4 * len + 2 <= 3 * e + 2
  <2>1. DataChars \in Nat /\ 3 * DataChars <= 4 * len + 2 /\ 4 * len + 2 <= 3 * DataChars + 2
    BY DEF DataChars
  <2> QED BY <2>1
<1>4. \/ len >= 3 * q + 3 /\ 4 * q + 4 <= e
      \/ len = 3 * q + 2 /\ e = 4 * q + 3
      \/ len = 3 * q + 1 /\ e = 4 * q + 2
  BY <1>2, <1>3
<1> QED BY <1>3, <1>4

\* Definitions of the data do not change while it is decoded.
LEMMA DataStays ==
    ASSUME UNCHANGED <<src, len, out>>
    PROVE  /\ \A k : Sextet(k)' = Sextet(k)
           /\ DataChars' = DataChars /\ EncodedText' = EncodedText
<1>1. \A k : Sextet(k)' = Sextet(k)
  BY DEF Sextet, Bit
<1> QED BY <1>1 DEF DataChars, EncodedText, EncodedSize

\* A character that was encoded: the decoder is one character further, and has
\* its sextet and the padding so far.
LEMMA NextChar ==
    ASSUME EncodeInv, DecodeInv, EncodedText, pc = "decoding", NEW h \in Nat, Handed(h),
           NEW q \in Nat, Progress(h, q), i < Len(text), dtable[text[i + 1]] # 128
    PROVE  /\ Place(i + 1, h) = Place(i, h) + 1 /\ Place(i, h) \in Nat
           /\ Place(i, h) + 1 <= Len(out)
           /\ dtable[text[i + 1]] = Sextet(Place(i, h))
           /\ (IF text[i + 1] = Equals THEN pad + 1 ELSE pad)
                = IF Place(i, h) + 1 > DataChars THEN Place(i, h) + 1 - DataChars ELSE 0
<1>1. /\ src \in Seq(Byte) /\ len \in Nat /\ out \in Seq(Byte) /\ text \in Seq(Byte) /\ i \in Nat
      /\ Len(text) \in Nat /\ Len(out) \in Nat
  BY LenProperties DEF EncodeInv, DecodeInv
<1>2. i + 1 \in 1..Len(text)
  BY <1>1
<1>3. i + 1 # h + 1 /\ Place(i + 1, h) \in 1..Len(out) /\ text[i + 1] = out[Place(i + 1, h)]
  <2>1. /\ i + 1 = h + 1 => dtable[text[i + 1]] = 128
        /\ i + 1 # h + 1 => Place(i + 1, h) \in 1..Len(out) /\ text[i + 1] = out[Place(i + 1, h)]
    <3>1. \A k \in 1..Len(text) :
             /\ k = h + 1 => dtable[text[k]] = 128
             /\ k # h + 1 => Place(k, h) \in 1..Len(out) /\ text[k] = out[Place(k, h)]
      BY <1>1, HandedText, Zenon
    <3> QED BY <1>2, <3>1, Zenon
  <2> QED BY <2>1, Zenon
<1>4. PICK j \in Nat : j = Place(i, h) /\ j + 1 = Place(i + 1, h)
  <2>1. CASE i < h
    <3>1. Place(i, h) = i /\ Place(i + 1, h) = i + 1
      BY <1>1, <2>1 DEF Place
    <3> QED BY <1>1, <3>1
  <2>2. CASE i > h
    <3>1. Place(i, h) = i - 1 /\ Place(i + 1, h) = i + 1 - 1 /\ i - 1 \in Nat
      BY <1>1, <2>2 DEF Place
    <3> QED BY <1>1, <3>1
  <2> QED BY <1>1, <1>3, <2>1, <2>2
<1>5. j + 1 \in 1..Len(out) /\ text[i + 1] = out[j + 1]
  BY <1>3, <1>4
<1>6. /\ dtable[out[j + 1]] = Sextet(j + 1 - 1) /\ j + 1 - 1 = j
      /\ out[j + 1] = Equals <=> j + 1 > DataChars
  BY <1>1, <1>5, DecodedChar
<1>7. pad = (IF j > DataChars THEN j - DataChars ELSE 0) /\ DataChars \in Nat
  BY <1>1, <1>4 DEF Progress, DataChars
<1>8. (IF text[i + 1] = Equals THEN pad + 1 ELSE pad)
        = IF j + 1 > DataChars THEN j + 1 - DataChars ELSE 0
  <2>1. PICK d \in Nat : d = DataChars
    BY <1>7
  <2>2. pad = IF j > d THEN j - d ELSE 0
    BY <1>7, <2>1
  <2>3. CASE j + 1 > d
    <3>1. text[i + 1] = Equals
      BY <1>5, <1>6, <2>1, <2>3
    <3>2. pad + 1 = j + 1 - d
      BY <2>2, <2>3
    <3> QED BY <2>1, <2>3, <3>1, <3>2
  <2>4. CASE ~(j + 1 > d)
    <3>1. text[i + 1] # Equals
      BY <1>5, <1>6, <2>1, <2>4
    <3>2. pad = 0
      BY <2>2, <2>4
    <3> QED BY <2>1, <2>4, <3>1, <3>2
  <2> QED BY <2>3, <2>4
<1>9. j + 1 <= Len(out)
  BY <1>1, <1>5
<1> QED BY <1>4, <1>5, <1>6, <1>8, <1>9

\* The sextets of the block at hand and the next one.
LEMMA NextSextets ==
    ASSUME DecodeInv, NEW h \in Nat, NEW q \in Nat, Progress(h, q), NEW s \in 0..63,
           s = Sextet(4 * q + Len(block))
    PROVE  /\ Append(block, s) \in Seq(0..63) /\ Len(Append(block, s)) = Len(block) + 1
           /\ Len(block) \in 0..3
           /\ \A k \in 1 .. Len(block) + 1 : Append(block, s)[k] = Sextet(4 * q + k - 1)
<1>1. block \in Seq(0..63) /\ Len(block) \in 0..3
  <2>1. block \in Seq(0..63) /\ Len(block) < 4
    BY DEF DecodeInv
  <2>2. Len(block) \in Nat
    BY <2>1, LenProperties
  <2>3. \A l \in Nat : l < 4 => l \in 0..3
    OBVIOUS
  <2> QED BY <2>1, <2>2, <2>3, Zenon
<1> DEFINE b == Append(block, s)
<1>2. /\ b \in Seq(0..63) /\ Len(b) = Len(block) + 1
      /\ \A k \in 1..Len(block) : b[k] = block[k]
      /\ b[Len(block) + 1] = s
  BY <1>1, AppendProperties
<1> HIDE DEF b
<1>3. ASSUME NEW k \in 1 .. Len(block) + 1 PROVE b[k] = Sextet(4 * q + k - 1)
  <2>1. CASE k \in 1..Len(block)
    BY <1>2, <2>1 DEF Progress
  <2>2. CASE k = Len(block) + 1
    <3>1. 4 * q + k - 1 = 4 * q + Len(block)
      BY <1>1, <2>2
    <3> QED BY <1>2, <2>2, <3>1
  <2> QED BY <1>1, <2>1, <2>2
<1> QED BY <1>1, <1>2, <1>3 DEF b

\* A character inside a block.
LEMMA InsideBlock ==
    ASSUME EncodeInv, DecodeInv, EncodedText, NEW h \in Nat, Handed(h), NEW q \in Nat,
           Progress(h, q), DecodeChar, Len(block) # 3
    PROVE  Progress(h, q)' /\ pc' = "decoding"
<1> DEFINE c    == text[i + 1]
           next == Append(block, dtable[c])
           p    == IF c = Equals THEN pad + 1 ELSE pad
<1>1. /\ pc = "decoding" /\ i < Len(text) /\ dtable[c] # 128 /\ i' = i + 1
      /\ UNCHANGED <<src, len, olen, in, out, text>>
      /\ pad' = p /\ block' = (IF Len(next) = 4 THEN <<>> ELSE next)
      /\ Len(next) # 4 => bytes' = bytes /\ pc' = "decoding"
  BY DEF DecodeChar
<1>2. PICK j \in Nat : /\ j = Place(i, h) /\ Place(i + 1, h) = j + 1 /\ dtable[c] = Sextet(j)
                       /\ p = IF j + 1 > DataChars THEN j + 1 - DataChars ELSE 0
  BY <1>1, NextChar
<1>3. j = 4 * q + Len(block)
  BY <1>2 DEF Progress
<1>4. dtable[c] \in 0..63
  <2>1. src \in Seq(Byte)
    BY DEF EncodeInv
  <2> QED BY <1>2, <2>1, SextetRange
<1>5. /\ Len(next) = Len(block) + 1 /\ Len(block) \in 0..3
      /\ \A k \in 1 .. Len(block) + 1 : next[k] = Sextet(4 * q + k - 1)
  BY <1>2, <1>3, <1>4, NextSextets
<1> HIDE DEF next, c, p
<1>6. Len(next) # 4 /\ 4 * q + Len(next) = j + 1
  <2>1. PICK l \in 0..3 : l = Len(block)
    BY <1>5
  <2>2. Len(next) = l + 1 /\ l # 3 /\ j = 4 * q + l
    BY <1>3, <1>5, <2>1
  <2>3. l + 1 # 4 /\ 4 * q + (l + 1) = j + 1
    BY <2>2
  <2> QED BY <2>2, <2>3
<1>7. block' = next /\ bytes' = bytes /\ pc' = "decoding"
  BY <1>1, <1>6
<1>8. Place(i, h)' = j + 1
  BY <1>1, <1>2 DEF Place
<1>9. (\A k \in 1..Len(block) : block[k] = Sextet(4 * q + k - 1))'
  BY <1>1, <1>5, <1>7, DataStays
<1>10. (pad = IF Place(i, h) > DataChars THEN Place(i, h) - DataChars ELSE 0)'
  <2>1. DataChars' = DataChars /\ DataChars' \in Nat
    <3>1. DataChars \in Nat
      BY DEF EncodeInv, DataChars
    <3> QED BY <1>1, <3>1, DataStays
  <2>2. pad' = IF j + 1 > DataChars' THEN j + 1 - DataChars' ELSE 0
    BY <1>1, <1>2, <2>1, Zenon
  <2> QED BY <1>8, <2>1, <2>2
<1>11. (3 * q <= len /\ Len(bytes) = 3 * q /\ \A k \in 1 .. 3 * q : bytes[k] = src[k])'
  BY <1>1, <1>7 DEF Progress
<1>12. (Place(i, h) = 4 * q + Len(block))'
  BY <1>6, <1>7, <1>8
<1> QED BY <1>7, <1>9, <1>10, <1>11, <1>12, Zenon DEF Progress

\* The last character of a block: three bytes of the data, or the last ones.
LEMMA BlockEnds ==
    ASSUME EncodeInv, DecodeInv, EncodedText, NEW h \in Nat, Handed(h), NEW q \in Nat,
           Progress(h, q), DecodeChar, Len(block) = 3
    PROVE  \/ pc' = "decoding" /\ Progress(h, q + 1)'
           \/ pc' = "decoded" /\ bytes' = src'
<1> DEFINE c    == text[i + 1]
           next == Append(block, dtable[c])
           p    == IF c = Equals THEN pad + 1 ELSE pad
           all  == bytes \o Unpack(next)
<1>1. /\ pc = "decoding" /\ i < Len(text) /\ dtable[c] # 128 /\ i' = i + 1
      /\ UNCHANGED <<src, len, olen, in, out, text>>
      /\ pad' = p
      /\ Len(next) = 4 =>
            /\ block' = <<>>
            /\ bytes' = (IF p \in {1, 2} THEN SubSeq(all, 1, Len(all) - p) ELSE all)
            /\ pc' = (IF p > 2 THEN "refused" ELSE IF p > 0 THEN "decoded" ELSE "decoding")
  BY DEF DecodeChar
<1>2. PICK j \in Nat : /\ j = Place(i, h) /\ Place(i + 1, h) = j + 1 /\ dtable[c] = Sextet(j)
                       /\ j + 1 <= Len(out)
                       /\ p = IF j + 1 > DataChars THEN j + 1 - DataChars ELSE 0
  BY <1>1, NextChar
<1>3. /\ j = 4 * q + Len(block) /\ j + 1 = 4 * q + 4
  <2>1. j = 4 * q + Len(block)
    BY <1>2, Zenon DEF Progress
  <2>2. j = 4 * q + 3
    BY <2>1
  <2>3. j + 1 = 4 * q + 4
    BY <2>2
  <2> QED BY <2>1, <2>3
<1>4. /\ src \in Seq(Byte) /\ len \in Nat /\ Len(src) = len /\ out \in Seq(Byte)
      /\ text \in Seq(Byte) /\ bytes \in Seq(Nat)
  BY DEF EncodeInv, EncodedText, DecodeInv
<1>5. dtable[c] \in 0..63
  BY <1>2, <1>4, SextetRange
<1>6. /\ next \in Seq(0..63) /\ Len(next) = 4
      /\ \A k \in 1..4 : next[k] = Sextet(4 * q + k - 1)
  <2>1. /\ next \in Seq(0..63) /\ Len(next) = 3 + 1
        /\ \A k \in 1 .. 3 + 1 : next[k] = Sextet(4 * q + k - 1)
    BY <1>2, <1>3, <1>5, NextSextets
  <2> HIDE DEF next
  <2> QED BY <2>1
<1> HIDE DEF next, c, p
<1> DEFINE t == <<ByteAt(3 * q), ByteAt(3 * q + 1), ByteAt(3 * q + 2)>>
<1>7. Unpack(next) = t
  BY <1>4, <1>6, BlockDecodes, Zenon
<1>8. /\ 3 * q <= len /\ Len(bytes) = 3 * q /\ \A k \in 1 .. 3 * q : bytes[k] = src[k]
  BY DEF Progress
<1>9. /\ all \in Seq(Nat) /\ Len(all) = 3 * q + 3
      /\ \A k \in 1 .. 3 * q + 3 : k <= Len(src) => all[k] = src[k]
  <2>1. /\ bytes \o t \in Seq(Nat) /\ Len(bytes \o t) = 3 * q + 3
        /\ \A k \in 1 .. 3 * q + 3 : k <= Len(src) => (bytes \o t)[k] = src[k]
    <3> HIDE DEF t
    <3>1. 3 * q <= Len(src)
      BY <1>4, <1>8
    <3> QED BY <1>4, <1>8, <3>1, ThreeMore, Zenon DEF t
  <2>2. all = bytes \o t
    BY <1>7
  <2> QED BY <2>1, <2>2, Zenon
<1> HIDE DEF all, t
<1>10. Len(out) = 4 * ((len + 2) \div 3)
  BY <1>4, HandedCount
<1>11. 4 * q + 4 <= 4 * ((len + 2) \div 3)
  BY <1>2, <1>3, <1>10
<1>12. block' = <<>> /\ Len(block') = 0
  BY <1>1, <1>6
<1>13. CASE len >= 3 * q + 3 /\ 4 * q + 4 <= DataChars
  <2>1. DataChars \in Nat /\ DataChars' = DataChars /\ DataChars' \in Nat
    <3>1. DataChars \in Nat
      BY <1>4 DEF DataChars
    <3> QED BY <1>1, <3>1, DataStays
  <2>2. p = 0
    BY <1>2, <1>3, <1>13, <2>1
  <2>3. bytes' = all /\ pc' = "decoding"
    BY <1>1, <1>6, <2>2
  <2>4. Place(i, h)' = 4 * (q + 1)
    <3>1. 4 * q + 4 = 4 * (q + 1)
      OBVIOUS
    <3> QED BY <1>1, <1>2, <1>3, <3>1 DEF Place
  <2>5. (Place(i, h) = 4 * (q + 1) + Len(block))'
    BY <1>12, <2>4
  <2>6. (\A k \in 1..Len(block) : block[k] = Sextet(4 * (q + 1) + k - 1))'
    BY <1>12
  <2>7. (3 * (q + 1) <= len /\ Len(bytes) = 3 * (q + 1)
         /\ \A k \in 1 .. 3 * (q + 1) : bytes[k] = src[k])'
    <3>1. 3 * (q + 1) = 3 * q + 3 /\ len' = len /\ src' = src
      BY <1>1
    <3>2. 3 * (q + 1) <= len'
      BY <1>13, <3>1
    <3>3. Len(bytes') = 3 * (q + 1)
      BY <1>9, <2>3, <3>1
    <3>4. ASSUME NEW k \in 1 .. 3 * (q + 1) PROVE bytes'[k] = src'[k]
      <4>1. k \in 1 .. 3 * q + 3 /\ k <= Len(src)
        BY <1>4, <1>13
      <4> QED BY <1>9, <2>3, <3>1, <4>1
    <3> QED BY <3>2, <3>3, <3>4
  <2>8. (pad = IF Place(i, h) > DataChars THEN Place(i, h) - DataChars ELSE 0)'
    <3>1. 4 * (q + 1) <= DataChars'
      BY <1>13, <2>1
    <3>2. pad' = 0
      BY <1>1, <2>2
    <3> QED BY <2>1, <2>4, <3>1, <3>2
  <2>9. Progress(h, q + 1)'
    BY <2>5, <2>6, <2>7, <2>8, Zenon DEF Progress
  <2> QED BY <2>3, <2>9
<1>14. ASSUME NEW n \in {1, 2}, len = 3 * q + 3 - n, p = n
       PROVE  pc' = "decoded" /\ bytes' = src'
  <2>1. pc' = "decoded" /\ bytes' = SubSeq(all, 1, Len(all) - p)
    BY <1>1, <1>6, <1>14
  <2>2. Len(all) - p = len
    BY <1>4, <1>9, <1>14
  <2>3. ASSUME NEW k \in 1..len PROVE all[k] = src[k] /\ src[k] \in Nat
    <3>1. k \in 1 .. 3 * q + 3 /\ k <= Len(src) /\ k \in 1..Len(src)
      BY <1>4, <1>14
    <3>2. src[k] \in Byte
      BY <1>4, <3>1, ElementOfSeq
    <3>3. src[k] \in Nat
      BY <3>2 DEF Byte
    <3> QED BY <1>9, <3>1, <3>3
  <2> DEFINE u == SubSeq(all, 1, len)
  <2>4. /\ u \in Seq(Nat) /\ Len(u) = (IF 1 <= len THEN len - 1 + 1 ELSE 0)
        /\ \A k \in 1 .. len - 1 + 1 : u[k] = all[1 + k - 1]
    <3>1. 1 \in Int /\ len \in Int /\ \A k \in 1..len : all[k] \in Nat
      BY <1>4, <2>3
    <3> QED BY <3>1, SubSeqProperties
  <2> HIDE DEF u
  <2>5. Len(u) = len
    BY <1>4, <2>4
  <2>6. ASSUME NEW k \in 1..len PROVE u[k] = src[k]
    <3>1. k \in 1 .. len - 1 + 1 /\ 1 + k - 1 = k
      BY <1>4
    <3> QED BY <2>3, <2>4, <3>1
  <2>7. src \in Seq(Nat)
    <3>1. Byte \subseteq Nat
      BY DEF Byte
    <3> QED BY <1>4, <2>3, SeqDef
  <2>8. u = src
    BY <1>4, <2>4, <2>5, <2>6, <2>7, SeqEqual
  <2> QED BY <1>1, <2>1, <2>2, <2>8 DEF u
<1>15. CASE len = 3 * q + 2 /\ DataChars = 4 * q + 3
  <2>1. p = 1 /\ len = 3 * q + 3 - 1
    BY <1>2, <1>3, <1>15
  <2> QED BY <2>1, <1>14
<1>16. CASE len = 3 * q + 1 /\ DataChars = 4 * q + 2
  <2>1. p = 2 /\ len = 3 * q + 3 - 2
    BY <1>2, <1>3, <1>16
  <2> QED BY <2>1, <1>14
<1> QED BY <1>4, <1>11, <1>13, <1>15, <1>16, PadCount

\* The decoder's progress does not depend on what else changes.
LEMMA HandedStays ==
    ASSUME UNCHANGED <<out, text>>, NEW h \in Nat
    PROVE  Handed(h)' = Handed(h)
  BY DEF Handed, Spliced

\* What was handed over is read from its start.
LEMMA StartsRound ==
    ASSUME EncodeInv, BitsInv, DecodeInv, RoundInv, DecodeStart
    PROVE  RoundInv' /\ RoundTrip'
<1>1. /\ pc = "decode" /\ UNCHANGED <<src, len, in, out, decodeVars>>
      /\ pc' \in {"refused", "nomem", "decoding"}
      /\ pc' = "refused" => Cardinality(Accepted) = 0 \/ Cardinality(Accepted) % 4 # 0
      /\ i = 0 /\ block = <<>> /\ pad = 0 /\ bytes = <<>>
  BY DEF DecodeStart, DecodeInv
<1>2. CASE out = <<>>
  BY <1>1, <1>2 DEF RoundInv, RoundTrip
<1>3. CASE out # <<>>
  <2>1. /\ src \in Seq(Byte) /\ len \in Nat /\ out \in Seq(Byte) /\ text \in Seq(Byte)
        /\ EncodedText
    BY <1>1, <1>3 DEF EncodeInv, DecodeInv, BitsInv
  <2>2. PICK h \in Nat : Handed(h)
    BY <1>1, <1>3 DEF RoundInv
  <2>3. Cardinality(Accepted) = Len(out) /\ Len(out) = 4 * ((len + 2) \div 3)
    BY <2>1, <2>2, HandedCount
  <2>4. Len(out) \in Nat /\ Len(out) # 0
    BY <1>3, <2>1, LenProperties, EmptySeq
  <2>5. pc' # "refused"
    <3>1. PICK d \in Nat : d = (len + 2) \div 3
      BY <2>1
    <3>2. (4 * d) % 4 = 0
      OBVIOUS
    <3> QED BY <1>1, <2>3, <2>4, <3>1, <3>2
  <2>6. Handed(h)'
    BY <1>1, <2>2, HandedStays DEF decodeVars
  <2>7. Progress(h, 0)'
    <3>1. i' = 0 /\ block' = <<>> /\ pad' = 0 /\ bytes' = <<>> /\ len' = len
      BY <1>1 DEF decodeVars
    <3>2. Place(i, h)' = 0 /\ Len(block') = 0 /\ Len(bytes') = 0
      BY <3>1 DEF Place
    <3>3. DataChars' \in Nat
      BY <2>1, <3>1 DEF DataChars
    <3> QED BY <2>1, <3>1, <3>2, <3>3 DEF Progress
  <2>8. RoundInv'
    BY <2>6, <2>7 DEF RoundInv
  <2> QED BY <1>1, <2>5, <2>8 DEF RoundTrip
<1> QED BY <1>2, <1>3

\* Only the foreign character is skipped.
LEMMA SkipsRound ==
    ASSUME EncodeInv, BitsInv, DecodeInv, RoundInv, DecodeSkip
    PROVE  RoundInv' /\ RoundTrip'
<1>1. /\ pc = "decoding" /\ pc' = "decoding" /\ i' = i + 1 /\ i < Len(text)
      /\ dtable[text[i + 1]] = 128
      /\ UNCHANGED <<src, len, out, text, block, pad, bytes>>
  BY DEF DecodeSkip
<1>2. CASE out = <<>>
  BY <1>1, <1>2 DEF RoundInv, RoundTrip
<1>3. CASE out # <<>>
  <2>1. /\ src \in Seq(Byte) /\ len \in Nat /\ out \in Seq(Byte) /\ text \in Seq(Byte)
        /\ EncodedText /\ i \in Nat /\ Len(text) \in Nat /\ Len(out) \in Nat
    BY <1>1, <1>3, LenProperties DEF EncodeInv, DecodeInv, BitsInv
  <2>2. PICK h \in Nat, q \in Nat : Handed(h) /\ Progress(h, q)
    BY <1>1, <1>3 DEF RoundInv
  <2>3. i + 1 \in 1..Len(text)
    BY <1>1, <2>1
  <2>4. i = h
    <3>1. \A k \in 1..Len(text) :
             k # h + 1 => Place(k, h) \in 1..Len(out) /\ text[k] = out[Place(k, h)]
      BY <2>1, <2>2, HandedText, Zenon
    <3>2. \A k \in 1..Len(out) : dtable[out[k]] # 128
      BY <2>1, DecodedChar, Zenon
    <3>3. i + 1 = h + 1
      <4> SUFFICES ASSUME i + 1 # h + 1 PROVE FALSE
        OBVIOUS
      <4>1. Place(i + 1, h) \in 1..Len(out) /\ text[i + 1] = out[Place(i + 1, h)]
        BY <2>3, <3>1, Zenon
      <4>2. PICK m \in 1..Len(out) : text[i + 1] = out[m]
        BY <4>1, Zenon
      <4> QED BY <1>1, <3>2, <4>2
    <3> QED BY <2>1, <3>3
  <2>5. Place(i, h)' = Place(i, h)
    BY <1>1, <2>1, <2>4 DEF Place
  <2>6. Handed(h)'
    BY <1>1, <2>2, HandedStays
  <2>7. (Place(i, h) = 4 * q + Len(block))'
    BY <1>1, <2>2, <2>5, Zenon DEF Progress
  <2>8. (\A k \in 1..Len(block) : block[k] = Sextet(4 * q + k - 1))'
    BY <1>1, <2>2, DataStays DEF Progress
  <2>9. (3 * q <= len /\ Len(bytes) = 3 * q /\ \A k \in 1 .. 3 * q : bytes[k] = src[k])'
    BY <1>1, <2>2 DEF Progress
  <2>10. (pad = IF Place(i, h) > DataChars THEN Place(i, h) - DataChars ELSE 0)'
    <3>1. DataChars' = DataChars
      BY <1>1, DataStays
    <3> QED BY <1>1, <2>2, <2>5, <3>1, Zenon DEF Progress
  <2>11. Progress(h, q)'
    BY <2>7, <2>8, <2>9, <2>10, Zenon DEF Progress
  <2>12. RoundInv'
    BY <2>6, <2>11 DEF RoundInv
  <2> QED BY <1>1, <2>12 DEF RoundTrip
<1> QED BY <1>2, <1>3

\* A character of the alphabet.
LEMMA ReadsRound ==
    ASSUME EncodeInv, BitsInv, DecodeInv, RoundInv, DecodeChar
    PROVE  RoundInv' /\ RoundTrip'
<1>1. /\ pc = "decoding" /\ UNCHANGED <<src, len, out, text>>
      /\ pc' \in {"refused", "decoded", "decoding"}
  BY DEF DecodeChar
<1>2. CASE out = <<>>
  BY <1>1, <1>2 DEF RoundInv, RoundTrip
<1>3. CASE out # <<>>
  <2>1. EncodedText
    BY <1>1, <1>3 DEF BitsInv
  <2>2. PICK h \in Nat, q \in Nat : Handed(h) /\ Progress(h, q)
    BY <1>1, <1>3 DEF RoundInv
  <2>3. Handed(h)'
    BY <1>1, <2>2, HandedStays
  <2>4. CASE pc' = "decoding" /\ \E n \in Nat : Progress(h, n)'
    BY <2>3, <2>4 DEF RoundInv, RoundTrip
  <2>5. CASE pc' = "decoded" /\ bytes' = src'
    BY <2>5 DEF RoundInv, RoundTrip
  <2>6. CASE Len(block) # 3
    BY <2>1, <2>2, <2>4, <2>6, InsideBlock
  <2>7. CASE Len(block) = 3
    <3>1. q + 1 \in Nat
      OBVIOUS
    <3> QED BY <2>1, <2>2, <2>4, <2>5, <2>7, <3>1, BlockEnds
  <2> QED BY <2>6, <2>7
<1> QED BY <1>2, <1>3

\* When the text ends inside no block, the data is complete.
LEMMA EndsRound ==
    ASSUME EncodeInv, BitsInv, DecodeInv, RoundInv, DecodeEnd
    PROVE  RoundInv' /\ RoundTrip'
<1>1. /\ pc = "decoding" /\ pc' = "decoded" /\ i = Len(text)
      /\ UNCHANGED <<src, len, out, text, bytes>>
  BY DEF DecodeEnd, decodeVars
<1>2. CASE out = <<>>
  BY <1>1, <1>2 DEF RoundInv, RoundTrip
<1>3. CASE out # <<>>
  <2>1. /\ src \in Seq(Byte) /\ len \in Nat /\ out \in Seq(Byte) /\ text \in Seq(Byte)
        /\ EncodedText /\ Len(src) = len /\ Len(block) < 4 /\ block \in Seq(0..63)
        /\ bytes \in Seq(Nat)
    BY <1>1, <1>3 DEF EncodeInv, DecodeInv, BitsInv, EncodedText
  <2>2. PICK h \in Nat, q \in Nat : Handed(h) /\ Progress(h, q)
    BY <1>1, <1>3 DEF RoundInv
  <2>3. Place(i, h) = Len(out)
    BY <1>1, <2>1, <2>2, HandedText
  <2>4. Len(out) = 4 * ((len + 2) \div 3)
    BY <2>1, <2>2, HandedCount
  <2>5. Place(i, h) = 4 * q + Len(block)
    BY <2>2, Zenon DEF Progress
  <2>6. PICK d \in Nat : d = (len + 2) \div 3 /\ len <= 3 * d
    <3>1. (len + 2) \div 3 \in Nat /\ len <= 3 * ((len + 2) \div 3)
      BY <2>1
    <3> QED BY <3>1
  <2>7. PICK l \in Nat : l = Len(block) /\ l < 4
    BY <2>1, LenProperties
  <2>8. 4 * d = 4 * q + l
    BY <2>3, <2>4, <2>5, <2>6, <2>7
  <2>9. d = q
    BY <2>7, <2>8
  <2>10. 3 * q <= len /\ Len(bytes) = 3 * q /\ \A k \in 1 .. 3 * q : bytes[k] = src[k]
    BY <2>2 DEF Progress
  <2>11. len = 3 * q
    BY <2>1, <2>6, <2>9, <2>10
  <2>12. src \in Seq(Nat)
    <3>1. ASSUME NEW k \in 1..Len(src) PROVE src[k] \in Nat
      <4>1. src[k] \in Byte
        BY <2>1, ElementOfSeq
      <4>2. Byte \subseteq Nat
        BY DEF Byte
      <4> QED BY <4>1, <4>2, Zenon
    <3> QED BY <2>1, <3>1, SeqDef
  <2>13. bytes = src
    BY <2>1, <2>10, <2>11, <2>12, SeqEqual
  <2> QED BY <1>1, <2>13 DEF RoundInv, RoundTrip
<1> QED BY <1>2, <1>3

\* Every step keeps the decoder in step with the data.
LEMMA RoundStep ==
    EncodeInv /\ BitsInv /\ DecodeInv /\ RoundInv /\ RoundTrip /\ [Next]_vars => (RoundInv /\ RoundTrip)'
<1> SUFFICES ASSUME EncodeInv, BitsInv, DecodeInv, RoundInv, RoundTrip, [Next]_vars
             PROVE  RoundInv' /\ RoundTrip'
  OBVIOUS
<1>1. CASE EncodeStart
  <2>1. out' = <<>> /\ pc' \in {"refused", "nomem", "sized", "block"}
    BY <1>1 DEF EncodeStart, EncodeInv
  <2> QED BY <2>1 DEF RoundInv, RoundTrip
<1>2. CASE EncodeBlock \/ EncodeTail
  <2>1. pc' \in {"block", "encoded"}
    BY <1>2 DEF EncodeBlock, EncodeTail
  <2> QED BY <2>1 DEF RoundInv, RoundTrip
<1>3. CASE Hand
  <2>1. pc' = "decode" /\ out' = out /\ out \in Seq(Byte)
    BY <1>3 DEF Hand, EncodeInv
  <2>2. Len(out) \in Nat
    BY <2>1, LenProperties
  <2>3. \E h \in Nat : Handed(h)'
    <3>1. CASE text' = out
      <4>1. Len(out) + 1 \in Nat
        BY <2>2
      <4>2. \A n : Len(out) + 1 = n => Handed(n)'
        BY <2>1, <3>1 DEF Handed
      <4> QED BY <4>1, <4>2
    <3>2. CASE \E k \in 0..Len(out), c \in Byte : dtable[c] = 128 /\ Spliced(text', out, k, c)
      <4>1. PICK k \in 0..Len(out), c \in Byte : dtable[c] = 128 /\ Spliced(text', out, k, c)
        BY <3>2
      <4>2. k \in Nat
        BY <2>2
      <4>3. Handed(k)'
        BY <2>1, <4>1 DEF Handed, Spliced
      <4> QED BY <4>2, <4>3
    <3> QED BY <1>3, <2>1, <3>1, <3>2, HandText
  <2> QED BY <2>1, <2>3 DEF RoundInv, RoundTrip
<1>4. CASE DecodeStart
  BY <1>4, StartsRound
<1>5. CASE DecodeSkip
  BY <1>5, SkipsRound
<1>6. CASE DecodeChar
  BY <1>6, ReadsRound
<1>7. CASE DecodeEnd
  BY <1>7, EndsRound
<1>8. CASE UNCHANGED vars
  <2>1. /\ \A h \in Nat : Handed(h)' = Handed(h)
        /\ \A h \in Nat, q \in Nat : Progress(h, q)' = Progress(h, q)
    BY <1>8 DEF Handed, Spliced, Progress, Place, DataChars, Sextet, Bit, vars
  <2> QED BY <1>8, <2>1 DEF RoundInv, RoundTrip, vars
<1> QED BY <1>1, <1>2, <1>3, <1>4, <1>5, <1>6, <1>7, <1>8 DEF Next

\* b64_decode gives back what b64_encode was given, for data of every length and
\* content and with a foreign character anywhere in the text; it refuses no text
\* that was encoded from data.
THEOREM DecodingInverts == Spec => []RoundTrip
<1>1. Init => EncodeInv /\ BitsInv /\ DecodeInv /\ RoundInv /\ RoundTrip
  <2>1. Init => RoundInv /\ RoundTrip
    BY DEF Init, RoundInv, RoundTrip
  <2> QED BY <2>1, EncodeInit, BitsInit, DecodeInit
<1>2. EncodeInv /\ BitsInv /\ DecodeInv /\ RoundInv /\ RoundTrip /\ [Next]_vars
      => (EncodeInv /\ BitsInv /\ DecodeInv /\ RoundInv /\ RoundTrip)'
  BY EncodeStep, BitsStep, DecodeStep, RoundStep
<1> QED BY <1>1, <1>2, PTL DEF Spec
=============================================================================
