------------------------------- MODULE Base64 -------------------------------
(***************************************************************************)
(* b64_encode and b64_decode of backend/src/utils.c, one action per turn   *)
(* of their loops.  The handlers store password hashes and tokens in this  *)
(* form.  A behaviour encodes some bytes and decodes the result, possibly  *)
(* after foreign characters (line breaks) got into it, or decodes an       *)
(* arbitrary text.  Bytes and characters are numbers, as in the code.      *)
(***************************************************************************)
EXTENDS Integers, Sequences, FiniteSets

CONSTANTS
    Bytes,      \* bytes of the data that is encoded
    MaxLen,     \* bound: length of data whose content is enumerated
    Modulus,    \* 2^64: arithmetic of size_t
    Lengths,    \* other lengths, for the size computation only
    Chars,      \* characters of arbitrary texts to decode
    MaxText,    \* bound: their length
    Foreign     \* characters put into encoded text

ASSUME Base64Assumption ==
    /\ Bytes \subseteq 0..255 /\ Chars \subseteq 0..255 /\ Foreign \subseteq 0..255
    /\ MaxLen \in Nat /\ MaxText \in Nat
    /\ Modulus \in Nat /\ Modulus >= 256
    /\ Lengths \subseteq 0 .. Modulus - 1 /\ MaxLen < Modulus

Strings(S, n) == UNION {[1..k -> S] : k \in 0..n}

VARIABLES
    pc,     \* encode, block, encoded; decode, decoding, decoded; refused, nomem (NULL);
            \* sized: a length whose content is not enumerated
    src,    \* the data
    len,    \* its length
    olen,   \* size of the buffer that was allocated
    in,     \* bytes consumed
    out,    \* characters written
    text,   \* what is decoded
    i,      \* characters consumed
    block,  \* the characters of the current block, decoded
    pad,
    bytes   \* bytes written

vars == <<pc, src, len, olen, in, out, text, i, block, pad, bytes>>

Init ==
    /\ olen = 0 /\ in = 0 /\ out = <<>> /\ i = 0 /\ block = <<>> /\ pad = 0 /\ bytes = <<>>
    /\ \/ /\ pc = "encode" /\ src \in Strings(Bytes, MaxLen) /\ len = Len(src) /\ text = <<>>
       \/ /\ pc = "encode" /\ src = <<>> /\ len \in Lengths /\ text = <<>>
       \/ /\ pc = "decode" /\ src = <<>> /\ len = 0 /\ text \in Strings(Chars, MaxText)

-----------------------------------------------------------------------------
\* base64_table, as character codes.
base64_table(n) ==
    CASE n < 26 -> 65 + n
      [] 26 <= n /\ n < 52 -> 97 + n - 26
      [] 52 <= n /\ n < 62 -> 48 + n - 52
      [] n = 62 -> 43
      [] n > 62 -> 47
Equals == 61

\* The inverse, 128 for the characters that are skipped.
dtable == [c \in 0..255 |->
    IF c = Equals THEN 0
    ELSE IF \E n \in 0..63 : base64_table(n) = c
         THEN CHOOSE n \in 0..63 : base64_table(n) = c
         ELSE 128]

\* Foreign characters are none of the alphabet.
ASSUME ForeignAssumption == \A c \in Foreign : dtable[c] = 128

SizeForUnpadded(n) == ((((n * 4) % Modulus) \div 3) + 1) % Modulus
\* The size of the buffer: olen = len * 4 / 3 + 4; olen += olen / 72; olen++
SizeFor(n) ==
    LET a == (((n * 4) % Modulus) \div 3 + 4) % Modulus
        b == (a + a \div 72) % Modulus
    IN  (b + 1) % Modulus

decodeVars == <<text, i, block, pad, bytes>>

\* malloc may fail.
EncodeStart ==
    /\ pc = "encode"
    /\ olen' = SizeFor(len)
    /\ IF SizeFor(len) < len THEN pc' = "refused"
       ELSE pc' \in {"nomem", IF Len(src) # len THEN "sized" ELSE "block"}
    /\ UNCHANGED <<src, len, in, out, decodeVars>>

\* Byte k of the rest of the input.
At(k) == src[in + 1 + k]

\* while (end - in >= 3)
EncodeBlock ==
    /\ pc = "block" /\ len - in >= 3
    /\ out' = out \o <<base64_table(At(0) \div 4),
                       base64_table((At(0) % 4) * 16 + (At(1) \div 16)),
                       base64_table((At(1) % 16) * 4 + (At(2) \div 64)),
                       base64_table(At(2) % 64)>>
    /\ in' = in + 3
    /\ UNCHANGED <<pc, src, len, olen, decodeVars>>

EncodeTailShort ==
    /\ pc = "block" /\ len - in < 3 /\ pc' = "encoded"
    /\ out' = CASE len - in = 0 -> out
                [] len - in = 1 -> out \o <<base64_table(At(0) \div 4),
                                            base64_table((At(0) % 4) * 16), Equals>>
                [] len - in = 2 -> out \o <<base64_table(At(0) \div 4),
                                            base64_table((At(0) % 4) * 16 + (At(1) \div 16)),
                                            base64_table((At(1) % 16) * 4), Equals>>
    /\ UNCHANGED <<src, len, olen, in, decodeVars>>
\* if (end - in): one byte or two are left
EncodeTail ==
    /\ pc = "block" /\ len - in < 3 /\ pc' = "encoded"
    /\ out' = CASE len - in = 0 -> out
                [] len - in = 1 -> out \o <<base64_table(At(0) \div 4),
                                            base64_table((At(0) % 4) * 16), Equals, Equals>>
                [] len - in = 2 -> out \o <<base64_table(At(0) \div 4),
                                            base64_table((At(0) % 4) * 16 + (At(1) \div 16)),
                                            base64_table((At(1) % 16) * 4), Equals>>
    /\ UNCHANGED <<src, len, olen, in, decodeVars>>

\* Somebody hands the text to b64_decode, with or without a foreign character.
Hand ==
    /\ pc = "encoded" /\ pc' = "decode"
    /\ \/ text' = out
       \/ \E c \in Foreign, k \in 0..Len(out) :
             text' = SubSeq(out, 1, k) \o <<c>> \o SubSeq(out, k + 1, Len(out))
    /\ UNCHANGED <<src, len, olen, in, out, i, block, pad, bytes>>

-----------------------------------------------------------------------------
AcceptedNoPad == {k \in DOMAIN text : dtable[text[k]] # 128 /\ text[k] # Equals}
Accepted == {k \in DOMAIN text : dtable[text[k]] # 128}

\* The first loop counts; malloc(count / 4 * 3).
DecodeStart ==
    /\ pc = "decode"
    /\ LET count == Cardinality(Accepted) IN
       IF count = 0 \/ count % 4 # 0
       THEN pc' = "refused" /\ UNCHANGED olen
       ELSE pc' \in {"nomem", "decoding"} /\ olen' = (count \div 4) * 3
    /\ UNCHANGED <<src, len, in, out, decodeVars>>

\* The four sextets of a block as bytes (assignments to unsigned char).
Unpack(b) ==
    <<(b[1] * 4 + b[2] \div 16) % 256,
      ((b[2] * 16) % 256) + b[3] \div 4,
      ((b[3] * 64) % 256) + b[4]>>

DecodeSkip ==
    /\ pc = "decoding" /\ i < Len(text) /\ dtable[text[i + 1]] = 128
    /\ i' = i + 1
    /\ UNCHANGED <<pc, src, len, olen, in, out, text, block, pad, bytes>>

DecodeCharStuck ==
    /\ pc = "decoding" /\ i < Len(text) /\ dtable[text[i + 1]] # 128
    /\ i' = i + 1
    /\ LET c    == text[i + 1]
           next == Append(block, dtable[c])
           full == Len(next) = 4
       IN  /\ pad' = (IF c = Equals THEN pad + 1 ELSE pad)
           /\ block' = (IF full THEN <<>> ELSE next)
           /\ bytes' = (IF full THEN bytes \o Unpack(next) ELSE bytes)
           /\ pc' = "decoding"
    /\ UNCHANGED <<src, len, olen, in, out, text>>
\* A character of the alphabet; the fourth completes a block, and a block with
\* padding is the last.
DecodeChar ==
    /\ pc = "decoding" /\ i < Len(text) /\ dtable[text[i + 1]] # 128
    /\ i' = i + 1
    /\ LET c    == text[i + 1]
           next == Append(block, dtable[c])
           p    == IF c = Equals THEN pad + 1 ELSE pad
           full == Len(next) = 4
           all  == bytes \o Unpack(next)
       IN  /\ pad' = p
           /\ block' = (IF full THEN <<>> ELSE next)
           /\ bytes' = (IF ~full THEN bytes ELSE IF p \in {1, 2} THEN SubSeq(all, 1, Len(all) - p)
                        ELSE all)
           /\ pc' = (IF full /\ p > 2 THEN "refused" ELSE IF full /\ p > 0 THEN "decoded"
                     ELSE "decoding")
    /\ UNCHANGED <<src, len, olen, in, out, text>>

DecodeEnd ==
    /\ pc = "decoding" /\ i = Len(text)
    /\ pc' = "decoded"
    /\ UNCHANGED <<src, len, olen, in, out, decodeVars>>

Next ==
    \/ EncodeStart \/ EncodeBlock \/ EncodeTail \/ Hand
    \/ DecodeStart \/ DecodeSkip \/ DecodeChar \/ DecodeEnd

Spec == Init /\ [][Next]_vars

-----------------------------------------------------------------------------
(***************************************************************************)
(* Properties.                                                             *)
(***************************************************************************)

\* The counters stay inside their sequences, and a block has less than four
\* characters between two turns of the loop.
TypeOK ==
    /\ pc \in {"encode", "block", "encoded", "sized", "decode", "decoding", "decoded",
               "refused", "nomem"}
    /\ olen \in Nat /\ in \in 0..len /\ i \in 0..Len(text) /\ pad \in 0..4
    /\ Len(block) < 4

\* Encoded text with its terminator.
EncodedSize(n) == 4 * ((n + 2) \div 3) + 1

\* For every length, also one for which the computation of the size wraps
\* around, b64_encode refuses or allocates enough for what it writes.
BufferSuffices ==
    /\ pc \in {"block", "encoded", "sized"} => EncodedSize(len) <= olen
    /\ pc \in {"block", "encoded"} => Len(out) + 1 <= olen

\* Bit k of the data, the highest of a byte first; beyond the end a zero.
Weight == <<128, 64, 32, 16, 8, 4, 2, 1>>
Bit(k) ==
    IF k \div 8 < Len(src) THEN (src[k \div 8 + 1] \div Weight[(k % 8) + 1]) % 2 ELSE 0
Sextet(k) ==
    32 * Bit(6 * k) + 16 * Bit(6 * k + 1) + 8 * Bit(6 * k + 2) + 4 * Bit(6 * k + 3)
    + 2 * Bit(6 * k + 4) + Bit(6 * k + 5)

\* The text is that of RFC 4648: character k stands for bits 6k to 6k + 5, and
\* '=' fills the last block.
EncodesBits ==
    pc = "encoded" =>
        /\ Len(out) = EncodedSize(len) - 1
        /\ \A k \in 0 .. Len(out) - 1 :
              out[k + 1] = IF 6 * k < 8 * len THEN base64_table(Sextet(k)) ELSE Equals

\* Decoding what was encoded gives the data back, foreign characters or not;
\* only the empty text is refused.
RoundTrip ==
    /\ pc = "decoded" /\ out # <<>> => bytes = src
    /\ pc = "refused" => out = <<>>

\* b64_decode writes inside its buffer for every text, padding in the middle
\* of it included: there is room for three bytes whenever a block is begun.
DecodeFits ==
    /\ pc \in {"decoding", "decoded"} => Len(bytes) <= olen
    /\ pc = "decoding" /\ block # <<>> => Len(bytes) + 3 <= olen
=============================================================================
