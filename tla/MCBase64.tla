------------------------------ MODULE MCBase64 ------------------------------
(***************************************************************************)
(* Base64 for TLC, with 12 bit sizes and every length they can express.    *)
(***************************************************************************)
EXTENDS Base64

MCLengths == 6 .. Modulus - 1
=============================================================================
