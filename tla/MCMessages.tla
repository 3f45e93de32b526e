----------------------------- MODULE MCMessages -----------------------------
(***************************************************************************)
(* Messages for TLC.  A slot holds nothing, something that is no object, a *)
(* string (which can be read as a byte vector too) or a wide scalar (which *)
(* can be read as a narrow one).                                           *)
(***************************************************************************)
EXTENDS Messages

MCCells == {Absent, {}, {"string", "bytes"}, Scalars}
\* The default of the price field, zero, and another price.
MCPrices == {-1, 0, 5}
=============================================================================
