-------------------------------- MODULE MCArena --------------------------------
(***************************************************************************)
(* An arena in an address space of 128 bytes with two arrays, one of which *)
(* cannot grow to four elements without its size wrapping around.          *)
(* Requests come from both sides of every limit: empty, unaligned, filling *)
(* a chunk, larger than a default chunk, too large for a chunk with its    *)
(* header and too large to be rounded up.                                  *)
(***************************************************************************)
EXTENDS Arena

CONSTANTS v, w

ArrayElemSize == [a \in {v, w} |-> IF a = v THEN 8 ELSE 40]

=============================================================================
