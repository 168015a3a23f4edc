------------------------------- MODULE Adjust -------------------------------
(***************************************************************************)
(* adjust() of the coalescing allocator: from the size a caller asks for,  *)
(* a size_t, to the size of the block to look for, an int.  The two copies *)
(* of the file differ in one word: for a request that needs no rounding,   *)
(* the "merge" copy returns the clamped size and "final" the request itself. *)
(***************************************************************************)
EXTENDS Heap

CONSTANTS
  INT,      \* 2^31: an int holds -INT .. INT - 1
  Version   \* which copy of dlmall.c: "merge" or "final"

ASSUME AdjustAssumption ==
  /\ INT \in Nat \ {0} /\ ARENA <= INT
  /\ ALIGN <= INT
  /\ Version \in {"merge", "final"}

\* Conversion of an integer to int: two's complement of the same width.
ToInt(x) == ((x + INT) % (2 * INT)) - INT

\* C's remainder takes the sign of the dividend.
Remainder(a, n) == IF a >= 0 THEN a % n ELSE -((-a) % n)

\* Mutant of adjust: rounds down to a multiple of ALIGN.
adjust_Down(request) == MIN(request) - (MIN(request) % ALIGN)

\* Mutant of adjust: no rounding.
adjust_Raw(request) == MIN(request)

adjust(request) ==
  LET min == ToInt(MIN(request))
      rem == Remainder(min, ALIGN)
  IN IF rem = 0
     THEN IF Version = "final" THEN ToInt(request) ELSE min
     ELSE ToInt(min + ALIGN - rem)
=============================================================================
