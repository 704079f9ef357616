----------------------------- MODULE MCHeapWrap -----------------------------
(* The heap where a request may be so large that the rounding of malloc    *)
(* (memory.c:97) or the product of calloc (160) wraps around in size_t,    *)
(* which here has 8 bits: 252 + 7 and 3 * 100 do.                          *)
EXTENDS Heap

MCRequests == {20, 100, 252}
MCCounts   == {1, 3}
=============================================================================
