------------------------------ MODULE Allocator ------------------------------
(***************************************************************************)
(* What kernel/memory.c promises its clients (memory.h:17-29), with no     *)
(* block list: a client holds disjoint extents of the heap, each with a    *)
(* header's room before it and at least as large as the client asked for.  *)
(* Where an extent lies is the allocator's choice.  A call may be refused, *)
(* and then nothing changes; which calls the kernel heap refuses is said   *)
(* by Heap's NoFalseRefusal.                                               *)
(***************************************************************************)
EXTENDS Integers

CONSTANTS HeapSize, HeaderSize, Requests

VARIABLES
  owned,    (* each pointer a client holds, with the bytes it asked for    *)
  extent,   (* the same pointers, with the bytes each really leads to      *)
  ret       (* what the last call returned                                 *)

vars == <<owned, extent, ret>>

NULL == 0

Without(f, p) == [q \in DOMAIN f \ {p} |-> f[q]]
With(f, p, v) == [q \in DOMAIN f \cup {p} |-> IF q = p THEN v ELSE f[q]]

(* c bytes at p, and the header before them, lie in the heap and touch no  *)
(* extent that a client holds.                                             *)
Fits(p, c) ==
  /\ HeaderSize <= p /\ p + c <= HeapSize
  /\ \A q \in DOMAIN extent :
       p + c <= q - HeaderSize \/ q + extent[q] <= p - HeaderSize

Init == owned = <<>> /\ extent = <<>> /\ ret = NULL

(* malloc, calloc: n bytes somewhere in the heap.                          *)
Grant(n) ==
  \E p \in 1 .. HeapSize :
    /\ ret' = p
    /\ owned' = With(owned, p, n)
    /\ \E c \in n .. HeapSize : Fits(p, c) /\ extent' = With(extent, p, c)

Refuse ==
  /\ ret' = NULL
  /\ UNCHANGED <<owned, extent>>

(* free, and realloc to nothing.                                           *)
Free(p) ==
  /\ ret' = NULL
  /\ owned' = Without(owned, p)
  /\ extent' = Without(extent, p)

(* realloc that leaves the block where it is, for n of its bytes.          *)
Keep(p, n) ==
  /\ n <= extent[p]
  /\ ret' = p
  /\ owned' = With(owned, p, n)
  /\ UNCHANGED extent

(* realloc that moves the block: the new one is disjoint from the old, as  *)
(* a memcpy between them needs, and holds all of it.                       *)
Move(p, n) ==
  \E q \in 1 .. HeapSize :
    /\ ret' = q
    /\ owned' = With(Without(owned, p), q, n)
    /\ \E c \in n .. HeapSize :
         /\ Fits(q, c) /\ extent[p] <= c
         /\ extent' = With(Without(extent, p), q, c)

Next ==
  \/ Refuse
  \/ \E n \in Requests : Grant(n)
  \/ \E p \in DOMAIN owned : Free(p)
  \/ \E p \in DOMAIN owned, n \in Requests : Keep(p, n) \/ Move(p, n)

Spec == Init /\ [][Next]_vars
=============================================================================
