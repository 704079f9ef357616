-------------------------------- MODULE Heap --------------------------------
(***************************************************************************)
(* The kernel heap of kernel/memory.c (the kernel-mode half, lines 24-187).*)
(*                                                                         *)
(* heap[] is one static array cut into blocks.  A block is a header        *)
(* (magic, size, is_free, next) followed by its payload, and the headers   *)
(* form a singly linked list from heap_start.  Here the list is a sequence *)
(* of records in link order, so "next" is the position after; addresses    *)
(* are byte offsets into heap[], and the addr field is where the header    *)
(* lies.  That the blocks also tile the array in that order is not built   *)
(* into the representation: it is the invariant Tiling.                    *)
(*                                                                         *)
(* The magic word of a header is kept as membership in spoiled: the        *)
(* addresses of the headers that a memcpy or memset has run over.  The     *)
(* code tests the word before it reads anything else of a header (47, 78,  *)
(* 118, 140, 178), so the other fields of a spoiled one do not matter.     *)
(* Two assumptions: bytes copied or set over a header are never            *)
(* BLOCK_MAGIC, and the client stays inside the payloads it was given and  *)
(* frees and reallocates only the pointers it holds, so that realloc's     *)
(* memcpy (153) and calloc's memset (163) are all that can spoil a header. *)
(***************************************************************************)
EXTENDS Integers, Sequences, FiniteSetsExt

CONSTANTS
  HeapSize,    (* HEAP_SIZE: the bytes of heap[]                           *)
  HeaderSize,  (* sizeof(block_header_t): 16 in the 32-bit build           *)
  SizeMod,     (* 2^w, w the width of size_t: 2^32 in the build            *)
  Requests,    (* the sizes a client passes to malloc, calloc and realloc  *)
  Counts       (* the element counts a client passes to calloc             *)

ASSUME HeapAssumption ==
  /\ HeaderSize \in Nat \ {0} /\ HeaderSize % 8 = 0
  /\ HeapSize \in Nat /\ HeapSize % 8 = 0 /\ HeapSize >= HeaderSize
  /\ SizeMod \in Nat /\ SizeMod % 8 = 0 /\ SizeMod > HeapSize + HeaderSize + 16
  /\ Requests \subseteq 0 .. SizeMod - 1
  /\ Counts \subseteq 0 .. SizeMod - 1

VARIABLES
  blocks,      (* the block list, from heap_start along next               *)
  spoiled,     (* the addresses of the headers without their BLOCK_MAGIC   *)
  freeMemory,  (* free_memory                                              *)
  owned,       (* the client: each pointer it holds, with the bytes it     *)
               (* asked for                                                *)
  ret          (* what the last call returned                              *)

vars == <<blocks, spoiled, freeMemory, owned, ret>>

(* No payload lies at offset 0, where the first header is.                 *)
NULL == 0

Block(addr, size, free) == [addr |-> addr, size |-> size, free |-> free]
Payload(b) == b.addr + HeaderSize
EndOf(b)   == b.addr + HeaderSize + b.size

-----------------------------------------------------------------------------
(* The helpers of memory.c, as functions of a block list and the set bad   *)
(* of the addresses of its spoiled headers.                                *)

(* Definitions named ..._No..., ..._Keeps... and the like, here and below, *)
(* are mistakes to check the properties with: each takes the place of the  *)
(* definition after it in a mutation run and nothing else uses it.         *)
AlignUp_RoundsDown(n) == (n \div 8) * 8
Candidates_IgnoresFree(bs, size, bad) == { i \in DOMAIN bs : bs[i].size >= size }
Candidates_Strict(bs, size, bad) ==
  { i \in DOMAIN bs : bs[i].free /\ bs[i].size > size }

(* malloc's (size + 7) & ~7 in size_t arithmetic.                          *)
AlignUp(n) == (((n + 7) % SizeMod) \div 8) * 8

(* No header of bs is spoiled.                                             *)
Intact(bs, bad) == \A i \in DOMAIN bs : bs[i].addr \notin bad

(* The free blocks that can hold size bytes and that the search reaches:   *)
(* it gives up at a spoiled header.  find_free_block returns the first of  *)
(* them along the list, or NULL when there is none.                        *)
Candidates(bs, size, bad) ==
  { i \in DOMAIN bs :
      bs[i].free /\ bs[i].size >= size /\ Intact(SubSeq(bs, 1, i), bad) }
FindFreeBlock(bs, size, bad) == Min(Candidates(bs, size, bad))

SplitBlock_NoHeader(bs, i, size) ==
  IF bs[i].size > size + HeaderSize + 16
  THEN SubSeq(bs, 1, i - 1)
         \o << [bs[i] EXCEPT !.size = size],
               Block(bs[i].addr + HeaderSize + size, bs[i].size - size, TRUE) >>
         \o SubSeq(bs, i + 1, Len(bs))
  ELSE bs

(* split_block: the tail becomes a free block of its own when more than a  *)
(* header and 16 bytes would be left over.                                 *)
SplitBlock(bs, i, size) ==
  IF bs[i].size > size + HeaderSize + 16
  THEN SubSeq(bs, 1, i - 1)
         \o << [bs[i] EXCEPT !.size = size],
               Block(bs[i].addr + HeaderSize + size,
                     bs[i].size - size - HeaderSize, TRUE) >>
         \o SubSeq(bs, i + 1, Len(bs))
  ELSE bs

Allocate_LeavesFree(bs, i, size) == SplitBlock(bs, i, size)
Allocate(bs, i, size) == [SplitBlock(bs, i, size) EXCEPT ![i].free = FALSE]

Absorb_NoHeader(acc, b, bad) ==
  IF acc # <<>> /\ acc[Len(acc)].free /\ b.free
  THEN [acc EXCEPT ![Len(acc)].size = @ + b.size]
  ELSE Append(acc, b)

Absorb_NoUnlink(acc, b, bad) ==
  IF acc # <<>> /\ acc[Len(acc)].free /\ b.free
  THEN Append([acc EXCEPT ![Len(acc)].size = @ + HeaderSize + b.size], b)
  ELSE Append(acc, b)

(* One turn of merge_free_blocks' loop: the block at "current" is the last *)
(* of acc; it swallows a free neighbour b when it is free itself, and      *)
(* "current" moves on to b otherwise.  The loop ends at a spoiled header:  *)
(* nothing behind it is merged.                                            *)
Absorb(acc, b, bad) ==
  IF acc # <<>> /\ acc[Len(acc)].free /\ b.free /\ Intact(Append(acc, b), bad)
  THEN [acc EXCEPT ![Len(acc)].size = @ + HeaderSize + b.size]
  ELSE Append(acc, b)

MergeFreeBlocks(bs, bad) ==
  LET merged[k \in 0 .. Len(bs)] ==
        IF k = 0 THEN <<>> ELSE Absorb(merged[k - 1], bs[k], bad)
  IN  merged[Len(bs)]

(* The position of the block whose payload is at p: free and realloc step  *)
(* back over the header to it.                                             *)
BlockAt(bs, p) == CHOOSE i \in DOMAIN bs : Payload(bs[i]) = p

Release_NoMerge(bs, p, bad) == [bs EXCEPT ![BlockAt(bs, p)].free = TRUE]

(* free, and the bytes it gives back to free_memory; of a spoiled header   *)
(* it changes nothing.                                                     *)
Release(bs, p, bad) ==
  IF p - HeaderSize \in bad
  THEN bs
  ELSE MergeFreeBlocks([bs EXCEPT ![BlockAt(bs, p)].free = TRUE], bad)

Returned(bs, p, bad) ==
  IF p - HeaderSize \in bad THEN 0 ELSE bs[BlockAt(bs, p)].size

(* The headers of bs that n bytes written from dst on run over.  Addresses *)
(* wrap in size_t: a memset of nearly SizeMod bytes reaches them all.      *)
Overwritten(bs, dst, n) ==
  { bs[i].addr : i \in { j \in DOMAIN bs : (bs[j].addr - dst) % SizeMod < n } }

-----------------------------------------------------------------------------
Init_CountsHeader ==
  /\ blocks = << Block(0, HeapSize - HeaderSize, TRUE) >>
  /\ spoiled = {}
  /\ freeMemory = HeapSize
  /\ owned = <<>>
  /\ ret = NULL

(* memory_init.  kernel_main calls it before anything allocates.           *)
Init ==
  /\ blocks = << Block(0, HeapSize - HeaderSize, TRUE) >>
  /\ spoiled = {}
  /\ freeMemory = HeapSize - HeaderSize
  /\ owned = <<>>
  /\ ret = NULL

(* The client forgets p, and remembers that it asked for n bytes at q.     *)
Forget(f, p)      == [q \in DOMAIN f \ {p} |-> f[q]]
Remember(f, q, n) == [r \in DOMAIN f \cup {q} |-> IF r = q THEN n ELSE f[r]]

(* malloc(n) succeeds; the client will use asked bytes of the block, and   *)
(* filled bytes from its payload on are written before it is handed over.  *)
MallocGrants(n, asked, filled) ==
  LET size == AlignUp(n)
      i    == FindFreeBlock(blocks, size, spoiled)
      bs   == Allocate(blocks, i, size)
  IN  /\ n # 0
      /\ Candidates(blocks, size, spoiled) # {}
      /\ blocks' = bs
      /\ spoiled' = spoiled \cup Overwritten(bs, Payload(bs[i]), filled)
      /\ freeMemory' = freeMemory - bs[i].size
      /\ ret' = Payload(bs[i])
      /\ owned' = Remember(owned, ret', asked)

(* malloc(n) returns NULL: a request for nothing, or no block is left.     *)
MallocRefuses(n) ==
  /\ n = 0 \/ Candidates(blocks, AlignUp(n), spoiled) = {}
  /\ ret' = NULL
  /\ UNCHANGED <<blocks, spoiled, freeMemory, owned>>

(* malloc, and realloc of a NULL pointer, which is the same.               *)
Malloc(n) == MallocGrants(n, n, 0) \/ MallocRefuses(n)

(* calloc multiplies in size_t arithmetic; the client counts on all of     *)
(* nmemb * size bytes.  The memset covers the wrapped total: for one of    *)
(* the seven largest the block has no byte, and all of memory is cleared   *)
(* (the kernel's image with it; the model goes on with memory.c's code).   *)
Calloc(nmemb, size) ==
  LET total == (nmemb * size) % SizeMod
  IN  MallocGrants(total, nmemb * size, total) \/ MallocRefuses(total)

(* free of a pointer the client holds.                                     *)
Free(p) ==
  /\ blocks' = Release(blocks, p, spoiled)
  /\ freeMemory' = freeMemory + Returned(blocks, p, spoiled)
  /\ owned' = Forget(owned, p)
  /\ ret' = NULL
  /\ UNCHANGED spoiled

(* realloc(p, n) when the block is already large enough.                   *)
ReallocInPlace(p, n) ==
  /\ n # 0
  /\ p - HeaderSize \notin spoiled
  /\ blocks[BlockAt(blocks, p)].size >= n
  /\ ret' = p
  /\ owned' = Remember(owned, p, n)
  /\ UNCHANGED <<blocks, spoiled, freeMemory>>

(* realloc(p, n) when it is not: malloc, memcpy of the old block's size    *)
(* bytes, then free of the old block, whose own header the copy may have   *)
(* run over.                                                               *)
ReallocMoves(p, n) ==
  LET size == AlignUp(n)
      i    == FindFreeBlock(blocks, size, spoiled)
      bs   == Allocate(blocks, i, size)
      old  == blocks[BlockAt(blocks, p)]
  IN  /\ n # 0
      /\ p - HeaderSize \notin spoiled
      /\ old.size < n
      /\ Candidates(blocks, size, spoiled) # {}
      /\ spoiled' = spoiled \cup Overwritten(bs, Payload(bs[i]), old.size)
      /\ blocks' = Release(bs, p, spoiled')
      /\ freeMemory' = (freeMemory - bs[i].size) + Returned(bs, p, spoiled')
      /\ ret' = Payload(bs[i])
      /\ owned' = Remember(Forget(owned, p), ret', n)

(* realloc(p, n) of a spoiled block, or when malloc finds nothing: the old *)
(* block stays.                                                            *)
ReallocRefuses(p, n) ==
  /\ n # 0
  /\ p - HeaderSize \notin spoiled
       => /\ blocks[BlockAt(blocks, p)].size < n
          /\ Candidates(blocks, AlignUp(n), spoiled) = {}
  /\ ret' = NULL
  /\ UNCHANGED <<blocks, spoiled, freeMemory, owned>>

(* realloc(p, 0) frees.                                                    *)
Realloc(p, n) ==
  \/ n = 0 /\ Free(p)
  \/ ReallocInPlace(p, n)
  \/ ReallocMoves(p, n)
  \/ ReallocRefuses(p, n)

Next ==
  \/ \E n \in Requests : Malloc(n)
  \/ \E m \in Counts, n \in Requests : Calloc(m, n)
  \/ \E p \in DOMAIN owned : Free(p)
  \/ \E p \in DOMAIN owned, n \in Requests : Realloc(p, n)

Spec == Init /\ [][Next]_vars

-----------------------------------------------------------------------------
(* memory_get_stats: the "used" figure the shell's mem and info print.     *)
UsedMemory == HeapSize - freeMemory

(* The payload bytes of the blocks of bs at the positions in S.            *)
PayloadBytes(bs, S) ==
  LET sum[k \in 0 .. Len(bs)] ==
        IF k = 0 THEN 0 ELSE sum[k - 1] + IF k \in S THEN bs[k].size ELSE 0
  IN  sum[Len(bs)]

FreeBlocks      == { i \in DOMAIN blocks : blocks[i].free }
AllocatedBlocks == DOMAIN blocks \ FreeBlocks

BlockType == [addr : 0 .. HeapSize, size : 0 .. HeapSize, free : BOOLEAN]

(* Types.  free_memory stays in 0 .. HeapSize, so that size_t never wraps  *)
(* in the two places that change it.                                       *)
TypeOK ==
  /\ blocks \in Seq(BlockType)
  /\ spoiled \subseteq { blocks[i].addr : i \in DOMAIN blocks }
  /\ freeMemory \in 0 .. HeapSize
  /\ DOMAIN owned \subseteq 0 .. HeapSize
  /\ \A p \in DOMAIN owned : owned[p] \in Nat
  /\ ret \in 0 .. HeapSize

(* No request is so large that rounding it up to a multiple of 8, or       *)
(* multiplying it by a count, wraps around in size_t.                      *)
RequestsFit ==
  /\ \A n \in Requests : n + 7 < SizeMod
  /\ \A m \in Counts, n \in Requests : m * n + 7 < SizeMod

(* The blocks tile heap[]: the first header is at its base, each next      *)
(* header starts where the block before it ends, and the last block ends   *)
(* where heap[] does.  So no byte is lost by a split or a merge and none   *)
(* is in two blocks, and every payload is aligned to 8 bytes.              *)
Tiles(bs) ==
  /\ bs # <<>>
  /\ bs[1].addr = 0
  /\ \A i \in 1 .. Len(bs) - 1 : bs[i + 1].addr = EndOf(bs[i])
  /\ EndOf(bs[Len(bs)]) = HeapSize
  /\ \A i \in 1 .. Len(bs) : bs[i].size % 8 = 0

Tiling == Tiles(blocks)

(* Between two calls no two neighbouring blocks are both free: the merge   *)
(* at the end of free leaves nothing to merge, and a split cannot create a *)
(* pair, so a large request is never refused over a mere boundary.         *)
NoFreePair(bs) == \A i \in 1 .. Len(bs) - 1 : ~(bs[i].free /\ bs[i + 1].free)

Coalesced == NoFreePair(blocks)

(* The blocks marked allocated are those whose pointers clients hold:      *)
(* nothing a client holds can be handed out again, nothing it gave back    *)
(* stays taken, and free and realloc always find a header before p.        *)
ClientView ==
  { Payload(blocks[i]) : i \in AllocatedBlocks } = DOMAIN owned

(* Every block is at least as large as what its holder asked for:          *)
(* memory.h:20 "Allocate memory", :29 "Allocate and zero memory".          *)
GrantsRequest ==
  \A i \in AllocatedBlocks :
    Payload(blocks[i]) \in DOMAIN owned
      => owned[Payload(blocks[i])] <= blocks[i].size

(* Every header keeps its magic word: what memory_check_integrity tests.   *)
(* realloc copies a whole old block and calloc clears nmemb * size bytes,  *)
(* and neither runs past the block that malloc has cut for it.             *)
Integrity == spoiled = {}

(* The counter behind "mem" against the list: it is the free payload bytes *)
(* plus one header for each block after the first.  The headers that       *)
(* splits make are never charged, so the figure overstates what can be     *)
(* allocated by exactly that much, and no sequence of calls makes it drift *)
(* further.                                                                *)
AccountingExact ==
  /\ freeMemory = PayloadBytes(blocks, FreeBlocks) + HeaderSize * (Len(blocks) - 1)
  /\ UsedMemory = HeaderSize + PayloadBytes(blocks, AllocatedBlocks)

(* malloc is refused only for want of room: if some stretch of the heap    *)
(* that no allocated block touches could hold the header and the rounded   *)
(* request (slide it left: it then starts at 0 or where an allocated block *)
(* ends), find_free_block finds a block.                                   *)
Vacant(lo, hi) ==
  hi <= HeapSize /\ \A i \in AllocatedBlocks :
                      EndOf(blocks[i]) <= lo \/ hi <= blocks[i].addr

NoFalseRefusal ==
  \A n \in Requests \ {0} :
    (\E lo \in {0} \cup { EndOf(blocks[i]) : i \in AllocatedBlocks } :
       Vacant(lo, lo + HeaderSize + AlignUp(n)))
    => Candidates(blocks, AlignUp(n), spoiled) # {}

(* A client that has given back all it held has the heap of memory_init    *)
(* again: no order of calls leaks memory or leaves it fragmented.          *)
AllFreedRestores ==
  owned = <<>> => /\ blocks = << Block(0, HeapSize - HeaderSize, TRUE) >>
                  /\ freeMemory = HeapSize - HeaderSize

(* The heap implements Allocator: the extents are the sizes of the blocks  *)
(* that clients hold.  So whatever find_free_block, split_block and        *)
(* merge_free_blocks do, a client sees disjoint blocks inside heap[], no   *)
(* other client's block moves or shrinks, and realloc copies into a block  *)
(* that holds the old one.                                                 *)
Abs == INSTANCE Allocator WITH
         Requests <- Requests \cup { m * n : m \in Counts, n \in Requests },
         extent   <- [ p \in DOMAIN owned |-> blocks[BlockAt(blocks, p)].size ]

AllocatorSpec == Abs!Spec
=============================================================================
