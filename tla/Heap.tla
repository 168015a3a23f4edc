-------------------------------- MODULE Heap --------------------------------
(***************************************************************************)
(* The boundary-tag heap of seminarium2: the block headers laid out in one *)
(* arena and the doubly linked list threaded through the free ones.  The   *)
(* functions of dlmall.c that read or write headers are operators here, on *)
(* a heap value                                                            *)
(*                                                                         *)
(*     h = [mem |-> headers, flist |-> first free block]                   *)
(*                                                                         *)
(* An address is a byte offset from the start of the arena.  h.mem maps    *)
(* the address of every block to its struct head.  Payload bytes are not   *)
(* modelled.  When a block is absorbed by a merge its header becomes dead  *)
(* payload, so it leaves DOMAIN h.mem: an access through a stale pointer   *)
(* is then an access outside the domain.                                   *)
(***************************************************************************)
EXTENDS Integers

CONSTANTS
  HEAD,     \* sizeof(struct head): 24
  ALIGN,    \* 8
  MINIMUM,  \* the smallest payload, the 8 inside the MIN macro
  ARENA,    \* bytes obtained from mmap: 64 * 1024
  WORD,     \* 2^16, the modulus of the uint16_t header fields
  NULL,     \* the null pointer
  JUNK      \* link words that hold whatever the payload bytes held before

ASSUME HeapAssumption ==
  /\ HEAD \in Nat \ {0}
  /\ ALIGN \in Nat \ {0}
  /\ MINIMUM \in Nat \ {0}
  /\ ARENA \in Nat /\ WORD \in Nat
  /\ 2 * HEAD < ARENA /\ ARENA <= WORD
  /\ NULL \notin Int /\ JUNK \notin Int /\ JUNK # NULL

-----------------------------------------------------------------------------
(* Macros and types.                                                       *)

MIN(size) == IF size > MINIMUM THEN size ELSE MINIMUM

\* Mutant of LIMIT: no room for the header of the block left behind.
LIMIT_NoHead(size) == MIN(0) + size

LIMIT(size) == MIN(0) + HEAD + size

\* A value stored in a uint16_t field.
U16(x) == x % WORD

Hide(block) == block + HEAD
Magic(memory) == memory - HEAD

Addr == 0 .. ARENA - HEAD
Link == Addr \cup {NULL, JUNK}

Header == [bfree : BOOLEAN, bsize : 0 .. WORD - 1,
           free  : BOOLEAN, size  : 0 .. WORD - 1,
           next  : Link,    prev  : Link]

-----------------------------------------------------------------------------
(* Neighbours in memory.                                                   *)

After(mem, block)  == block + mem[block].size + HEAD
Before(mem, block) == block - mem[block].bsize - HEAD

\* The header the dummy block at the end of the arena is given by new().
Sentinel == ARENA - HEAD

(***************************************************************************)
(* new(): one free block that fills the arena, and the sentinel after it.  *)
(* mmap returns zeroed pages, so the links are null; flist is untouched.   *)
(***************************************************************************)
NewArena ==
  LET size == U16(ARENA - 2 * HEAD)
      first == [bfree |-> FALSE, bsize |-> 0, free |-> TRUE, size |-> size,
                next |-> NULL, prev |-> NULL]
      sentinel == [bfree |-> first.free, bsize |-> first.size, free |-> FALSE,
                   size |-> 0, next |-> NULL, prev |-> NULL]
  IN [a \in {0, size + HEAD} |-> IF a = 0 THEN first ELSE sentinel]

(***************************************************************************)
(* split(): the tail of a block becomes a taken block of the given size.   *)
(* The result is the new memory; SplitOff is the address it returns.       *)
(***************************************************************************)
Remaining(mem, block, size) == U16(mem[block].size - size - HEAD)

SplitOff(mem, block, size) == block + Remaining(mem, block, size) + HEAD

\* Mutant of Split: the block after keeps the size of the unsplit block.
Split_StaleTag(mem, block, size) ==
  LET rsize == Remaining(mem, block, size)
      splt  == SplitOff(mem, block, size)
      head  == [bfree |-> mem[block].free, bsize |-> rsize, free |-> FALSE,
                size |-> U16(size), next |-> JUNK, prev |-> JUNK]
  IN [a \in DOMAIN mem \cup {splt} |->
        IF a = splt THEN head
        ELSE [mem[a] EXCEPT !.size = IF a = block THEN rsize ELSE @]]

Split(mem, block, size) ==
  LET rsize == Remaining(mem, block, size)
      splt  == SplitOff(mem, block, size)
      aft   == splt + U16(size) + HEAD
      head  == [bfree |-> mem[block].free, bsize |-> rsize, free |-> FALSE,
                size |-> U16(size), next |-> JUNK, prev |-> JUNK]
  IN [a \in DOMAIN mem \cup {splt} |->
        IF a = splt THEN head
        ELSE [mem[a] EXCEPT !.size  = IF a = block THEN rsize ELSE @,
                            !.bsize = IF a = aft THEN U16(size) ELSE @]]

-----------------------------------------------------------------------------
(* The free list.                                                          *)

\* Mutant of Detach: the successor keeps pointing back at the removed block.
Detach_StalePrev(h, block) ==
  LET n == h.mem[block].next
      p == h.mem[block].prev
  IN [mem   |-> [a \in DOMAIN h.mem |->
                   [h.mem[a] EXCEPT !.next = IF a = p THEN n ELSE @]],
      flist |-> IF p = NULL THEN n ELSE h.flist]

Detach(h, block) ==
  LET n == h.mem[block].next
      p == h.mem[block].prev
  IN [mem   |-> [a \in DOMAIN h.mem |->
                   [h.mem[a] EXCEPT !.next = IF a = p THEN n ELSE @,
                                    !.prev = IF a = n THEN p ELSE @]],
      flist |-> IF p = NULL THEN n ELSE h.flist]

\* Mutant of Insert: the block keeps the next it had.
Insert_NoNext(h, block) ==
  [mem   |-> [a \in DOMAIN h.mem |->
                [h.mem[a] EXCEPT
                   !.prev = IF a = h.flist THEN block
                            ELSE IF a = block THEN NULL ELSE @]],
   flist |-> block]

\* Mutant of Insert: the rest of the list is dropped.
Insert_LosesTail(h, block) ==
  [mem   |-> [a \in DOMAIN h.mem |->
                [h.mem[a] EXCEPT !.next = IF a = block THEN NULL ELSE @,
                                 !.prev = IF a = block THEN NULL ELSE @]],
   flist |-> block]

Insert(h, block) ==
  [mem   |-> [a \in DOMAIN h.mem |->
                [h.mem[a] EXCEPT
                   !.next = IF a = block THEN h.flist ELSE @,
                   !.prev = IF a = h.flist THEN block
                            ELSE IF a = block THEN NULL ELSE @]],
   flist |-> block]

-----------------------------------------------------------------------------
(* Coalescing.                                                             *)

(***************************************************************************)
(* low and high are neighbours: low's size grows over high's header and    *)
(* payload, and aft, the block after them, learns its predecessor's size.  *)
(***************************************************************************)
JoinedSize(mem, low, high) == U16(HEAD + mem[low].size + mem[high].size)

Absorb(mem, low, high, aft) ==
  LET size == JoinedSize(mem, low, high)
  IN [a \in DOMAIN mem \ {high} |->
        [mem[a] EXCEPT !.size  = IF a = low THEN size ELSE @,
                       !.bsize = IF a = aft THEN size ELSE @]]

\* Of the neighbours low and high, c is in the list: it is unlinked, and low
\* takes high over.
TakeOver(h, c, low, high, aft) ==
  [Detach(h, c) EXCEPT !.mem = Absorb(@, low, high, aft)]

\* The first half of merge(): the block before, when it is free.
MergedBlock(h, block) ==
  IF h.mem[block].bfree THEN Before(h.mem, block) ELSE block

MergeBefore(h, block) ==
  LET bblock == MergedBlock(h, block)
  IN IF h.mem[block].bfree
     THEN TakeOver(h, bblock, bblock, block, After(h.mem, block))
     ELSE h

\* Mutant of MergeAfter: the block after is never absorbed.
MergeAfter_Skipped(h, block) == h

\* The second half of merge(): the block after, when it is free.
MergeAfter(h, block) ==
  LET aft == After(h.mem, block)
      end == block + JoinedSize(h.mem, block, aft) + HEAD
  IN IF h.mem[aft].free THEN TakeOver(h, aft, block, aft, end) ELSE h

Merge(h, block) == MergeAfter(MergeBefore(h, block), MergedBlock(h, block))

-----------------------------------------------------------------------------
(* Status flags, as find() and dfree() set them.                           *)

\* Mutant of Mark: the successor's copy of the status is forgotten.
Mark_NoCopy(mem, block, free) == [mem EXCEPT ![block].free = free]

\* A block changes hands: its own flag and its successor's copy of it.
Mark(mem, block, free) ==
  [a \in DOMAIN mem |->
     [mem[a] EXCEPT !.free  = IF a = block THEN free ELSE @,
                    !.bfree = IF a = After(mem, block) THEN free ELSE @]]

\* find() after a split: the successor of the split-off block is marked taken
\* in both of its flags.
MarkSplit(mem, splt) ==
  LET aft == After(mem, splt)
  IN [mem EXCEPT ![aft].bfree = FALSE, ![aft].free = FALSE]

-----------------------------------------------------------------------------
(***************************************************************************)
(* The two ways find() hands out the block it has chosen, and dfree().     *)
(***************************************************************************)
\* The block is large enough to leave one behind: it shrinks and is listed
\* again, in front; the client gets its tail, at SplitOff.
TakeTail(h, block, size) ==
  LET shrunk   == [Detach(h, block) EXCEPT !.mem = Split(@, block, size)]
      inserted == Insert(shrunk, block)
  IN [inserted EXCEPT !.mem = MarkSplit(@, SplitOff(h.mem, block, size))]

TakeWhole(h, block) ==
  [Detach(h, block) EXCEPT !.mem = Mark(@, block, FALSE)]

\* Mutant of GiveBack: the block after it is not told.
GiveBack_NoCopy(h, block) ==
  LET merged == MergedBlock(h, block)
  IN Insert([Merge(h, block) EXCEPT !.mem[merged].free = TRUE], merged)

GiveBack(h, block) ==
  LET merged == MergedBlock(h, block)
  IN Insert([Merge(h, block) EXCEPT !.mem = Mark(@, merged, TRUE)], merged)
=============================================================================
