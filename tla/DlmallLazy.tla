----------------------------- MODULE DlmallLazy -----------------------------
(***************************************************************************)
(* The allocators that never merge: seminarium2/dlmall.c (the first        *)
(* version, "base") and seminarium2/August/dlmall.c with dlmalloc.c        *)
(* ("August").  Headers, arena and free list are those of Heap; what       *)
(* differs is find(), adjust() and dfree().                                *)
(*                                                                         *)
(* base is driven by the client of Dlmall, August by the benchmark it was  *)
(* written for, August/benchDlmall.c: an array of blocks, of which a       *)
(* random one is freed or else allocated and written to.                   *)
(***************************************************************************)
EXTENDS MCDlmall, FiniteSetsExt

CONSTANTS
  Blocks,         \* the length of benchDlmall's array: 100
  BenchRequests,  \* the sizes it asks for: 8 .. 19
  MaxRequest      \* the largest request adjust() is looked at for

ASSUME LazyAssumption ==
  Blocks \in Nat /\ BenchRequests \subseteq Requests /\ MaxRequest \in Nat

VARIABLES
  copy,     \* which of the two allocators is linked
  process   \* "runs", or how it ended

lazyVars == <<vars, copy, process>>

LazyInit ==
  /\ Init
  /\ copy \in {"base", "August"}
  /\ process = "runs"

-----------------------------------------------------------------------------
(* The functions that differ from those of Heap and Adjust.                *)

\* Mutant of baseAdjust: no rounding.
baseAdjust_Raw(req) == ToInt(MIN(req))

\* base computes in size_t, and only the result is converted to int.
baseAdjust(req) ==
  LET min == MIN(req)
  IN ToInt(IF min % ALIGN = 0 THEN min ELSE min + ALIGN - (min % ALIGN))

\* Mutant of AugustAdjust: a size that is aligned is rounded up all the same.
AugustAdjust_Up(req) ==
  LET minSize == ToInt(MIN(req))
  IN ToInt(minSize + ALIGN - Remainder(minSize, ALIGN))

\* Mutant of AugustAdjust: no rounding.
AugustAdjust_Raw(req) == ToInt(MIN(req))

\* August's adjust() has the int variable of the "merge" copy.
AugustAdjust(req) ==
  LET minSize == ToInt(MIN(req))
      rest    == Remainder(minSize, ALIGN)
  IN IF rest = 0 THEN minSize ELSE ToInt(minSize + ALIGN - rest)

wanted == IF copy = "base" THEN baseAdjust(request) ELSE AugustAdjust(request)

Meets(block) == wanted >= 0 /\ mem[block].size >= wanted

\* August's split() says that the block left behind is free; base copies what
\* that block says of itself.
AugustSplit(m, block, n) ==
  [Split(m, block, n) EXCEPT ![SplitOff(m, block, n)].bfree = TRUE]

\* Mutant of SplitTail: the successor is marked taken, as final/ does it.
SplitTail_MarksNext(h, block, n) ==
  LET shrunk == [Detach(h, block) EXCEPT !.mem = Split(@, block, n)]
  IN [Insert(shrunk, block) EXCEPT
        !.mem = MarkSplit(@, SplitOff(h.mem, block, n))]

\* find() on a block it can split: its tail is handed out and the successor
\* learns so.  The successor itself may be free here, and stays so.
SplitTail(h, block, n) ==
  LET shrunk == [Detach(h, block) EXCEPT
                   !.mem = IF copy = "base" THEN Split(@, block, n)
                                            ELSE AugustSplit(@, block, n)]
  IN [Insert(shrunk, block) EXCEPT
        !.mem = Mark(@, SplitOff(h.mem, block, n), FALSE)]

\* Mutants of PutBack: the successor is not told; the block is not listed.
PutBack_NoCopy(h, block) ==
  Insert([h EXCEPT !.mem = Mark_NoCopy(@, block, TRUE)], block)

PutBack_Leak(h, block) == [h EXCEPT !.mem = Mark(@, block, TRUE)]

\* dfree(): the block becomes free and is listed in front, never merged.
PutBack(h, block) == Insert([h EXCEPT !.mem = Mark(@, block, TRUE)], block)

-----------------------------------------------------------------------------
(* The steps.                                                              *)

Starts == Initialise /\ UNCHANGED <<copy, process>>

\* benchDlmall allocates when the slot it has drawn is empty.
MayAsk(r) ==
  copy = "August" =>
    r \in BenchRequests /\ Mapped /\ Cardinality(DOMAIN owned) < Blocks

Asks(r) ==
  /\ MayAsk(r)
  /\ DallocEnter(r)
  /\ UNCHANGED <<copy, process>>

\* Mutant of LooksOn: a block that would do may be passed over.
LooksOn_Any ==
  /\ pc = "find"
  /\ traverse # NULL
  /\ traverse' = mem[traverse].next
  /\ process' = IF copy = "base" /\ traverse' = NULL THEN "segv" ELSE "runs"
  /\ UNCHANGED <<heap, arena, pc, request, owned, copy>>

\* Mutant of LooksOn: the cursor starts again at the head.
LooksOn_Restart ==
  /\ pc = "find"
  /\ traverse # NULL
  /\ ~Meets(traverse)
  /\ traverse' = heap.flist
  /\ UNCHANGED <<heap, arena, pc, request, owned, copy, process>>

(***************************************************************************)
(* The cursor moves on.  base then prints the size of the block it has     *)
(* moved to, and when there is none that reads through a null pointer.     *)
(***************************************************************************)
LooksOn ==
  /\ pc = "find"
  /\ traverse # NULL
  /\ ~Meets(traverse)
  /\ traverse' = mem[traverse].next
  /\ process' = IF copy = "base" /\ traverse' = NULL THEN "segv" ELSE "runs"
  /\ UNCHANGED <<heap, arena, pc, request, owned, copy>>

\* Mutant of TakesTail: the client is given the block that is left behind.
TakesTail_WrongHalf ==
  /\ pc = "find"
  /\ traverse # NULL
  /\ Meets(traverse)
  /\ mem[traverse].size >= LIMIT(wanted)
  /\ heap' = SplitTail(heap, traverse, wanted)
  /\ Return(traverse)
  /\ UNCHANGED <<copy, process>>

TakesTail ==
  /\ pc = "find"
  /\ traverse # NULL
  /\ Meets(traverse)
  /\ mem[traverse].size >= LIMIT(wanted)
  /\ heap' = SplitTail(heap, traverse, wanted)
  /\ Return(SplitOff(mem, traverse, wanted))
  /\ UNCHANGED <<copy, process>>

TakesWhole ==
  /\ pc = "find"
  /\ traverse # NULL
  /\ Meets(traverse)
  /\ mem[traverse].size < LIMIT(wanted)
  /\ heap' = TakeWhole(heap, traverse)
  /\ Return(traverse)
  /\ UNCHANGED <<copy, process>>

\* base: the list was empty to begin with, and dalloc() returns NULL.
FindsNone ==
  /\ copy = "base"
  /\ FindNothing
  /\ UNCHANGED <<copy, process>>

\* August: find() reaches its end without a return, and dalloc() tests a
\* value that is not there.  Anything may follow, and nothing is modelled.
FallsOff ==
  /\ copy = "August"
  /\ pc = "find"
  /\ traverse = NULL
  /\ process' = "undefined"
  /\ UNCHANGED <<vars, copy>>

GivesBack(memory) ==
  /\ pc = "idle"
  /\ heap' = PutBack(heap, Magic(memory))
  /\ owned' = [p \in DOMAIN owned \ {memory} |-> owned[p]]
  /\ UNCHANGED <<arena, pc, traverse, request, copy, process>>

\* The checks of August's sanity(), which looks at the last block too.
AugustChecks(i) ==
  LET b == FreeList[i]
  IN /\ mem[b].free
     /\ mem[b].size % ALIGN = 0
     /\ mem[b].prev = IF i = 1 THEN NULL ELSE FreeList[i - 1]

\* The end of benchDlmall: sanity() reads flist->prev, whatever flist is, and
\* exits with an error when a check fails.
BenchEnds ==
  /\ copy = "August"
  /\ Mapped /\ pc = "idle"
  /\ process' = IF heap.flist = NULL THEN "segv"
                ELSE IF \A i \in 1 .. Len(FreeList) : AugustChecks(i)
                     THEN "exit" ELSE "exit 1"
  /\ UNCHANGED <<vars, copy>>

Searches == LooksOn \/ TakesTail \/ TakesWhole \/ FindsNone \/ FallsOff

LazyNext ==
  /\ process = "runs"
  /\ \/ Starts
     \/ \E r \in Requests : Asks(r)
     \/ Searches
     \/ \E memory \in DOMAIN owned : GivesBack(memory)
     \/ BenchEnds

\* A call that has been made runs on: nothing else has the processor.
LazySpec ==
  /\ LazyInit /\ [][LazyNext]_lazyVars
  /\ WF_lazyVars(process = "runs" /\ Searches)

-----------------------------------------------------------------------------
(* Properties.  BoundaryTags, TakenBlocksAreOwned and ImplementsBlockStore *)
(* are those of Dlmall: they do not need merging.                          *)

\* The free list holds the free blocks and no other: prev is the inverse of
\* next, and the walk that find() makes meets every one of them.
ListHoldsFree ==
  /\ DoublyLinked(heap, FreeBlocks(mem))
  /\ {FreeList[i] : i \in 1 .. Len(FreeList)} = FreeBlocks(mem)

\* dalloc() comes back without a block, or the process dies in it, only when
\* no free block is large enough: with free blocks side by side or not.
FailsOnlyWhenFull ==
  [][pc = "find" /\ owned' = owned /\ ("find" # pc' \/ process' # "runs") =>
       \A a \in FreeBlocks(mem) : ~Meets(a)]_lazyVars

\* A search ends: with a block, without one, or with the process.
SearchEnds == (pc = "find") ~> (pc = "idle" \/ process # "runs")

\* Whatever the rounds of benchDlmall have split and freed, its closing sanity()
\* finds nothing wrong with the list: each block on it is free, of an aligned
\* size, and points back to the one before.  Sizes that were not rounded, and
\* links a split has not kept up, would only be seen here, many calls later.
BenchSanityQuiet == process # "exit 1"

Multiples == {ALIGN * n : n \in 0 .. (INT - 1) \div ALIGN}

Least(req) == Min({m \in Multiples : m >= req /\ m >= MINIMUM})

Answers(req) == {adjust(req), baseAdjust(req), AugustAdjust(req)}

\* For a request that can be rounded up inside an int, the versions of
\* adjust() find the least multiple of ALIGN that holds the request and the
\* smallest payload.  adjust() reads no state: one state is enough to look at
\* all requests, so only those before init() are taken.
AdjustIsLeast ==
  ~Mapped => \A req \in 1 .. INT - ALIGN : Answers(req) = {Least(req)}

\* Whatever the request, the answer is a multiple of ALIGN: the conversions to
\* int and the remainder of a negative number do not disturb the alignment.
AdjustIsAligned ==
  ~Mapped =>
    \A req \in 1 .. MaxRequest : \A answer \in Answers(req) : answer % ALIGN = 0
=============================================================================
