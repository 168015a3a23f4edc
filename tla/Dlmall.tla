------------------------------- MODULE Dlmall -------------------------------
(***************************************************************************)
(* The coalescing allocator of seminarium2/final/dlmall.c (and of the copy *)
(* in the "merge" directory, which differs in adjust() only), driven by    *)
(* one client that frees each pointer at most once and frees nothing but   *)
(* what dalloc() returned.                                                 *)
(*                                                                         *)
(* The loop of find() is a walk with a state of its own: one step per      *)
(* block looked at.  Every other call is one step.  dalloc(0) and          *)
(* dfree(NULL) return at once and change nothing, so they are stuttering   *)
(* steps.                                                                  *)
(***************************************************************************)
EXTENDS Adjust, HeapInvariants

CONSTANT Requests   \* the sizes the client asks for

ASSUME RequestAssumption == Requests \subseteq Nat \ {0}

VARIABLES
  heap,      \* the headers and flist (module Heap)
  arena,     \* NULL until new() has mapped the arena
  pc,        \* "idle" in client code, "find" inside the loop of find()
  traverse,  \* find()'s cursor in the free list
  request,   \* dalloc()'s argument
  owned      \* payload address -> size asked for, of what the client holds

vars == <<heap, arena, pc, traverse, request, owned>>

mem == heap.mem

Init ==
  /\ heap = [mem |-> [a \in {} |-> 0], flist |-> NULL]
  /\ arena = NULL
  /\ pc = "idle"
  /\ traverse = NULL
  /\ request = 0
  /\ owned = [p \in {} |-> 0]

-----------------------------------------------------------------------------
(***************************************************************************)
(* init(): map the arena and list its one block.  A second call and a      *)
(* failed mmap both make new() return NULL, which insert() dereferences:   *)
(* the program dies there, so they are not steps of the client.            *)
(***************************************************************************)
Initialise ==
  /\ pc = "idle"
  /\ arena = NULL
  /\ heap' = Insert([heap EXCEPT !.mem = NewArena], 0)
  /\ arena' = 0
  /\ UNCHANGED <<pc, traverse, request, owned>>

\* dalloc() up to the loop of find().  Before init() the free list is empty.
DallocEnter(r) ==
  /\ pc = "idle"
  /\ pc' = "find"
  /\ request' = r
  /\ traverse' = heap.flist
  /\ UNCHANGED <<heap, arena, owned>>

size == adjust(request)

\* find() takes a size_t: a negative size converts to one nothing can meet.
BigEnough(block) == size >= 0 /\ mem[block].size >= size

\* Leave dalloc() with the payload of block.
Return(block) ==
  /\ owned' = [p \in DOMAIN owned \cup {Hide(block)} |->
                 IF p = Hide(block) THEN request ELSE owned[p]]
  /\ pc' = "idle"
  /\ traverse' = NULL
  /\ request' = 0
  /\ UNCHANGED arena

\* Mutant of FindAdvance: a block that would do may be passed over.
FindAdvance_Any ==
  /\ pc = "find"
  /\ traverse # NULL
  /\ traverse' = mem[traverse].next
  /\ UNCHANGED <<heap, arena, pc, request, owned>>

\* Mutant of FindAdvance: the cursor starts again at the head.
FindAdvance_Restart ==
  /\ pc = "find"
  /\ traverse # NULL
  /\ ~(size >= 0 /\ mem[traverse].size >= size)
  /\ traverse' = heap.flist
  /\ UNCHANGED <<heap, arena, pc, request, owned>>

FindAdvance ==
  /\ pc = "find"
  /\ traverse # NULL
  /\ ~BigEnough(traverse)
  /\ traverse' = mem[traverse].next
  /\ UNCHANGED <<heap, arena, pc, request, owned>>

\* Mutant of FindSplit: the client is given the block that is left behind.
FindSplit_WrongHalf ==
  /\ pc = "find"
  /\ traverse # NULL
  /\ BigEnough(traverse)
  /\ mem[traverse].size >= LIMIT(size)
  /\ heap' = TakeTail(heap, traverse, size)
  /\ Return(traverse)

FindSplit ==
  /\ pc = "find"
  /\ traverse # NULL
  /\ BigEnough(traverse)
  /\ mem[traverse].size >= LIMIT(size)
  /\ heap' = TakeTail(heap, traverse, size)
  /\ Return(SplitOff(mem, traverse, size))

FindWhole ==
  /\ pc = "find"
  /\ traverse # NULL
  /\ BigEnough(traverse)
  /\ mem[traverse].size < LIMIT(size)
  /\ heap' = TakeWhole(heap, traverse)
  /\ Return(traverse)

\* The list is exhausted: find() and dalloc() return NULL.
FindNothing ==
  /\ pc = "find"
  /\ traverse = NULL
  /\ pc' = "idle"
  /\ request' = 0
  /\ UNCHANGED <<heap, arena, traverse, owned>>

Dfree(memory) ==
  /\ pc = "idle"
  /\ heap' = GiveBack(heap, Magic(memory))
  /\ owned' = [p \in DOMAIN owned \ {memory} |-> owned[p]]
  /\ UNCHANGED <<arena, pc, traverse, request>>

-----------------------------------------------------------------------------
Find == FindAdvance \/ FindSplit \/ FindWhole \/ FindNothing

Next ==
  \/ Initialise
  \/ \E r \in Requests : DallocEnter(r)
  \/ Find
  \/ \E memory \in DOMAIN owned : Dfree(memory)

\* What the theorems about the size of a block need: adjust() returns an int,
\* and a request near 2^31 or above comes back as another number.
SmallRequests == \A r \in Requests : MIN(r) <= INT - ALIGN

Spec == Init /\ [][Next]_vars

\* A call that has been made runs on: nothing else has the processor.
FairSpec == Spec /\ WF_vars(Find)

-----------------------------------------------------------------------------
(* Properties.                                                             *)

TypeOK ==
  /\ HeapTyped(heap)
  /\ arena \in {NULL, 0}
  /\ pc \in {"idle", "find"}
  /\ traverse \in Addr \cup {NULL}
  /\ request \in Requests \cup {0}
  /\ DOMAIN owned \subseteq {Hide(a) : a \in Addr}
  /\ owned \in [DOMAIN owned -> Requests]

Mapped == arena # NULL

\* Boundary tags: whatever sequence of calls came before, the headers tile the
\* arena and each agrees with its neighbours; before() and after(), which
\* trust them, always land on a header (what traverse() looks for).
BoundaryTags == Mapped => Layout(mem) /\ Flags(mem)

\* dfree() merges at once: between calls no two free blocks are neighbours.
NoAdjacentFree == Mapped => Coalesced(mem)

\* The free list holds the free blocks and no other: prev stays the inverse of
\* next, and a walk from flist meets every free block once, whatever detach()
\* and insert() have done to the list before.
FreeListLinked == Linked(heap, FreeBlocks(mem))

\* No block is lost and none is handed out twice: a block that is not free is
\* in the client's hands, and is as large as the client asked.
Held == {Magic(p) : p \in DOMAIN owned}

TakenBlocksAreOwned ==
  /\ Mapped => Held = DOMAIN mem \ (FreeBlocks(mem) \cup {Sentinel})
  /\ \A p \in DOMAIN owned : mem[Magic(p)].size >= owned[p]

\* find()'s cursor stays on the free list, block after block: what it reads is
\* the header of a free block, and before init() there is none to read.
CursorOnList ==
  /\ traverse \in FreeBlocks(mem) \cup {NULL}
  /\ pc = "idle" => traverse = NULL /\ request = 0
  /\ pc = "find" => request \in Requests
  /\ ~Mapped => DOMAIN mem = {}

\* When the client has returned everything, the arena is one free block again:
\* no order of frees leaves it fragmented.
WholeAgain ==
  Mapped /\ DOMAIN owned = {} =>
    DOMAIN mem = {0, Sentinel} /\ mem[0].free
      /\ mem[0].size = ARENA - 2 * HEAD

\* dalloc() fails only when no free block is large enough: a step out of the
\* loop of find() that hands nothing over finds no block that would do.
RefusesOnlyWhenFull ==
  [][pc = "find" /\ pc' = "idle" /\ owned' = owned =>
       \A a \in FreeBlocks(mem) : ~BigEnough(a)]_vars

\* Every call of dalloc() returns: the walk along next comes to an end.
CallsReturn == (pc = "find") ~> (pc = "idle")

\* The allocator keeps the promise stated in BlockStore: the bytes of a region
\* held are the payload of its block.
Store == INSTANCE BlockStore WITH
           Bytes  <- ARENA,
           held   <- [p \in DOMAIN owned |-> mem[Magic(p)].size],
           wanted <- request

ImplementsBlockStore == Store!StoreSpec
=============================================================================
