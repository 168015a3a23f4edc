---------------------------- MODULE DlmallProofs ----------------------------
(***************************************************************************)
(* The safety properties of Dlmall hold for every arena, every header size *)
(* and every set of requests an int can hold, in every reachable state.    *)
(*                                                                         *)
(* The second part is about the walks over the blocks: find() is first     *)
(* fit, and the two checkers of dlmall.c, sanity() and traverse(), report  *)
(* no problem.                                                             *)
(***************************************************************************)
EXTENDS MCDlmall, HeapLemmas, Walks

-----------------------------------------------------------------------------
(* What adjust() returns for a request that an int can hold.               *)

LEMMA ToIntIdentity ==
  ASSUME NEW x \in Int, 0 <= x, x < INT
  PROVE  ToInt(x) = x
<1>1. INT \in Nat \ {0}
  BY AdjustAssumption DEF AdjustAssumption
<1>2. (x + INT) % (2 * INT) = x + INT
  BY <1>1
<1> QED
  BY <1>1, <1>2 DEF ToInt

LEMMA AdjustCovers ==
  ASSUME SmallRequests, NEW r \in Requests
  PROVE  adjust(r) \in Nat \ {0} /\ adjust(r) >= r
<1> DEFINE m == MIN(r)
           rem == m % ALIGN
<1>1. INT \in Nat \ {0} /\ ALIGN \in Nat \ {0} /\ ALIGN <= INT
  BY AdjustAssumption, HeapAssumption DEF AdjustAssumption, HeapAssumption
<1>2. r \in Nat \ {0}
  BY RequestAssumption DEF RequestAssumption
<1>3. m \in Nat \ {0} /\ m >= r /\ m <= INT - ALIGN
  BY <1>2, HeapAssumption DEF MIN, HeapAssumption, SmallRequests
<1> HIDE DEF m
<1>4. rem \in Nat /\ rem < ALIGN
  BY <1>1, <1>3
<1>5. ToInt(m) = m /\ ToInt(r) = r
  BY <1>1, <1>2, <1>3, ToIntIdentity
<1>6. Remainder(m, ALIGN) = rem
  BY <1>3 DEF Remainder
<1> HIDE DEF rem
<1>7. CASE rem = 0
  <2>1. adjust(r) = r \/ adjust(r) = m
    BY <1>5, <1>6, <1>7 DEF adjust, m
  <2> QED
    BY <2>1, <1>2, <1>3
<1>8. CASE rem # 0
  <2>1. m + ALIGN - rem \in Nat /\ m + ALIGN - rem < INT /\ m + ALIGN - rem >= m
    BY <1>1, <1>3, <1>4, <1>8
  <2>2. adjust(r) = ToInt(m + ALIGN - rem)
    BY <1>5, <1>6, <1>8 DEF adjust, m
  <2>3. adjust(r) = m + ALIGN - rem
    BY <2>1, <2>2, ToIntIdentity
  <2> QED
    BY <2>1, <2>3, <1>2, <1>3
<1> QED
  BY <1>7, <1>8

-----------------------------------------------------------------------------
(* init().                                                                 *)

LEMMA NewArenaHeap ==
  ASSUME NEW h, HeapTyped(h), Linked(h, {})
  PROVE  /\ WellFormed(Insert([h EXCEPT !.mem = NewArena], 0))
         /\ FreeBlocks(Insert([h EXCEPT !.mem = NewArena], 0).mem) = {0}
         /\ DOMAIN Insert([h EXCEPT !.mem = NewArena], 0).mem = {0, Sentinel}
<1> DEFINE m == NewArena
           e == [h EXCEPT !.mem = m]
           g == Insert(e, 0)
           sz == ARENA - 2 * HEAD
<1>1. /\ sz \in Int /\ sz > 0 /\ sz < ARENA /\ sz + HEAD = Sentinel
      /\ Sentinel \in Nat /\ Sentinel # 0 /\ HEAD \in Nat \ {0} /\ WORD \in Nat \ {0}
      /\ 0 \in Addr /\ Sentinel \in Addr
  BY HeapAssumption DEF HeapAssumption, Sentinel, Addr
<1>2. U16(sz) = sz /\ sz \in 0 .. WORD - 1
  BY <1>1, U16Identity
<1>3. /\ DOMAIN m = {0, Sentinel} /\ m = [a \in DOMAIN m |-> m[a]]
      /\ m[0] = [bfree |-> FALSE, bsize |-> 0, free |-> TRUE, size |-> sz,
                 next |-> NULL, prev |-> NULL]
      /\ m[Sentinel] = [bfree |-> TRUE, bsize |-> sz, free |-> FALSE, size |-> 0,
                        next |-> NULL, prev |-> NULL]
  BY <1>1, <1>2 DEF NewArena
<1> HIDE DEF m, sz
<1>4. m[0] \in Header /\ m[Sentinel] \in Header
  BY <1>1, <1>2, <1>3 DEF Header, Link
<1>5. MemTyped(m)
  BY <1>1, <1>3, <1>4 DEF MemTyped
<1>6. e.mem = m /\ e.flist = h.flist /\ HeapTyped(e)
  BY <1>5, WithMem
<1> HIDE DEF e
<1>7. /\ m[0].size = sz /\ m[Sentinel].size = 0 /\ m[Sentinel].bsize = sz
      /\ ~m[0].bfree /\ m[0].free /\ m[Sentinel].bfree /\ ~m[Sentinel].free
  BY <1>3
<1>8. After(m, 0) = Sentinel /\ Before(m, Sentinel) = 0 /\ After(m, Sentinel) > Sentinel
  BY <1>1, <1>7 DEF After, Before
<1>9. Layout(m)
  <2>1. ForwardLinked(m) /\ BackwardLinked(m)
    BY <1>1, <1>3, <1>7, <1>8 DEF ForwardLinked, BackwardLinked
  <2>2. Disjoint(m)
    BY <1>1, <1>3, <1>8 DEF Disjoint
  <2> QED
    BY <2>1, <2>2, <1>3, <1>7 DEF Layout
<1>10. Flags(m)
  <2>1. m[Sentinel].bfree = m[0].free
    BY <1>3
  <2>2. DOMAIN m \ {Sentinel} = {0}
    BY <1>1, <1>3
  <2>3. \A a \in DOMAIN m \ {Sentinel} : m[After(m, a)].bfree = m[a].free
    BY <1>8, <2>1, <2>2
  <2> QED
    BY <1>7, <2>3 DEF Flags
<1>11. Coalesced(m) /\ FreeBlocks(m) = {0}
  BY <1>3, <1>7 DEF Coalesced, FreeBlocks
<1>12. Linked(e, {})
  BY <1>6, LinkedFrame DEF SameLinks
<1>13. Linked(g, {0})
  <2>1. Linked(g, {} \cup {0})
    BY <1>3, <1>6, <1>12, InsertLinked
  <2>2. {} \cup {0} = {0}
    OBVIOUS
  <2> HIDE DEF g
  <2> QED
    BY <2>1, <2>2
<1>14. HeapTyped(g) /\ SameTags(m, g.mem)
  BY <1>3, <1>6, InsertTags
<1> HIDE DEF g
<1>15. /\ Layout(g.mem) /\ Flags(g.mem) /\ Coalesced(g.mem)
       /\ FreeBlocks(g.mem) = {0} /\ DOMAIN g.mem = {0, Sentinel}
  BY <1>3, <1>9, <1>10, <1>11, <1>14, SameTagsLayout DEF SameTags
<1>16. WellFormed(g)
  BY <1>13, <1>14, <1>15 DEF WellFormed
<1> QED
  BY <1>15, <1>16 DEF g, e, m

-----------------------------------------------------------------------------
(***************************************************************************)
(* The inductive invariant.  The heap is well formed, what is not free is  *)
(* in the client's hands, and the cursor of find() is on a listed block    *)
(* with every large enough block at it or behind it.                       *)
(***************************************************************************)
SearchLeft ==
  pc = "find" =>
    \E R \in SUBSET (FreeBlocks(mem) \X FreeBlocks(mem)) :
      /\ ListOrder(heap, FreeBlocks(mem), R)
      /\ \A a \in FreeBlocks(mem) : BigEnough(a) =>
           traverse # NULL /\ (a = traverse \/ <<traverse, a>> \in R)

IInv ==
  /\ TypeOK
  /\ BoundaryTags
  /\ NoAdjacentFree
  /\ FreeListLinked
  /\ TakenBlocksAreOwned
  /\ CursorOnList
  /\ SearchLeft
  /\ ~Mapped => DOMAIN owned = {}

\* Between two operations on the heap, IInv says that it is well formed.
LEMMA HeapOfIInv ==
  ASSUME IInv
  PROVE  /\ HeapTyped(heap) /\ Linked(heap, FreeBlocks(heap.mem))
         /\ Mapped => WellFormed(heap)
         /\ ~Mapped => FreeBlocks(heap.mem) = {} /\ DOMAIN heap.mem = {} /\ DOMAIN owned = {}
BY DEF IInv, TypeOK, BoundaryTags, NoAdjacentFree, FreeListLinked, CursorOnList,
       WellFormed, mem, FreeBlocks

\* And the other way round, for a heap an action has left behind.
LEMMA IInvOfHeap ==
  ASSUME WellFormed(heap)', Mapped', TypeOK', TakenBlocksAreOwned', CursorOnList',
         SearchLeft'
  PROVE  IInv'
BY DEF IInv, BoundaryTags, NoAdjacentFree, FreeListLinked, WellFormed, mem

LEMMA InitInvariant == Init => IInv
<1> SUFFICES ASSUME Init PROVE IInv
  OBVIOUS
<1>1. DOMAIN heap.mem = {} /\ heap.flist = NULL /\ FreeBlocks(heap.mem) = {}
      /\ heap = [mem |-> heap.mem, flist |-> heap.flist]
      /\ heap.mem \in [DOMAIN heap.mem -> Header]
  BY DEF Init, FreeBlocks
<1>2. ~Mapped /\ DOMAIN owned = {} /\ owned \in [DOMAIN owned -> Requests]
  BY DEF Init, Mapped
<1>3. HeapTyped(heap)
  BY <1>1 DEF HeapTyped, MemTyped
<1>4. TypeOK
  BY <1>1, <1>2, <1>3 DEF TypeOK, Init
<1>5. Linked(heap, {})
  <2>1. DoublyLinked(heap, {})
    BY <1>1 DEF DoublyLinked
  <2>2. ListOrder(heap, {}, {})
    BY DEF ListOrder
  <2> QED
    BY <2>1, <2>2 DEF Linked
<1>6. FreeListLinked
  BY <1>1, <1>5 DEF FreeListLinked, mem
<1>7. TakenBlocksAreOwned /\ CursorOnList /\ SearchLeft /\ BoundaryTags /\ NoAdjacentFree
  BY <1>1, <1>2 DEF TakenBlocksAreOwned, CursorOnList, SearchLeft, BoundaryTags,
                    NoAdjacentFree, Init, mem
<1> QED
  BY <1>2, <1>4, <1>6, <1>7 DEF IInv

-----------------------------------------------------------------------------
(* The steps, one lemma for each action.                                   *)

\* Steps that leave the heap alone.
LEMMA SameHeap ==
  ASSUME IInv, UNCHANGED <<heap, arena, owned>>, TypeOK', CursorOnList', SearchLeft'
  PROVE  IInv'
<1>1. /\ BoundaryTags' = BoundaryTags /\ NoAdjacentFree' = NoAdjacentFree
      /\ FreeListLinked' = FreeListLinked /\ Mapped' = Mapped
      /\ TakenBlocksAreOwned' = TakenBlocksAreOwned
  BY DEF BoundaryTags, NoAdjacentFree, FreeListLinked, TakenBlocksAreOwned, Mapped,
         Held, mem
<1> QED
  BY <1>1 DEF IInv

LEMMA InitialiseStep ==
  ASSUME IInv, Initialise PROVE IInv'
<1>1. /\ HeapTyped(heap) /\ Linked(heap, {}) /\ DOMAIN owned = {}
  BY HeapOfIInv DEF Initialise, Mapped
<1>2. heap' = Insert([heap EXCEPT !.mem = NewArena], 0)
  BY DEF Initialise
<1>3. /\ WellFormed(heap') /\ FreeBlocks(heap'.mem) = {0}
      /\ DOMAIN heap'.mem = {0, Sentinel}
  BY <1>1, <1>2, NewArenaHeap
<1>4. Mapped' /\ arena' \in {NULL, 0}
  BY HeapAssumption DEF HeapAssumption, Initialise, Mapped
<1>5. UNCHANGED <<pc, traverse, request, owned>> /\ pc = "idle"
  BY DEF Initialise
<1>6. TypeOK'
  BY <1>3, <1>4, <1>5 DEF IInv, TypeOK, WellFormed
<1>7. TakenBlocksAreOwned'
  BY <1>1, <1>3, <1>5 DEF TakenBlocksAreOwned, Held, mem
<1>8. CursorOnList'
  BY <1>4, <1>5 DEF IInv, CursorOnList
<1>9. SearchLeft'
  BY <1>5 DEF SearchLeft
<1> QED
  BY <1>3, <1>4, <1>6, <1>7, <1>8, <1>9, IInvOfHeap

LEMMA DallocEnterStep ==
  ASSUME IInv, NEW r \in Requests, DallocEnter(r) PROVE IInv'
<1>1. /\ UNCHANGED <<heap, arena, owned>> /\ pc' = "find" /\ request' = r
      /\ traverse' = heap.flist
  BY DEF DallocEnter
<1>2. HeapTyped(heap) /\ Linked(heap, FreeBlocks(heap.mem))
  BY HeapOfIInv
<1>3. TypeOK'
  BY <1>1, <1>2 DEF IInv, TypeOK, HeapTyped
<1>4. CursorOnList'
  BY <1>1, <1>2 DEF IInv, CursorOnList, Linked, DoublyLinked, mem, Mapped
<1>5. SearchLeft'
  <2>1. PICK R \in SUBSET (FreeBlocks(heap.mem) \X FreeBlocks(heap.mem)) :
               ListOrder(heap, FreeBlocks(heap.mem), R)
    BY <1>2 DEF Linked
  <2>2. \A a \in FreeBlocks(heap.mem) :
          heap.flist # NULL /\ (a = heap.flist \/ <<heap.flist, a>> \in R)
    BY <2>1 DEF ListOrder
  <2> QED
    BY <1>1, <2>1, <2>2 DEF SearchLeft, mem
<1> QED
  BY <1>1, <1>3, <1>4, <1>5, SameHeap

LEMMA FindAdvanceStep ==
  ASSUME IInv, FindAdvance PROVE IInv'
<1>1. /\ UNCHANGED <<heap, arena, pc, request, owned>> /\ pc = "find"
      /\ traverse # NULL /\ ~BigEnough(traverse)
      /\ traverse' = heap.mem[traverse].next
  BY DEF FindAdvance, mem
<1>2. /\ HeapTyped(heap) /\ MemTyped(heap.mem) /\ Linked(heap, FreeBlocks(heap.mem))
      /\ traverse \in FreeBlocks(heap.mem)
  BY <1>1, HeapOfIInv DEF IInv, CursorOnList, mem, HeapTyped
<1>3. traverse' \in FreeBlocks(heap.mem) \cup {NULL}
  BY <1>1, <1>2 DEF Linked, DoublyLinked
<1>4. TypeOK'
  BY <1>1, <1>2, <1>3 DEF IInv, TypeOK, FreeBlocks, MemTyped
<1>5. CursorOnList'
  BY <1>1, <1>3 DEF IInv, CursorOnList, mem, Mapped
<1>6. SearchLeft'
  <2>1. PICK R \in SUBSET (FreeBlocks(heap.mem) \X FreeBlocks(heap.mem)) :
          /\ ListOrder(heap, FreeBlocks(heap.mem), R)
          /\ \A a \in FreeBlocks(heap.mem) : BigEnough(a) =>
               traverse # NULL /\ (a = traverse \/ <<traverse, a>> \in R)
    BY <1>1 DEF IInv, SearchLeft, mem
  <2>2. ASSUME NEW a \in FreeBlocks(heap.mem), BigEnough(a)
        PROVE  traverse' # NULL /\ (a = traverse' \/ <<traverse', a>> \in R)
    <3>1. <<traverse, a>> \in R
      BY <1>1, <2>1, <2>2
    <3> QED
      BY <1>1, <1>2, <2>1, <3>1 DEF ListOrder
  <2>3. \A a : BigEnough(a)' <=> BigEnough(a)
    BY <1>1 DEF BigEnough, size, mem
  <2> QED
    BY <1>1, <2>1, <2>2, <2>3 DEF SearchLeft, mem
<1> QED
  BY <1>1, <1>4, <1>5, <1>6, SameHeap

LEMMA FindNothingStep ==
  ASSUME IInv, FindNothing PROVE IInv'
<1>1. /\ UNCHANGED <<heap, arena, traverse, owned>> /\ pc' = "idle"
      /\ traverse = NULL /\ request' = 0
  BY DEF FindNothing
<1>2. TypeOK'
  BY <1>1 DEF IInv, TypeOK
<1>3. CursorOnList'
  BY <1>1 DEF IInv, CursorOnList, mem, Mapped
<1>4. SearchLeft'
  BY <1>1 DEF SearchLeft
<1> QED
  BY <1>1, <1>2, <1>3, <1>4, SameHeap

\* What dalloc()'s return adds to the client's blocks.
LEMMA ReturnOwned ==
  ASSUME TypeOK, request \in Requests, NEW block \in Addr, Return(block)
  PROVE  /\ Held' = Held \cup {block}
         /\ DOMAIN owned' \subseteq {Hide(a) : a \in Addr}
         /\ owned' \in [DOMAIN owned' -> Requests]
         /\ \A p \in DOMAIN owned' :
              owned'[p] = IF Magic(p) = block THEN request ELSE owned[p]
         /\ \A p \in DOMAIN owned' : Magic(p) # block => p \in DOMAIN owned
<1>1. HEAD \in Int /\ Addr \subseteq Int
  BY HeapAssumption DEF HeapAssumption, Addr
<1>2. Magic(Hide(block)) = block
  BY <1>1 DEF Magic, Hide
<1>3. /\ DOMAIN owned' = DOMAIN owned \cup {Hide(block)}
      /\ \A p \in DOMAIN owned' :
           owned'[p] = IF p = Hide(block) THEN request ELSE owned[p]
      /\ owned' = [p \in DOMAIN owned' |-> owned'[p]]
  BY DEF Return
<1>4. \A p \in DOMAIN owned' : p \in Int
  BY <1>1, <1>3 DEF TypeOK, Hide
<1>5. \A p \in DOMAIN owned' : Magic(p) = block <=> p = Hide(block)
  BY <1>1, <1>4 DEF Magic, Hide
<1>6. Held' = Held \cup {block}
  BY <1>2, <1>3 DEF Held
<1>7. \A p \in DOMAIN owned' : owned'[p] \in Requests
  BY <1>3 DEF TypeOK
<1>8. owned' \in [DOMAIN owned' -> Requests]
  BY <1>3, <1>7
<1>9. DOMAIN owned' \subseteq {Hide(a) : a \in Addr}
  BY <1>3 DEF TypeOK
<1> QED
  BY <1>3, <1>5, <1>6, <1>8, <1>9

\* The books are right after a block has been handed out: it is the one that
\* has left the free blocks, or been made.
LEMMA ReturnTaken ==
  ASSUME TypeOK, TakenBlocksAreOwned, Mapped, request \in Requests,
         NEW block \in Addr, block # Sentinel, Return(block), HeapTyped(heap'),
         DOMAIN heap'.mem \ FreeBlocks(heap'.mem)
           = (DOMAIN heap.mem \ FreeBlocks(heap.mem)) \cup {block},
         \A a \in DOMAIN heap.mem \ FreeBlocks(heap.mem) :
           a # block => heap'.mem[a].size = heap.mem[a].size,
         heap'.mem[block].size >= request
  PROVE  /\ TypeOK' /\ TakenBlocksAreOwned' /\ Mapped'
         /\ pc' = "idle" /\ traverse' = NULL /\ request' = 0
<1>1. /\ Held' = Held \cup {block}
      /\ DOMAIN owned' \subseteq {Hide(a) : a \in Addr}
      /\ owned' \in [DOMAIN owned' -> Requests]
      /\ \A p \in DOMAIN owned' :
           owned'[p] = IF Magic(p) = block THEN request ELSE owned[p]
      /\ \A p \in DOMAIN owned' : Magic(p) # block => p \in DOMAIN owned
  BY ReturnOwned
<1>2. /\ pc' = "idle" /\ traverse' = NULL /\ request' = 0 /\ arena' = arena
      /\ Mapped'
  BY DEF Return, Mapped
<1>3. TypeOK'
  BY <1>1, <1>2 DEF TypeOK
<1>4. Held = DOMAIN heap.mem \ (FreeBlocks(heap.mem) \cup {Sentinel})
  BY DEF TakenBlocksAreOwned, mem
<1>5. Held' = DOMAIN heap'.mem \ (FreeBlocks(heap'.mem) \cup {Sentinel})
  BY <1>1, <1>4
<1>6. ASSUME NEW p \in DOMAIN owned'
      PROVE  heap'.mem[Magic(p)].size >= owned'[p]
  <2>1. CASE Magic(p) = block
    BY <2>1, <1>1
  <2>2. CASE Magic(p) # block
    <3>1. p \in DOMAIN owned /\ owned'[p] = owned[p]
      BY <2>2, <1>1
    <3>2. Magic(p) \in Held
      BY <3>1 DEF Held
    <3>3. heap'.mem[Magic(p)].size = heap.mem[Magic(p)].size
      BY <3>2, <2>2, <1>4
    <3>4. heap.mem[Magic(p)].size >= owned[p]
      BY <3>1 DEF TakenBlocksAreOwned, mem
    <3> QED
      BY <3>1, <3>3, <3>4
  <2> QED
    BY <2>1, <2>2
<1>7. TakenBlocksAreOwned'
  BY <1>5, <1>6 DEF TakenBlocksAreOwned, mem
<1> QED
  BY <1>2, <1>3, <1>7

\* The block that dfree() is given is one the client holds, and the books are
\* right when it is gone.
LEMMA ReleaseHeld ==
  ASSUME TypeOK, TakenBlocksAreOwned, Mapped, NEW memory \in DOMAIN owned
  PROVE  /\ Magic(memory) \in DOMAIN heap.mem \ (FreeBlocks(heap.mem) \cup {Sentinel})
         /\ \A p \in DOMAIN owned : Magic(p) = Magic(memory) <=> p = memory
<1>1. Held = DOMAIN heap.mem \ (FreeBlocks(heap.mem) \cup {Sentinel})
  BY DEF TakenBlocksAreOwned, mem
<1>2. \A p \in DOMAIN owned : p \in Int
  BY HeapAssumption DEF HeapAssumption, TypeOK, Hide, Addr
<1> QED
  BY <1>1, <1>2, HeapAssumption DEF HeapAssumption, Magic, Held

LEMMA ReleaseTaken ==
  ASSUME TypeOK, TakenBlocksAreOwned, Mapped, NEW memory \in DOMAIN owned,
         owned' = [p \in DOMAIN owned \ {memory} |-> owned[p]],
         UNCHANGED <<arena, pc, traverse, request>>, HeapTyped(heap'),
         NEW T, T = (DOMAIN heap.mem \ FreeBlocks(heap.mem)) \ {Magic(memory)},
         DOMAIN heap'.mem \ FreeBlocks(heap'.mem) = T,
         \A a \in T : heap'.mem[a].size = heap.mem[a].size
  PROVE  TypeOK' /\ TakenBlocksAreOwned' /\ Mapped'
<1> DEFINE block == Magic(memory)
<1>1. Held = DOMAIN heap.mem \ (FreeBlocks(heap.mem) \cup {Sentinel})
  BY DEF TakenBlocksAreOwned, mem
<1>2. \A p \in DOMAIN owned : Magic(p) = block <=> p = memory
  BY ReleaseHeld
<1> HIDE DEF block
<1>3. /\ DOMAIN owned' = DOMAIN owned \ {memory}
      /\ \A p \in DOMAIN owned' : owned'[p] = owned[p]
      /\ owned' \in [DOMAIN owned' -> Requests]
  BY DEF TypeOK
<1>4. TypeOK' /\ Mapped'
  BY <1>3 DEF TypeOK, Mapped
<1>5. Held' = Held \ {block}
  BY <1>2, <1>3 DEF Held, block
<1>6. Held' = (DOMAIN heap'.mem \ FreeBlocks(heap'.mem)) \ {Sentinel}
  BY <1>1, <1>5 DEF block
<1>7. ASSUME NEW p \in DOMAIN owned'
      PROVE  heap'.mem[Magic(p)].size >= owned'[p]
  <2>1. p \in DOMAIN owned /\ Magic(p) # block /\ owned'[p] = owned[p]
    BY <1>2, <1>3
  <2>2. Magic(p) \in T
    BY <2>1, <1>1 DEF Held, block
  <2>3. heap.mem[Magic(p)].size >= owned[p]
    BY <2>1 DEF TakenBlocksAreOwned, mem
  <2> QED
    BY <2>1, <2>2, <2>3
<1> QED
  BY <1>4, <1>6, <1>7 DEF TakenBlocksAreOwned, mem

\* What find() relies on when it has found a block.
LEMMA FoundBlock ==
  ASSUME SmallRequests, IInv, pc = "find", traverse # NULL
  PROVE  /\ Mapped /\ WellFormed(heap) /\ HeapTyped(heap) /\ TypeOK
         /\ traverse \in FreeBlocks(heap.mem) /\ traverse \in DOMAIN heap.mem
         /\ heap.mem[traverse].size \in Nat
         /\ request \in Requests /\ size \in Nat \ {0} /\ size >= request
<1>1. traverse \in FreeBlocks(heap.mem) /\ request \in Requests /\ TypeOK
  BY DEF IInv, CursorOnList, mem
<1>2. Mapped /\ WellFormed(heap)
  BY <1>1, HeapOfIInv
<1>3. HeapTyped(heap) /\ MemTyped(heap.mem) /\ traverse \in DOMAIN heap.mem
  BY <1>1 DEF TypeOK, HeapTyped, FreeBlocks
<1>4. heap.mem[traverse].size \in Nat
  BY <1>3, FieldTypes
<1>5. size \in Nat \ {0} /\ size >= request
  BY <1>1, AdjustCovers DEF size
<1> QED
  BY <1>1, <1>2, <1>3, <1>4, <1>5

LEMMA FindSplitStep ==
  ASSUME SmallRequests, IInv, FindSplit PROVE IInv'
<1> DEFINE sz == size
           splt == SplitOff(heap.mem, traverse, sz)
<1>1. /\ pc = "find" /\ traverse # NULL
      /\ heap.mem[traverse].size >= LIMIT(sz)
      /\ heap' = TakeTail(heap, traverse, sz)
      /\ Return(splt)
  BY DEF FindSplit, mem
<1>2. /\ Mapped /\ WellFormed(heap) /\ TypeOK
      /\ traverse \in FreeBlocks(heap.mem) /\ traverse \in DOMAIN heap.mem
      /\ request \in Requests /\ sz \in Nat \ {0} /\ sz >= request
  BY <1>1, FoundBlock
<1> HIDE DEF sz
<1>3. /\ WellFormed(heap')
      /\ splt \in Addr \ DOMAIN heap.mem /\ splt # Sentinel
      /\ DOMAIN heap'.mem = DOMAIN heap.mem \cup {splt}
      /\ FreeBlocks(heap'.mem) = FreeBlocks(heap.mem)
      /\ \A a \in DOMAIN heap.mem : a # traverse => heap'.mem[a].size = heap.mem[a].size
      /\ heap'.mem[splt].size = sz
  BY <1>1, <1>2, TakeTailHeap
<1> HIDE DEF splt
<1>4. /\ DOMAIN heap'.mem \ FreeBlocks(heap'.mem)
           = (DOMAIN heap.mem \ FreeBlocks(heap.mem)) \cup {splt}
      /\ \A a \in DOMAIN heap.mem \ FreeBlocks(heap.mem) :
           heap'.mem[a].size = heap.mem[a].size
  BY <1>2, <1>3 DEF FreeBlocks
<1>5. /\ TypeOK' /\ TakenBlocksAreOwned' /\ Mapped'
      /\ pc' = "idle" /\ traverse' = NULL /\ request' = 0
  BY <1>1, <1>2, <1>3, <1>4, ReturnTaken DEF IInv, WellFormed
<1>6. CursorOnList' /\ SearchLeft'
  BY <1>5 DEF CursorOnList, SearchLeft
<1> QED
  BY <1>3, <1>5, <1>6, IInvOfHeap

LEMMA FindWholeStep ==
  ASSUME SmallRequests, IInv, FindWhole PROVE IInv'
<1> DEFINE sz == size
<1>1. /\ pc = "find" /\ traverse # NULL
      /\ sz >= 0 => heap.mem[traverse].size >= sz
      /\ heap' = TakeWhole(heap, traverse)
      /\ Return(traverse)
  BY DEF FindWhole, mem, BigEnough
<1>2. /\ Mapped /\ WellFormed(heap) /\ TypeOK /\ HeapTyped(heap)
      /\ traverse \in FreeBlocks(heap.mem) /\ traverse \in DOMAIN heap.mem
      /\ request \in Requests /\ sz \in Nat \ {0} /\ sz >= request
      /\ heap.mem[traverse].size \in Nat
  BY <1>1, FoundBlock
<1> HIDE DEF sz
<1>3. /\ WellFormed(heap')
      /\ DOMAIN heap'.mem = DOMAIN heap.mem
      /\ FreeBlocks(heap'.mem) = FreeBlocks(heap.mem) \ {traverse}
      /\ \A a \in DOMAIN heap.mem : heap'.mem[a].size = heap.mem[a].size
      /\ traverse # Sentinel /\ traverse \in Addr
  BY <1>1, <1>2, TakeWholeHeap DEF HeapTyped, MemTyped
<1>4. DOMAIN heap'.mem \ FreeBlocks(heap'.mem)
        = (DOMAIN heap.mem \ FreeBlocks(heap.mem)) \cup {traverse}
  BY <1>2, <1>3
<1>5. heap'.mem[traverse].size >= request
  <2>1. request \in Nat /\ heap.mem[traverse].size >= sz
    BY <1>1, <1>2, RequestAssumption DEF RequestAssumption
  <2> QED
    BY <2>1, <1>2, <1>3
<1>6. /\ TypeOK' /\ TakenBlocksAreOwned' /\ Mapped'
      /\ pc' = "idle" /\ traverse' = NULL /\ request' = 0
  BY <1>1, <1>2, <1>3, <1>4, <1>5, ReturnTaken DEF IInv, WellFormed
<1>7. CursorOnList' /\ SearchLeft'
  BY <1>6 DEF CursorOnList, SearchLeft
<1> QED
  BY <1>3, <1>6, <1>7, IInvOfHeap

LEMMA DfreeStep ==
  ASSUME IInv, NEW memory \in DOMAIN owned, Dfree(memory) PROVE IInv'
<1> DEFINE block == Magic(memory)
           T == (DOMAIN heap.mem \ FreeBlocks(heap.mem)) \ {block}
<1>1. /\ pc = "idle" /\ heap' = GiveBack(heap, block)
      /\ owned' = [p \in DOMAIN owned \ {memory} |-> owned[p]]
      /\ UNCHANGED <<arena, pc, traverse, request>>
  BY DEF Dfree
<1>2. Mapped /\ WellFormed(heap) /\ TypeOK /\ TakenBlocksAreOwned
  BY HeapOfIInv DEF IInv
<1>3. block \in DOMAIN heap.mem \ (FreeBlocks(heap.mem) \cup {Sentinel})
  BY <1>2, ReleaseHeld
<1>4. /\ WellFormed(heap') /\ HeapTyped(heap')
      /\ DOMAIN heap'.mem \ FreeBlocks(heap'.mem) = T
      /\ \A a \in T : heap'.mem[a].size = heap.mem[a].size
  <2> HIDE DEF block
  <2> QED
    BY <1>1, <1>2, <1>3, GiveBackHeap DEF WellFormed
<1>5. TypeOK' /\ TakenBlocksAreOwned' /\ Mapped'
  <2>1. T = (DOMAIN heap.mem \ FreeBlocks(heap.mem)) \ {Magic(memory)}
    OBVIOUS
  <2> HIDE DEF T, block
  <2> QED
    BY <2>1, <1>1, <1>2, <1>4, ReleaseTaken
<1>6. CursorOnList'
  BY <1>1, <1>5 DEF IInv, CursorOnList
<1>7. SearchLeft'
  BY <1>1 DEF SearchLeft
<1> QED
  BY <1>4, <1>5, <1>6, <1>7, IInvOfHeap

LEMMA NextInvariant ==
  ASSUME SmallRequests, IInv, [Next]_vars PROVE IInv'
<1>1. CASE Initialise
  BY <1>1, InitialiseStep
<1>2. CASE \E r \in Requests : DallocEnter(r)
  BY <1>2, DallocEnterStep
<1>3. CASE Find
  BY <1>3, FindAdvanceStep, FindSplitStep, FindWholeStep, FindNothingStep DEF Find
<1>4. CASE \E memory \in DOMAIN owned : Dfree(memory)
  BY <1>4, DfreeStep
<1>5. CASE UNCHANGED vars
  <2>1. UNCHANGED <<heap, arena, pc, traverse, request, owned>>
    BY <1>5 DEF vars
  <2>2. TypeOK' = TypeOK /\ CursorOnList' = CursorOnList
    BY <2>1 DEF TypeOK, CursorOnList, mem, Mapped
  <2>3. SearchLeft' = SearchLeft
    BY <2>1 DEF SearchLeft, BigEnough, size, mem
  <2> QED
    BY <2>1, <2>2, <2>3, SameHeap DEF IInv
<1> QED
  BY <1>1, <1>2, <1>3, <1>4, <1>5 DEF Next

-----------------------------------------------------------------------------
(* The theorems.                                                           *)

\* Everything below follows from this: the allocator keeps its heap well
\* formed, and find()'s cursor has what it looks for ahead of it.
THEOREM Invariance == SmallRequests => (Spec => []IInv)
<1> SUFFICES ASSUME SmallRequests PROVE Spec => []IInv
  OBVIOUS
<1>1. Init => IInv
  BY InitInvariant
<1>2. IInv /\ [Next]_vars => IInv'
  BY NextInvariant
<1> QED
  BY <1>1, <1>2, PTL DEF Spec

\* Every header field stays in its range: nothing that split() and merge()
\* compute is cut off by the uint16_t it is stored in.
THEOREM TypeCorrect == SmallRequests => (Spec => []TypeOK)
<1> SUFFICES ASSUME SmallRequests PROVE Spec => []TypeOK
  OBVIOUS
<1>1. IInv => TypeOK
  BY DEF IInv
<1> QED
  BY <1>1, Invariance, PTL

\* Boundary tags agree whatever calls of dalloc() and dfree() came before:
\* before() and after() always land on a header.
THEOREM TagsAgree == SmallRequests => (Spec => []BoundaryTags)
<1> SUFFICES ASSUME SmallRequests PROVE Spec => []BoundaryTags
  OBVIOUS
<1>1. IInv => BoundaryTags
  BY DEF IInv
<1> QED
  BY <1>1, Invariance, PTL

\* merge() leaves no two neighbours free.
THEOREM Coalescing == SmallRequests => (Spec => []NoAdjacentFree)
<1> SUFFICES ASSUME SmallRequests PROVE Spec => []NoAdjacentFree
  OBVIOUS
<1>1. IInv => NoAdjacentFree
  BY DEF IInv
<1> QED
  BY <1>1, Invariance, PTL

\* detach() and insert() keep the free blocks, all of them and no others, on
\* one acyclic doubly linked list that starts at flist.
THEOREM ListIntact == SmallRequests => (Spec => []FreeListLinked)
<1> SUFFICES ASSUME SmallRequests PROVE Spec => []FreeListLinked
  OBVIOUS
<1>1. IInv => FreeListLinked
  BY DEF IInv
<1> QED
  BY <1>1, Invariance, PTL

\* A block is free or held by the client, never both and never neither, and
\* a block that is held is as large as dalloc() was asked for.
THEOREM NothingLost == SmallRequests => (Spec => []TakenBlocksAreOwned)
<1> SUFFICES ASSUME SmallRequests PROVE Spec => []TakenBlocksAreOwned
  OBVIOUS
<1>1. IInv => TakenBlocksAreOwned
  BY DEF IInv
<1> QED
  BY <1>1, Invariance, PTL

\* The loop of find() never follows a link to anything but a free block.
THEOREM CursorSafe == SmallRequests => (Spec => []CursorOnList)
<1> SUFFICES ASSUME SmallRequests PROVE Spec => []CursorOnList
  OBVIOUS
<1>1. IInv => CursorOnList
  BY DEF IInv
<1> QED
  BY <1>1, Invariance, PTL

\* When the client holds nothing the arena is one free block: with every block
\* free and no two neighbours free, there is room for one only.
LEMMA OneBlock ==
  ASSUME IInv PROVE WholeAgain
<1> SUFFICES ASSUME Mapped, DOMAIN owned = {}
             PROVE  /\ DOMAIN heap.mem = {0, Sentinel} /\ heap.mem[0].free
                    /\ heap.mem[0].size = ARENA - 2 * HEAD
  BY DEF WholeAgain, mem
<1> DEFINE m == heap.mem
           aft == After(m, 0)
<1>1. MemTyped(m) /\ Layout(m) /\ Flags(m) /\ Coalesced(m)
  BY HeapOfIInv DEF WellFormed, HeapTyped
<1>2. {} = DOMAIN m \ (FreeBlocks(m) \cup {Sentinel})
  BY DEF IInv, TakenBlocksAreOwned, Held, mem
<1> HIDE DEF m, aft
<1>3. 0 \in DOMAIN m /\ Sentinel \in DOMAIN m /\ Sentinel \in Int /\ 0 # Sentinel
  BY <1>1, HeapAssumption DEF HeapAssumption, Layout, Sentinel
<1>4. m[0].free /\ aft \in DOMAIN m /\ aft \in Int
  BY <1>1, <1>2, <1>3, Neighbours, FieldTypes DEF FreeBlocks, aft
<1>5. m[aft].bfree
  BY <1>1, <1>3, <1>4 DEF Flags, aft
<1>6. aft = Sentinel
  BY <1>1, <1>2, <1>4, <1>5 DEF Coalesced, FreeBlocks
<1>7. ASSUME NEW a \in DOMAIN m, a # 0 PROVE a = Sentinel
  <2>1. a \in Int /\ 0 < a /\ a <= Sentinel
    BY <1>1, <1>7, FieldTypes
  <2>2. aft <= a
    BY <2>1, <1>1, <1>3 DEF Layout, Disjoint, aft
  <2> QED
    BY <2>1, <2>2, <1>3, <1>6
<1>8. DOMAIN m = {0, Sentinel}
  BY <1>3, <1>7
<1>9. m[0].size = ARENA - 2 * HEAD
  <2>1. m[0].size \in Int /\ 0 + m[0].size + HEAD = Sentinel
    BY <1>1, <1>3, <1>6, FieldTypes DEF aft, After
  <2> QED
    BY <2>1, HeapAssumption DEF HeapAssumption, Sentinel
<1> QED
  BY <1>4, <1>8, <1>9 DEF m

\* Whatever the order of the frees, the arena is never left fragmented.
THEOREM NeverFragmented == SmallRequests => (Spec => []WholeAgain)
<1> SUFFICES ASSUME SmallRequests PROVE Spec => []WholeAgain
  OBVIOUS
<1>1. IInv => WholeAgain
  BY OneBlock
<1> QED
  BY <1>1, Invariance, PTL

\* find() gives up only when it has seen every free block and none would do.
THEOREM FindIsComplete == SmallRequests => (Spec => RefusesOnlyWhenFull)
<1> SUFFICES ASSUME SmallRequests PROVE Spec => RefusesOnlyWhenFull
  OBVIOUS
<1> DEFINE A == pc = "find" /\ pc' = "idle" /\ owned' = owned =>
                  \A a \in FreeBlocks(mem) : ~BigEnough(a)
<1>1. ASSUME IInv, [Next]_vars PROVE [A]_vars
  <2> SUFFICES ASSUME Next, pc = "find", pc' = "idle", owned' = owned
               PROVE  \A a \in FreeBlocks(mem) : ~BigEnough(a)
    BY <1>1
  <2>1. FindSplit \/ FindWhole \/ FindNothing
    BY DEF Next, Find, Initialise, DallocEnter, FindAdvance, Dfree
  <2>2. CASE FindNothing
    BY <2>2, <1>1 DEF IInv, SearchLeft, FindNothing
  <2>3. CASE FindSplit \/ FindWhole
    <3>1. /\ traverse # NULL
          /\ \E block : Return(block) /\ block \notin Held /\ block \in Addr
      <4>1. /\ Mapped /\ WellFormed(heap) /\ HeapTyped(heap) /\ TypeOK
            /\ traverse \in FreeBlocks(heap.mem) /\ traverse \in DOMAIN heap.mem
            /\ size \in Nat \ {0} /\ traverse # NULL
        BY <2>3, <1>1, FoundBlock DEF FindSplit, FindWhole
      <4>2. Held = DOMAIN heap.mem \ (FreeBlocks(heap.mem) \cup {Sentinel})
        BY <4>1, <1>1 DEF IInv, TakenBlocksAreOwned, mem
      <4>3. traverse \in Addr
        BY <4>1 DEF HeapTyped, MemTyped
      <4>4. CASE FindWhole
        BY <4>1, <4>2, <4>3, <4>4 DEF FindWhole
      <4>5. CASE FindSplit
        <5>1. Return(SplitOff(heap.mem, traverse, size))
              /\ heap.mem[traverse].size >= LIMIT(size)
          BY <4>5 DEF FindSplit, mem
        <5>2. SplitOff(heap.mem, traverse, size) \in Addr \ DOMAIN heap.mem
          BY <4>1, <5>1, TakeTailHeap
        <5> QED
          BY <4>1, <4>2, <5>1, <5>2
      <4> QED
        BY <2>3, <4>4, <4>5
    <3>2. PICK block : Return(block) /\ block \notin Held /\ block \in Addr
      BY <3>1
    <3>3. Magic(Hide(block)) = block
      BY <3>2, HeapAssumption DEF HeapAssumption, Magic, Hide, Addr
    <3>4. Hide(block) \in DOMAIN owned'
      BY <3>2 DEF Return
    <3>5. Hide(block) \notin DOMAIN owned
      BY <3>2, <3>3 DEF Held
    <3> QED
      BY <3>4, <3>5
  <2> QED
    BY <2>1, <2>2, <2>3
<1>2. Spec => [][A]_vars
  BY <1>1, Invariance, PTL DEF Spec
<1> QED
  BY <1>2 DEF RefusesOnlyWhenFull

-----------------------------------------------------------------------------
(***************************************************************************)
(* The refinement: what the client holds, read off the headers, is what    *)
(* BlockStore promises.  Payload is the value that the INSTANCE gives held. *)
(***************************************************************************)
Payload == [p \in DOMAIN owned |-> mem[Magic(p)].size]

\* What the client knows of the addresses it holds.
LEMMA HeldAddresses ==
  ASSUME TypeOK
  PROVE  /\ HEAD \in Nat \ {0} /\ Sentinel \in Int /\ Sentinel + HEAD = ARENA
         /\ \A p \in DOMAIN owned : p \in Int /\ Magic(p) \in Held
         /\ \A p, q \in DOMAIN owned : Magic(p) = Magic(q) => p = q
<1>1. HEAD \in Nat \ {0} /\ ARENA \in Nat
  BY HeapAssumption DEF HeapAssumption
<1>2. \A p \in DOMAIN owned : p \in Int /\ Magic(p) \in Held
  BY <1>1 DEF TypeOK, Hide, Addr, Held
<1> QED
  BY <1>1, <1>2 DEF Magic, Sentinel

\* dalloc() hands out a block: its payload is vacant in the abstract store,
\* because no two blocks of a heap that is laid out well overlap.
LEMMA GrantStep ==
  ASSUME TypeOK, request \in Requests, NEW block \in Addr, Return(block),
         MemTyped(heap'.mem), Layout(heap'.mem),
         block \in DOMAIN heap'.mem \ {Sentinel}, block \notin Held,
         Held \subseteq DOMAIN heap'.mem \ {Sentinel},
         \A a \in Held : heap'.mem[a].size = heap.mem[a].size,
         heap'.mem[block].size >= request
  PROVE  Store!StoreNext
<1> DEFINE m == heap'.mem
           p == Hide(block)
           n == m[block].size
<1>1. /\ HEAD \in Nat \ {0} /\ Sentinel \in Int /\ Sentinel + HEAD = ARENA
      /\ \A q \in DOMAIN owned : q \in Int /\ Magic(q) \in Held
  BY HeldAddresses
<1>2. /\ block \in Int /\ 0 <= block /\ n \in Nat /\ p = block + HEAD /\ Magic(p) = block
  BY <1>1, FieldTypes DEF Hide, Magic
<1>3. /\ After(m, block) = p + n /\ After(m, block) <= Sentinel
  BY <1>1, <1>2, FieldTypes, Neighbours DEF After
<1>4. ASSUME NEW q \in DOMAIN owned
      PROVE  p + n <= q \/ q + Payload[q] <= p
  <2> DEFINE a == Magic(q)
  <2>1. /\ a \in DOMAIN m /\ a # Sentinel /\ a # block /\ q = a + HEAD
        /\ Payload[q] = m[a].size
    BY <1>1 DEF Payload, Magic, mem
  <2>2. a \in Int /\ m[a].size \in Nat /\ After(m, a) = q + m[a].size
    BY <1>1, <2>1, FieldTypes DEF After
  <2> HIDE DEF a, m, p, n
  <2>3. CASE block < a
    <3>1. p + n <= a
      BY <2>1, <2>3, <1>2, <1>3 DEF Layout, Disjoint, m
    <3> QED
      BY <3>1, <2>1, <2>2, <1>1, <1>2
  <2>4. CASE a < block
    <3>1. q + m[a].size <= block
      BY <2>1, <2>2, <2>4, <1>2 DEF Layout, Disjoint, m
    <3> QED
      BY <3>1, <2>1, <2>2, <1>1, <1>2
  <2> QED
    BY <2>1, <2>2, <2>3, <2>4, <1>2
<1>5. /\ Payload' = [q \in DOMAIN owned \cup {p} |-> IF q = p THEN n ELSE Payload[q]]
      /\ request' = 0
  <2>1. DOMAIN owned' = DOMAIN owned \cup {p} /\ request' = 0
    BY DEF Return
  <2>2. \A q \in DOMAIN owned : m[Magic(q)].size = Payload[q]
    BY <1>1 DEF Payload, mem
  <2> QED
    BY <2>1, <2>2, <1>2 DEF Payload, mem
<1>6. request \in Nat /\ request > 0
  BY RequestAssumption DEF RequestAssumption
<1>7. p \in DOMAIN Payload' /\ Payload'[p] = n /\ DOMAIN Payload = DOMAIN owned
  BY <1>5 DEF Payload
<1> HIDE DEF m, p, n
<1>8. Store!Grant(p, Payload'[p])
  <2>1. Store!Vacant(p, n)
    BY <1>4 DEF Store!Vacant, Payload
  <2>2. p >= 0 /\ n >= request /\ p + n <= ARENA
    BY <1>1, <1>2, <1>3 DEF m, n
  <2> QED
    BY <2>1, <2>2, <1>5, <1>6, <1>7 DEF Store!Grant, Payload
<1> QED
  BY <1>7, <1>8 DEF Store!StoreNext, Payload

\* dfree() takes one region from what the client holds, and the others stay
\* where they are and as long as they were.
LEMMA ReleaseRegion ==
  ASSUME TypeOK, NEW memory \in DOMAIN owned, request = 0, request' = request,
         owned' = [p \in DOMAIN owned \ {memory} |-> owned[p]],
         \A a \in Held \ {Magic(memory)} : heap'.mem[a].size = heap.mem[a].size
  PROVE  Store!StoreNext
<1>1. \A p \in DOMAIN owned : p # memory => Magic(p) \in Held \ {Magic(memory)}
  BY HeldAddresses
<1>2. DOMAIN owned' = DOMAIN owned \ {memory}
  OBVIOUS
<1>3. Payload' = [p \in DOMAIN owned \ {memory} |-> Payload[p]]
  BY <1>1, <1>2 DEF Payload, mem
<1>4. Store!Release(memory)
  BY <1>3 DEF Store!Release, Payload
<1> QED
  BY <1>4 DEF Store!StoreNext

\* dfree() merges around the block it is given, and no block in use is moved.
LEMMA ReleaseStep ==
  ASSUME IInv, NEW memory \in DOMAIN owned, Dfree(memory)
  PROVE  Store!StoreNext
<1> DEFINE block == Magic(memory)
<1>1. /\ pc = "idle" /\ heap' = GiveBack(heap, block)
      /\ owned' = [p \in DOMAIN owned \ {memory} |-> owned[p]]
      /\ request' = request
  BY DEF Dfree
<1>2. TypeOK /\ TakenBlocksAreOwned /\ Mapped /\ WellFormed(heap) /\ request = 0
  BY <1>1, HeapOfIInv DEF IInv, CursorOnList
<1>3. Held = DOMAIN heap.mem \ (FreeBlocks(heap.mem) \cup {Sentinel})
  BY <1>2 DEF TakenBlocksAreOwned, mem
<1>4. block \in Held
  BY <1>2, HeldAddresses
<1> HIDE DEF block
<1>5. \A a \in Held \ {block} : heap'.mem[a].size = heap.mem[a].size
  BY <1>1, <1>2, <1>3, <1>4, GiveBackHeap
<1> QED
  BY <1>1, <1>2, <1>5, ReleaseRegion DEF block

LEMMA StoreSteps ==
  ASSUME SmallRequests, IInv, IInv', [Next]_vars
  PROVE  [Store!StoreNext]_(Store!store)
<1> SUFFICES ASSUME Next
             PROVE  Store!StoreNext \/ UNCHANGED <<Payload, request>>
  <2>1. CASE UNCHANGED vars
    BY <2>1 DEF vars, Store!store, mem
  <2>2. CASE Next
    BY <2>2 DEF Store!store, Payload
  <2> QED
    BY <2>1, <2>2
<1>1. CASE Initialise
  <2>1. DOMAIN owned = {} /\ owned' = owned /\ request' = request
    BY <1>1, HeapOfIInv DEF Initialise, Mapped
  <2>2. Payload' = Payload
    BY <2>1 DEF Payload
  <2> QED
    BY <2>1, <2>2
<1>2. ASSUME NEW r \in Requests, DallocEnter(r)
      PROVE  Store!StoreNext
  <2>1. request = 0 /\ request' = r /\ UNCHANGED <<heap, owned>>
    BY <1>2 DEF IInv, CursorOnList, DallocEnter
  <2>2. Payload' = Payload
    BY <2>1 DEF Payload, mem
  <2>3. Store!Call(r)
    BY <2>1, <2>2 DEF Store!Call, Payload
  <2> QED
    BY <2>3 DEF Store!StoreNext
<1>3. CASE FindAdvance
  BY <1>3 DEF FindAdvance, Payload, mem
<1>4. CASE FindNothing
  <2>1. request \in Requests /\ request' = 0 /\ UNCHANGED <<heap, owned>>
    BY <1>4 DEF IInv, CursorOnList, FindNothing
  <2>2. Payload' = Payload
    BY <2>1 DEF Payload, mem
  <2>3. Store!Refuse
    BY <2>1, <2>2, RequestAssumption DEF RequestAssumption, Store!Refuse, Payload
  <2> QED
    BY <2>3 DEF Store!StoreNext
<1>5. CASE FindSplit \/ FindWhole
  <2>1. /\ Mapped /\ WellFormed(heap) /\ HeapTyped(heap) /\ TypeOK
        /\ traverse \in FreeBlocks(heap.mem) /\ traverse \in DOMAIN heap.mem
        /\ request \in Requests /\ size \in Nat \ {0}
    BY <1>5, FoundBlock DEF FindSplit, FindWhole
  <2>2. Held = DOMAIN heap.mem \ (FreeBlocks(heap.mem) \cup {Sentinel})
    BY <2>1 DEF IInv, TakenBlocksAreOwned, mem
  <2>3. /\ \A a \in Held : heap'.mem[a].size = heap.mem[a].size
        /\ \E block \in Addr \ Held : Return(block)
    <3>1. CASE FindWhole
      BY <3>1, <2>1, <2>2, TakeWholeHeap DEF FindWhole, HeapTyped, MemTyped
    <3>2. CASE FindSplit
      <4>1. /\ Return(SplitOff(heap.mem, traverse, size))
            /\ heap.mem[traverse].size >= LIMIT(size)
            /\ heap' = TakeTail(heap, traverse, size)
        BY <3>2 DEF FindSplit, mem
      <4>2. /\ SplitOff(heap.mem, traverse, size) \in Addr \ DOMAIN heap.mem
            /\ \A a \in DOMAIN heap.mem : a # traverse => heap'.mem[a].size = heap.mem[a].size
        BY <2>1, <4>1, TakeTailHeap
      <4> QED
        BY <2>1, <2>2, <4>1, <4>2
    <3> QED
      BY <1>5, <3>1, <3>2
  <2>4. PICK block \in Addr \ Held : Return(block)
    BY <2>3
  <2>5. Mapped' /\ MemTyped(heap'.mem) /\ Layout(heap'.mem)
    BY <2>1, <2>4 DEF Return, Mapped, IInv, TypeOK, HeapTyped, BoundaryTags, mem
  <2>6. Held' = DOMAIN heap'.mem \ (FreeBlocks(heap'.mem) \cup {Sentinel})
    BY <2>5 DEF IInv, TakenBlocksAreOwned, mem
  <2>7. /\ Held' = Held \cup {block} /\ Hide(block) \in DOMAIN owned'
        /\ owned'[Hide(block)] = request /\ Magic(Hide(block)) = block
    <3>1. Magic(Hide(block)) = block
      BY HeapAssumption DEF HeapAssumption, Addr, Magic, Hide
    <3> QED
      BY <3>1, <2>1, <2>4, ReturnOwned DEF Return
  <2>8. heap'.mem[block].size >= request
    BY <2>7 DEF IInv, TakenBlocksAreOwned, mem
  <2>9. Store!StoreNext
    BY <2>1, <2>3, <2>4, <2>5, <2>6, <2>7, <2>8, GrantStep
  <2> QED
    BY <2>9
<1>6. CASE \E memory \in DOMAIN owned : Dfree(memory)
  BY <1>6, ReleaseStep
<1> QED
  BY <1>1, <1>2, <1>3, <1>4, <1>5, <1>6 DEF Next, Find

\* The allocator implements BlockStore: whatever it splits, merges and links,
\* the client sees disjoint regions, large enough, that stay where they are.
THEOREM Implementation == SmallRequests => (Spec => ImplementsBlockStore)
<1> SUFFICES ASSUME SmallRequests PROVE Spec => ImplementsBlockStore
  OBVIOUS
<1>1. Init => Store!StoreInit
  BY DEF Init, Store!StoreInit
<1>2. IInv /\ IInv' /\ [Next]_vars => [Store!StoreNext]_(Store!store)
  BY StoreSteps
<1>3. Spec => Store!StoreSpec
  BY <1>1, <1>2, Invariance, PTL DEF Spec, Store!StoreSpec
<1> QED
  BY <1>3 DEF ImplementsBlockStore

-----------------------------------------------------------------------------
(***************************************************************************)
(* The walks of the checkers.  The free list is a chain from flist to the  *)
(* null pointer, and the blocks are one from the first to the sentinel.    *)
(***************************************************************************)
NextOf(h) == [a \in FreeBlocks(h.mem) |-> h.mem[a].next]

\* R with the null pointer behind every block.
ToNull(h, R) == R \cup (FreeBlocks(h.mem) \X {NULL})

LEMMA ListIsChain ==
  ASSUME NEW h, HeapTyped(h), DoublyLinked(h, FreeBlocks(h.mem)),
         NEW R \in SUBSET (FreeBlocks(h.mem) \X FreeBlocks(h.mem)),
         ListOrder(h, FreeBlocks(h.mem), R)
  PROVE  Chain(FreeBlocks(h.mem) \cup {NULL}, h.flist, NULL, NextOf(h), ToNull(h, R))
<1> DEFINE F == FreeBlocks(h.mem)
           E == F \cup {NULL}
           RN == R \cup (F \X {NULL})
           next == [a \in F |-> h.mem[a].next]
<1>1. NULL \notin F
  BY HeapAssumption DEF HeapAssumption, FreeBlocks, HeapTyped, MemTyped, Addr
<1>2. R \subseteq F \X F
  OBVIOUS
<1> HIDE DEF F
<1>3. \A a, b : <<a, b>> \in RN <=> <<a, b>> \in R \/ (a \in F /\ b = NULL)
  OBVIOUS
<1>4. \A a, b : <<a, b>> \in R => a \in F /\ b \in F
  BY <1>2
<1>5. h.flist \in E
  BY DEF DoublyLinked, F
<1>6. E \ {NULL} = F
  BY <1>1
<1>7. next \in [F -> E] /\ \A a \in F : next[a] = h.mem[a].next
  <2>1. \A a \in F : h.mem[a].next # NULL => h.mem[a].next \in F
    BY DEF DoublyLinked, F
  <2> QED BY <2>1
<1>8. /\ \A a \in F : <<a, a>> \notin R
      /\ \A a, b, c \in F : <<a, b>> \in R /\ <<b, c>> \in R => <<a, c>> \in R
      /\ \A a \in F : h.flist # NULL /\ (a # h.flist => <<h.flist, a>> \in R)
      /\ \A a \in F : h.mem[a].next # NULL => <<a, h.mem[a].next>> \in R
      /\ \A a, b \in F : <<a, b>> \in R =>
           /\ h.mem[a].next # NULL
           /\ b # h.mem[a].next => <<h.mem[a].next, b>> \in R
  BY DEF ListOrder, F
<1> HIDE DEF RN, next
<1>9. \A a \in E : <<a, a>> \notin RN /\ <<NULL, a>> \notin RN
  BY <1>1, <1>3, <1>4, <1>8
<1>10. \A a, b, c \in E : <<a, b>> \in RN /\ <<b, c>> \in RN => <<a, c>> \in RN
  BY <1>1, <1>3, <1>4, <1>8
<1>11. \A a \in E : a # h.flist => <<h.flist, a>> \in RN
  BY <1>3, <1>5, <1>8
<1>12. \A a \in F : <<a, next[a]>> \in RN
  BY <1>3, <1>7, <1>8
<1>13. \A a \in F, b \in E : <<a, b>> \in RN /\ b # next[a] => <<next[a], b>> \in RN
  BY <1>1, <1>3, <1>4, <1>7, <1>8
<1>14. Chain(E, h.flist, NULL, next, RN)
  BY <1>5, <1>6, <1>7, <1>9, <1>10, <1>11, <1>12, <1>13 DEF Chain
<1> QED
  BY <1>14 DEF F, RN, next, NextOf, ToNull

\* NextWalk is the walk along it.
LEMMA NextWalkWalks ==
  ASSUME NEW R, Chain(FreeBlocks(mem) \cup {NULL}, heap.flist, NULL, NextOf(heap), R)
  PROVE  Walking(FreeBlocks(mem) \cup {NULL}, heap.flist, NULL, NextOf(heap), R, NextWalk)
<1> DEFINE E == FreeBlocks(mem) \cup {NULL}
           Longer(seen) == IF Last(seen) = NULL THEN seen
                         ELSE Append(seen, mem[Last(seen)].next)
           Def(f) == f = [n \in Nat |-> IF n = 0 THEN <<heap.flist>> ELSE Longer(f[n - 1])]
<1>1. PICK f : Walking(E, heap.flist, NULL, NextOf(heap), R, f)
  BY WalkingExists
<1>2. ASSUME NEW n \in Nat PROVE f[n + 1] = Longer(f[n])
  <2>1. /\ f[n] \in Seq(E) /\ f[n] # <<>>
        /\ f[n + 1] = Onward(NULL, NextOf(heap), f[n])
    BY <1>1 DEF Walking, Walk
  <2>2. f[n][Len(f[n])] \in E
    BY <2>1
  <2>3. f[n][Len(f[n])] # NULL => NextOf(heap)[f[n][Len(f[n])]] = mem[f[n][Len(f[n])]].next
    BY <2>2 DEF NextOf, mem
  <2> QED BY <2>1, <2>3 DEF Onward, Last
<1>3. f \in [Nat -> Seq(E)] /\ f[0] = <<heap.flist>>
  BY <1>1 DEF Walking
<1>4. NextWalk = CHOOSE g : Def(g)
  BY DEF NextWalk
<1> HIDE DEF Longer
<1>5. Def(f)
  <2>1. \A n \in Nat : f[n] = IF n = 0 THEN <<heap.flist>> ELSE Longer(f[n - 1])
    <3> SUFFICES ASSUME NEW n \in Nat, n # 0 PROVE f[n] = Longer(f[n - 1])
      BY <1>3
    <3>1. n - 1 \in Nat /\ (n - 1) + 1 = n OBVIOUS
    <3> QED BY <1>2, <3>1
  <2> QED BY <1>3, <2>1
<1>6. Def(NextWalk)
  <2> HIDE DEF Def
  <2> QED BY <1>4, <1>5
<1>7. /\ NextWalk[0] = <<heap.flist>>
      /\ \A n \in Nat : NextWalk[n + 1] = Longer(NextWalk[n])
  <2>1. \A n \in Nat : n + 1 \in Nat /\ n + 1 # 0 /\ (n + 1) - 1 = n OBVIOUS
  <2> QED BY <1>6, <2>1
<1> DEFINE N == {n \in Nat : NextWalk[n] = f[n]}
<1>8. 0 \in N
  BY <1>3, <1>7
<1>9. ASSUME NEW n \in Nat, n \in N PROVE n + 1 \in N
  BY <1>2, <1>7, <1>9
<1> HIDE DEF N, Def
<1>10. Nat \subseteq N
  BY <1>8, <1>9, Induction
<1>11. NextWalk = f
  <2>1. NextWalk = [n \in Nat |-> IF n = 0 THEN <<heap.flist>> ELSE Longer(NextWalk[n - 1])]
    BY <1>6 DEF Def
  <2>2. \A n \in Nat : NextWalk[n] = f[n]
    BY <1>10 DEF N
  <2>3. f = [n \in Nat |-> f[n]]
    BY <1>3
  <2>4. NextWalk = [n \in Nat |-> NextWalk[n]]
    BY <2>1
  <2> QED BY <2>2, <2>3, <2>4
<1> QED
  BY <1>1, <1>11

\* What the walk leaves behind: the free blocks, in the order of the list.
LEMMA FreeListWalk ==
  ASSUME NEW R, HeapTyped(heap), DoublyLinked(heap, FreeBlocks(mem)),
         Chain(FreeBlocks(mem) \cup {NULL}, heap.flist, NULL, NextOf(heap), R)
  PROVE  /\ FreeList \in Seq(FreeBlocks(mem))
         /\ {FreeList[i] : i \in 1 .. Len(FreeList)} = FreeBlocks(mem)
         /\ \A i, j \in 1 .. Len(FreeList) : i < j => <<FreeList[i], FreeList[j]>> \in R
         /\ \A i \in 1 .. Len(FreeList) :
              /\ i = 1 => FreeList[i] = heap.flist
              /\ i > 1 => FreeList[i] = mem[FreeList[i - 1]].next
<1> DEFINE F == FreeBlocks(mem)
           E == F \cup {NULL}
           n == Cardinality(DOMAIN mem)
           s == NextWalk[n]
           k == Len(s) - 1
<1> DEFINE next == NextOf(heap)
<1>1. Chain(E, heap.flist, NULL, next, R) /\ Walking(E, heap.flist, NULL, next, R, NextWalk)
  BY NextWalkWalks
<1>2. IsFiniteSet(DOMAIN mem)
  <2>1. DOMAIN mem \subseteq 0 .. ARENA - HEAD
    BY DEF HeapTyped, MemTyped, Addr, mem
  <2>2. 0 \in Int /\ ARENA - HEAD \in Int
    BY HeapAssumption DEF HeapAssumption
  <2> QED BY <2>1, <2>2, FS_Interval, FS_Subset
<1>3. n \in Nat
  BY <1>2, FS_CardinalityType
<1>4. IsFiniteSet(E) /\ Cardinality(E) <= n + 1
  <2>1. F \subseteq DOMAIN mem
    BY DEF FreeBlocks
  <2>2. IsFiniteSet(F) /\ Cardinality(F) <= n
    BY <1>2, <2>1, FS_Subset
  <2>3. Cardinality(F) \in Nat
    BY <2>2, FS_CardinalityType
  <2>4. IsFiniteSet(E) /\ Cardinality(E) = IF NULL \in F THEN Cardinality(F) ELSE Cardinality(F) + 1
    BY <2>2, FS_AddElement
  <2> QED BY <1>3, <2>2, <2>3, <2>4
<1>5. Ended(NULL, s)
  <2> HIDE DEF n, E, next
  <2> QED BY <1>1, <1>3, <1>4, WalkEnds
<1>6. Walk(E, heap.flist, NULL, NextOf(heap), R, s)
  BY <1>1, <1>3 DEF Walking
<1>7. s \in Seq(E) /\ k \in Nat
  BY <1>6 DEF Walk
<1>8. FreeList = SubSeq(s, 1, k)
  BY DEF FreeList, Front
<1>9. /\ \A i \in 1 .. k : s[i] \in E \ {NULL}
      /\ \A b \in E \ {NULL} : \E i \in 1 .. k : s[i] = b
  <2>1. Walk(E, heap.flist, NULL, next, R, s)
    BY <1>6
  <2>2. Chain(E, heap.flist, NULL, next, R)
    BY <1>1
  <2>3. Met(s) = E \ {NULL}
    BY <1>5, <2>1, <2>2, WalkMeetsAll
  <2> QED BY <2>3 DEF k, Met
<1>10. E \ {NULL} = F
  BY HeapAssumption DEF HeapAssumption, FreeBlocks, HeapTyped, MemTyped, Addr, mem
<1> HIDE DEF s, E, F
<1>11. \A i \in 1 .. k : s[i] \in F
  BY <1>9, <1>10
<1>12. FreeList \in Seq(F) /\ Len(FreeList) = k /\ \A i \in 1 .. k : FreeList[i] = s[i]
  <2>1. SubSeq(s, 1, k) = [i \in 1 .. k |-> s[i]]
    BY <1>7
  <2> DEFINE t == [i \in 1 .. k |-> s[i]]
  <2>2. t \in [1 .. k -> F] /\ \A i \in 1 .. k : t[i] = s[i]
    BY <1>11
  <2> HIDE DEF t
  <2>3. t \in Seq(F) /\ Len(t) = k
    BY <1>7, <2>2
  <2>4. FreeList = t
    BY <1>8, <2>1 DEF t
  <2> QED BY <2>2, <2>3, <2>4
<1> HIDE DEF k
<1>13. {FreeList[i] : i \in 1 .. Len(FreeList)} = F
  BY <1>9, <1>10, <1>12
<1>14. \A i, j \in 1 .. k : i < j => <<s[i], s[j]>> \in R
  <2>1. \A i \in 1 .. k : i \in 1 .. Len(s)
    BY <1>7 DEF k
  <2> QED BY <1>6, <2>1 DEF Walk
<1>15. \A i \in 1 .. k : i > 1 => s[i] = mem[s[i - 1]].next
  <2> SUFFICES ASSUME NEW i \in 1 .. k, i > 1 PROVE s[i] = mem[s[i - 1]].next
    OBVIOUS
  <2>1. i - 1 \in 1 .. k /\ (i - 1) + 1 = i
    BY <1>7
  <2>2. s[i] = NextOf(heap)[s[i - 1]]
    BY <1>6, <2>1 DEF Walk, k
  <2> QED BY <1>11, <2>1, <2>2 DEF NextOf, F, mem
<1>16. s[1] = heap.flist
  BY <1>6 DEF Walk
<1>17. \A i \in 1 .. k : i - 1 \in 1 .. k \/ i = 1
  BY <1>7
<1>18. \A i \in 1 .. k : i > 1 => FreeList[i] = mem[FreeList[i - 1]].next
  BY <1>12, <1>15, <1>17
<1> QED
  BY <1>12, <1>13, <1>14, <1>16, <1>18 DEF F

-----------------------------------------------------------------------------
(* find() is first fit.                                                    *)

LEMMA FirstFitHolds == IInv => FirstFit
<1> SUFFICES ASSUME IInv, pc = "find",
                    NEW i \in 1 .. Len(FreeList),
                    \A j \in 1 .. i : FreeList[j] # traverse,
                    BigEnough(FreeList[i])
             PROVE  FALSE
  BY DEF FirstFit
<1> DEFINE F == FreeBlocks(mem)
           L == FreeList
<1>1. PICK R \in SUBSET (F \X F) :
        /\ ListOrder(heap, F, R)
        /\ \A a \in F : BigEnough(a) =>
             traverse # NULL /\ (a = traverse \/ <<traverse, a>> \in R)
  BY DEF IInv, SearchLeft
<1>2. HeapTyped(heap) /\ DoublyLinked(heap, F)
  BY HeapOfIInv DEF Linked, mem
<1>3. Chain(F \cup {NULL}, heap.flist, NULL, NextOf(heap), ToNull(heap, R))
  BY <1>1, <1>2, ListIsChain DEF mem
<1>4. /\ L \in Seq(F)
      /\ {L[k] : k \in 1 .. Len(L)} = F
      /\ \A k, j \in 1 .. Len(L) : k < j => <<L[k], L[j]>> \in ToNull(heap, R)
  BY <1>2, <1>3, FreeListWalk
<1> HIDE DEF L
<1>5. L[i] \in F
  BY <1>4 DEF L
<1>6. traverse # NULL /\ L[i] # traverse /\ <<traverse, L[i]>> \in R
  BY <1>1, <1>5 DEF L
<1>7. traverse \in F
  BY <1>6 DEF IInv, CursorOnList
<1>8. PICK j \in 1 .. Len(L) : L[j] = traverse
  BY <1>4, <1>7
<1>9. i < j
  BY <1>4, <1>8 DEF L
<1>10. <<L[i], traverse>> \in ToNull(heap, R)
  BY <1>4, <1>8, <1>9 DEF L
<1>11. <<L[i], traverse>> \in R
  BY <1>6, <1>10 DEF ToNull
<1> QED
  BY <1>1, <1>5, <1>6, <1>7, <1>11 DEF ListOrder

(***************************************************************************)
(* find() is first fit, for every arena and whatever the client asks for:  *)
(* the blocks that the walk along next meets before the cursor are all too *)
(* small (FirstFit).                                                       *)
(***************************************************************************)
THEOREM FindIsFirstFit == SmallRequests => (Spec => []FirstFit)
<1> SUFFICES ASSUME SmallRequests PROVE Spec => []FirstFit
  OBVIOUS
<1> QED
  BY Invariance, FirstFitHolds, PTL

-----------------------------------------------------------------------------
(* The walk of traverse().                                                 *)

AfterOf(m) == [a \in DOMAIN m \ {Sentinel} |-> After(m, a)]

Ascending(S) == {ss \in S \X S : ss[1] < ss[2]}

LEMMA AscendingIs ==
  ASSUME NEW S, NEW a \in S, NEW b \in S
  PROVE  <<a, b>> \in Ascending(S) <=> a < b
BY DEF Ascending

LEMMA ArenaIsChain ==
  ASSUME NEW m, MemTyped(m), Layout(m)
  PROVE  Chain(DOMAIN m, 0, Sentinel, AfterOf(m), Ascending(DOMAIN m))
<1> DEFINE E == DOMAIN m
           R == Ascending(DOMAIN m)
           next == AfterOf(m)
<1>1. 0 \in E /\ Sentinel \in E
  BY DEF Layout
<1>2. \A a \in E : a \in Int /\ a <= Sentinel /\ a >= 0
  BY HeapAssumption DEF HeapAssumption, MemTyped, Addr, Sentinel
<1>3. \A a, b \in E : <<a, b>> \in R <=> a < b
  BY AscendingIs
<1>4. \A a \in E \ {Sentinel} : next[a] = After(m, a) /\ After(m, a) \in E /\ a < After(m, a)
  <2> SUFFICES ASSUME NEW a \in E \ {Sentinel}
               PROVE  next[a] = After(m, a) /\ After(m, a) \in E /\ a < After(m, a)
    OBVIOUS
  <2>1. After(m, a) \in E /\ m[a].size > 0
    BY DEF Layout, ForwardLinked
  <2>2. m[a].size \in Int
    BY HeapAssumption DEF HeapAssumption, MemTyped, Header
  <2>3. a < After(m, a)
    BY <1>2, <2>1, <2>2, HeapAssumption DEF HeapAssumption, After
  <2> QED BY <2>1, <2>3 DEF AfterOf
<1>5. \A a, b \in E : a < b => After(m, a) <= b
  BY DEF Layout, Disjoint
<1>6. next \in [E \ {Sentinel} -> E]
  BY <1>4 DEF AfterOf
<1> HIDE DEF E, R, next
<1>7. \A a \in E : <<a, a>> \notin R /\ <<Sentinel, a>> \notin R
  BY <1>1, <1>2, <1>3 DEF Sentinel
<1>8. \A a, b, c \in E : <<a, b>> \in R /\ <<b, c>> \in R => <<a, c>> \in R
  BY <1>2, <1>3
<1>9. \A a \in E : a # 0 => <<0, a>> \in R
  BY <1>1, <1>2, <1>3
<1>10. \A a \in E \ {Sentinel} : <<a, next[a]>> \in R
  BY <1>3, <1>4
<1>11. \A a \in E \ {Sentinel}, b \in E :
         <<a, b>> \in R /\ b # next[a] => <<next[a], b>> \in R
  <2> SUFFICES ASSUME NEW a \in E \ {Sentinel}, NEW b \in E, a < b, b # next[a]
               PROVE  next[a] < b
    BY <1>3, <1>4
  <2>1. next[a] = After(m, a) /\ next[a] \in E /\ After(m, a) <= b
    BY <1>4, <1>5
  <2> QED BY <1>2, <2>1
<1>12. Chain(E, 0, Sentinel, next, R)
  BY <1>1, <1>6, <1>7, <1>8, <1>9, <1>10, <1>11 DEF Chain
<1> QED
  BY <1>12 DEF E, next, R

\* AfterWalk is the walk along it.
LEMMA AfterWalkWalks ==
  ASSUME arena = 0, MemTyped(mem), Layout(mem)
  PROVE  Walking(DOMAIN mem, 0, Sentinel, AfterOf(mem), Ascending(DOMAIN mem), AfterWalk)
<1> DEFINE E == DOMAIN mem
           R == Ascending(DOMAIN mem)
           Longer(seen) == IF mem[Last(seen)].size = 0 THEN seen
                           ELSE Append(seen, After(mem, Last(seen)))
           Def(f) == f = [n \in Nat |-> IF n = 0 THEN <<arena>> ELSE Longer(f[n - 1])]
<1>1. PICK f : Walking(E, 0, Sentinel, AfterOf(mem), R, f)
  BY ArenaIsChain, WalkingExists
<1>2. \A a \in E : mem[a].size = 0 <=> a = Sentinel
  <2>1. mem[Sentinel].size = 0 /\ \A a \in E \ {Sentinel} : mem[a].size > 0
    BY DEF Layout, ForwardLinked
  <2> QED BY <2>1
<1>3. ASSUME NEW n \in Nat PROVE f[n + 1] = Longer(f[n])
  <2>1. /\ f[n] \in Seq(E) /\ f[n] # <<>>
        /\ f[n + 1] = Onward(Sentinel, AfterOf(mem), f[n])
    BY <1>1 DEF Walking, Walk
  <2>2. f[n][Len(f[n])] \in E
    BY <2>1
  <2>3. f[n][Len(f[n])] # Sentinel =>
          AfterOf(mem)[f[n][Len(f[n])]] = After(mem, f[n][Len(f[n])])
    BY <2>2 DEF AfterOf
  <2> QED BY <1>2, <2>1, <2>2, <2>3 DEF Onward, Last
<1>4. f \in [Nat -> Seq(E)] /\ f[0] = <<arena>>
  BY <1>1 DEF Walking
<1>5. AfterWalk = CHOOSE g : Def(g)
  BY DEF AfterWalk
<1> HIDE DEF Longer
<1>6. Def(f)
  <2>1. \A n \in Nat : f[n] = IF n = 0 THEN <<arena>> ELSE Longer(f[n - 1])
    <3> SUFFICES ASSUME NEW n \in Nat, n # 0 PROVE f[n] = Longer(f[n - 1])
      BY <1>4
    <3>1. n - 1 \in Nat /\ (n - 1) + 1 = n OBVIOUS
    <3> QED BY <1>3, <3>1
  <2> QED BY <1>4, <2>1
<1>7. Def(AfterWalk)
  <2> HIDE DEF Def
  <2> QED BY <1>5, <1>6
<1>8. /\ AfterWalk[0] = <<arena>>
      /\ \A n \in Nat : AfterWalk[n + 1] = Longer(AfterWalk[n])
  <2>1. \A n \in Nat : n + 1 \in Nat /\ n + 1 # 0 /\ (n + 1) - 1 = n OBVIOUS
  <2> QED BY <1>7, <2>1
<1> DEFINE N == {n \in Nat : AfterWalk[n] = f[n]}
<1>9. 0 \in N
  BY <1>4, <1>8
<1>10. ASSUME NEW n \in Nat, n \in N PROVE n + 1 \in N
  BY <1>3, <1>8, <1>10
<1> HIDE DEF N, Def
<1>11. Nat \subseteq N
  BY <1>9, <1>10, Induction
<1>12. AfterWalk = f
  <2>1. AfterWalk = [n \in Nat |-> IF n = 0 THEN <<arena>> ELSE Longer(AfterWalk[n - 1])]
    BY <1>7 DEF Def
  <2>2. \A n \in Nat : AfterWalk[n] = f[n]
    BY <1>11 DEF N
  <2>3. f = [n \in Nat |-> f[n]]
    BY <1>4
  <2>4. AfterWalk = [n \in Nat |-> AfterWalk[n]]
    BY <2>1
  <2> QED BY <2>2, <2>3, <2>4
<1> QED
  BY <1>1, <1>12

LEMMA TraverseSees ==
  ASSUME arena = 0, HeapTyped(heap), Layout(mem), Flags(mem)
  PROVE  TraverseQuiet
<1> DEFINE E == DOMAIN mem
           n == Cardinality(E)
           s == AfterWalk[n]
           walk == Front(s)
           k == Len(s) - 1
           next == AfterOf(mem)
           R == Ascending(DOMAIN mem)
<1>1. MemTyped(mem)
  BY DEF HeapTyped, mem
<1>2. Chain(E, 0, Sentinel, next, R) /\ Walking(E, 0, Sentinel, next, R, AfterWalk)
  BY <1>1, ArenaIsChain, AfterWalkWalks
<1>3. IsFiniteSet(E) /\ n \in Nat /\ n <= n + 1
  <2>1. E \subseteq 0 .. ARENA - HEAD
    BY <1>1 DEF MemTyped, Addr
  <2>2. 0 \in Int /\ ARENA - HEAD \in Int
    BY HeapAssumption DEF HeapAssumption
  <2>3. IsFiniteSet(E)
    BY <2>1, <2>2, FS_Interval, FS_Subset
  <2>4. n \in Nat
    BY <2>3, FS_CardinalityType
  <2> QED BY <2>3, <2>4
<1>4. Ended(Sentinel, s)
  <2> HIDE DEF E, next, R
  <2>1. Cardinality(E) <= n + 1
    BY <1>3
  <2> HIDE DEF n
  <2> QED BY <1>2, <1>3, <2>1, WalkEnds
<1>5. Walk(E, 0, Sentinel, next, R, s)
  BY <1>2, <1>3 DEF Walking
<1>6. Met(s) = E \ {Sentinel}
  <2> HIDE DEF E, next, R, s
  <2> QED BY <1>2, <1>4, <1>5, WalkMeetsAll
<1>7. s \in Seq(E) /\ k \in Nat
  BY <1>5 DEF Walk
<1> HIDE DEF s
<1>8. Len(walk) = k /\ \A i \in 1 .. k : walk[i] = s[i]
  <2>1. walk = [i \in 1 .. k |-> s[i]]
    BY <1>7 DEF Front
  <2> DEFINE t == [i \in 1 .. k |-> s[i]]
  <2>2. t \in [1 .. k -> {s[i] : i \in 1 .. k}] /\ \A i \in 1 .. k : t[i] = s[i]
    OBVIOUS
  <2> HIDE DEF t
  <2>3. t \in Seq({s[i] : i \in 1 .. k}) /\ Len(t) = k
    BY <1>7, <2>2
  <2> QED BY <2>1, <2>2, <2>3 DEF t
<1> HIDE DEF walk
<1>9. {walk[i] : i \in 1 .. Len(walk)} = E \ {Sentinel}
  BY <1>6, <1>8 DEF Met
<1>10. \A a \in E \ {Sentinel} : TraverseChecks(a)
  BY DEF Layout, ForwardLinked, Flags, TraverseChecks
<1>11. \A i \in 1 .. Len(walk) : TraverseChecks(walk[i])
  BY <1>9, <1>10
<1> QED
  BY <1>9, <1>11 DEF TraverseQuiet, walk, s

LEMMA TraverseQuietHolds == IInv => TraverseQuiet
<1> SUFFICES ASSUME IInv, Mapped PROVE TraverseQuiet
  BY DEF TraverseQuiet
<1> QED
  BY TraverseSees DEF IInv, TypeOK, BoundaryTags, Mapped

(***************************************************************************)
(* traverse() reports no problem, whatever calls came before, and meets    *)
(* every block of the arena, however many there are (TraverseQuiet).       *)
(***************************************************************************)
THEOREM TraverseFindsNothing == SmallRequests => (Spec => []TraverseQuiet)
<1> SUFFICES ASSUME SmallRequests PROVE Spec => []TraverseQuiet
  OBVIOUS
<1> QED
  BY Invariance, TraverseQuietHolds, PTL

-----------------------------------------------------------------------------
(***************************************************************************)
(* What sanity() checks of the sizes.  It needs adjust() to round, as that *)
(* of the "merge" copy does, and an arena and headers that are multiples   *)
(* of ALIGN.                                                               *)
(***************************************************************************)
Rounding ==
  /\ Version = "merge"
  /\ HEAD % ALIGN = 0 /\ ARENA % ALIGN = 0
  /\ ARENA - 2 * HEAD >= MINIMUM

LEMMA Division ==
  ASSUME NEW x \in Int, NEW d \in Nat \ {0}
  PROVE  /\ x % d \in 0 .. d - 1
         /\ x \div d \in Int
         /\ x = d * (x \div d) + (x % d)
OBVIOUS

Multiple(x) == \E k \in Int : x = ALIGN * k

LEMMA MultipleIs ==
  ASSUME NEW x \in Int PROVE Multiple(x) <=> x % ALIGN = 0
<1>1. ALIGN \in Nat \ {0}
  BY HeapAssumption DEF HeapAssumption
<1>2. \A k \in Int : (ALIGN * k) % ALIGN = 0
  BY <1>1
<1>3. x % ALIGN = 0 => x = ALIGN * (x \div ALIGN) /\ x \div ALIGN \in Int
  BY <1>1, Division
<1> QED
  BY <1>2, <1>3 DEF Multiple

LEMMA MultipleSum ==
  ASSUME NEW x \in Int, NEW y \in Int, Multiple(x), Multiple(y)
  PROVE  Multiple(x + y) /\ Multiple(x - y)
<1>1. ALIGN \in Nat \ {0}
  BY HeapAssumption DEF HeapAssumption
<1>2. PICK k \in Int, n \in Int : x = ALIGN * k /\ y = ALIGN * n
  BY DEF Multiple
<1>3. x + y = ALIGN * (k + n) /\ x - y = ALIGN * (k - n)
  BY <1>1, <1>2
<1> QED
  BY <1>3 DEF Multiple

LEMMA AdjustRounds ==
  ASSUME SmallRequests, Version = "merge", NEW r \in Requests
  PROVE  adjust(r) \in Nat /\ Multiple(adjust(r)) /\ adjust(r) >= MINIMUM
<1> DEFINE m == MIN(r)
           rem == m % ALIGN
           q == m \div ALIGN
           up == m + ALIGN - rem
<1>1. INT \in Nat \ {0} /\ ALIGN \in Nat \ {0} /\ ALIGN <= INT
      /\ m \in Nat /\ m >= MINIMUM /\ m <= INT - ALIGN
  BY AdjustAssumption, HeapAssumption, RequestAssumption
     DEF AdjustAssumption, HeapAssumption, RequestAssumption, MIN, SmallRequests
<1> HIDE DEF m
<1>2. rem \in Nat /\ rem < ALIGN /\ q \in Int /\ m = ALIGN * q + rem
  BY <1>1, Division
<1>3. ToInt(m) = m /\ Remainder(m, ALIGN) = rem
  BY <1>1, ToIntIdentity DEF Remainder
<1> HIDE DEF rem, q
<1>4. rem # 0 => up \in Nat /\ up < INT /\ up >= MINIMUM
  BY <1>1, <1>2, HeapAssumption DEF HeapAssumption
<1>5. rem # 0 => ToInt(up) = up
  BY <1>4, ToIntIdentity
<1>6. adjust(r) = IF rem = 0 THEN m ELSE ToInt(up)
  BY <1>3 DEF adjust, m
<1>7. rem = 0 => m = ALIGN * q
  BY <1>1, <1>2
<1>8. up = ALIGN * (q + 1)
  BY <1>1, <1>2
<1> HIDE DEF up
<1>9. (rem = 0 => Multiple(m)) /\ Multiple(up)
  BY <1>2, <1>7, <1>8 DEF Multiple
<1> QED
  BY <1>1, <1>4, <1>5, <1>6, <1>9

\* The headers stand on multiples of ALIGN, a smallest block apart at least.
Spaced(S) ==
  /\ \A a \in S : Multiple(a)
  /\ \A a, b \in S : a < b => b - a >= MINIMUM + HEAD

LEMMA SpacedSizes ==
  ASSUME Rounding, NEW m, MemTyped(m), Layout(m), Spaced(DOMAIN m)
  PROVE  \A a \in DOMAIN m \ {Sentinel} :
           m[a].size % ALIGN = 0 /\ m[a].size >= MINIMUM
<1> SUFFICES ASSUME NEW a \in DOMAIN m \ {Sentinel}
             PROVE  m[a].size % ALIGN = 0 /\ m[a].size >= MINIMUM
  OBVIOUS
<1>1. HEAD \in Nat /\ MINIMUM \in Nat /\ Multiple(HEAD)
  BY HeapAssumption, MultipleIs DEF HeapAssumption, Rounding
<1>2. a \in Int /\ m[a].size \in Int /\ m[a].size >= 0
  BY FieldTypes, HeapAssumption DEF HeapAssumption
<1>3. /\ After(m, a) \in DOMAIN m /\ After(m, a) > a
      /\ After(m, a) = a + m[a].size + HEAD
  BY <1>1, <1>2, Neighbours, HeapAssumption DEF HeapAssumption
<1> DEFINE aft == After(m, a)
           sz == m[a].size
<1>4. aft \in Int /\ Multiple(aft) /\ Multiple(a) /\ aft - a >= MINIMUM + HEAD
  BY <1>1, <1>2, <1>3 DEF Spaced
<1> HIDE DEF aft, sz
<1>5. sz \in Int /\ aft = a + sz + HEAD
  BY <1>2, <1>3 DEF aft, sz
<1>6. Multiple(aft - a) /\ aft - a \in Int
  BY <1>2, <1>4, MultipleSum
<1>7. Multiple((aft - a) - HEAD) /\ (aft - a) - HEAD = sz
  BY <1>1, <1>2, <1>4, <1>5, <1>6, MultipleSum
<1>8. Multiple(sz) /\ sz >= MINIMUM
  BY <1>1, <1>2, <1>4, <1>5, <1>7
<1> QED
  BY <1>5, <1>8, MultipleIs DEF sz

\* The headers that init() makes.
LEMMA NewArenaSpaced ==
  ASSUME Rounding PROVE Spaced({0, Sentinel})
<1>1. HEAD \in Nat \ {0} /\ ARENA \in Nat /\ MINIMUM \in Nat /\ ALIGN \in Nat \ {0}
  BY HeapAssumption DEF HeapAssumption
<1>2. Multiple(HEAD) /\ Multiple(ARENA) /\ ARENA - 2 * HEAD >= MINIMUM
  BY <1>1, MultipleIs DEF Rounding
<1>3. Multiple(Sentinel) /\ Sentinel \in Nat /\ Sentinel >= MINIMUM + HEAD
  BY <1>1, <1>2, MultipleSum DEF Sentinel
<1>4. Multiple(0)
  <2>1. 0 = ALIGN * 0 BY <1>1
  <2> QED BY <2>1 DEF Multiple
<1> QED
  BY <1>1, <1>3, <1>4 DEF Spaced

LEMMA SpacedSubset ==
  ASSUME NEW S, NEW T, T \subseteq S, Spaced(S)
  PROVE  Spaced(T)
BY DEF Spaced

\* find() splits a block where there is room for two.
LEMMA SpacedSplit ==
  ASSUME Rounding, NEW m, MemTyped(m), Layout(m), Spaced(DOMAIN m),
         NEW block \in DOMAIN m \ {Sentinel}, NEW sz \in Nat \ {0},
         Multiple(sz), sz >= MINIMUM, m[block].size >= LIMIT(sz)
  PROVE  Spaced(DOMAIN m \cup {SplitOff(m, block, sz)})
<1> DEFINE splt == SplitOff(m, block, sz)
           aft == After(m, block)
           old == m[block].size
<1>1. HEAD \in Nat \ {0} /\ MINIMUM \in Nat \ {0} /\ Multiple(HEAD)
  BY HeapAssumption, MultipleIs DEF HeapAssumption, Rounding
<1>2. old \in Nat /\ block \in Int /\ \A a \in DOMAIN m : a \in Int
  BY FieldTypes, HeapAssumption DEF HeapAssumption
<1>3. old >= MINIMUM + HEAD + sz
  BY <1>1 DEF LIMIT, MIN
<1>4. old > sz + HEAD
  BY <1>1, <1>2, <1>3
<1>5. /\ splt + sz + HEAD = aft /\ aft \in Int /\ splt \in Int
      /\ splt = block + (old - sz - HEAD) + HEAD
  BY <1>1, <1>2, <1>4, SplitSizes, HeapAssumption DEF HeapAssumption, Addr
<1>6. aft \in DOMAIN m
  BY Neighbours
<1>7. \A a \in DOMAIN m : a <= block \/ aft <= a
  <2> SUFFICES ASSUME NEW a \in DOMAIN m, block < a PROVE aft <= a
    BY <1>2
  <2> QED BY DEF Layout, Disjoint
<1> HIDE DEF splt, aft, old
<1>8. Multiple(splt)
  <2>1. Multiple(aft)
    BY <1>6 DEF Spaced
  <2>2. Multiple(aft - sz) /\ aft - sz \in Int
    BY <1>5, <2>1, MultipleSum
  <2>3. Multiple((aft - sz) - HEAD)
    BY <1>1, <2>2, MultipleSum
  <2>4. (aft - sz) - HEAD = splt
    BY <1>1, <1>5
  <2> QED BY <2>3, <2>4
<1>9. splt - block >= MINIMUM + HEAD /\ aft - splt >= MINIMUM + HEAD
  BY <1>1, <1>2, <1>3, <1>5
<1>10. ASSUME NEW a \in DOMAIN m
       PROVE  /\ a < splt => splt - a >= MINIMUM + HEAD
              /\ splt < a => a - splt >= MINIMUM + HEAD
  BY <1>1, <1>2, <1>5, <1>7, <1>9
<1>11. \A a \in DOMAIN m \cup {splt} : Multiple(a)
  BY <1>8 DEF Spaced
<1>12. \A a, b \in DOMAIN m \cup {splt} : a < b => b - a >= MINIMUM + HEAD
  <2> SUFFICES ASSUME NEW a \in DOMAIN m \cup {splt}, NEW b \in DOMAIN m \cup {splt},
                      a < b
               PROVE  b - a >= MINIMUM + HEAD
    OBVIOUS
  <2>1. CASE a = splt /\ b = splt
    BY <1>5, <2>1
  <2>2. CASE a = splt /\ b \in DOMAIN m
    BY <1>10, <2>2
  <2>3. CASE b = splt /\ a \in DOMAIN m
    BY <1>10, <2>3
  <2>4. CASE a \in DOMAIN m /\ b \in DOMAIN m
    BY <2>4 DEF Spaced
  <2> QED BY <2>1, <2>2, <2>3, <2>4
<1>13. Spaced(DOMAIN m \cup {splt})
  BY <1>11, <1>12 DEF Spaced
<1> QED
  BY <1>13 DEF splt

\* dfree() makes no new header.
LEMMA GiveBackHeaders ==
  ASSUME NEW h, WellFormed(h),
         NEW block \in DOMAIN h.mem \ (FreeBlocks(h.mem) \cup {Sentinel})
  PROVE  DOMAIN GiveBack(h, block).mem \subseteq DOMAIN h.mem
<1> DEFINE b == MergedBlock(h, block)
           h1 == MergeBefore(h, block)
           h2 == MergeAfter(h1, b)
           e == [h2 EXCEPT !.mem = Mark(h2.mem, b, TRUE)]
<1>1. ASSUME NEW g, NEW c, NEW low, NEW high, NEW aft
      PROVE  DOMAIN TakeOver(g, c, low, high, aft).mem \subseteq DOMAIN g.mem
  BY DEF TakeOver, Detach, Absorb
<1>2. DOMAIN h1.mem \subseteq DOMAIN h.mem
  BY <1>1 DEF MergeBefore
<1>3. DOMAIN h2.mem \subseteq DOMAIN h1.mem
  <2> HIDE DEF h1, b
  <2> QED BY <1>1 DEF MergeAfter
<1>4. Merging(h1, b) /\ ~h1.mem[b].bfree
  BY MergeBeforeStep
<1>5. GiveBack(h, block) = Insert(e, b)
  BY DEF GiveBack, Merge
<1> HIDE DEF b, h1
<1>6. Merging(h2, b)
  BY <1>4, MergeAfterStep
<1> HIDE DEF h2
<1>7. HeapTyped(h2) /\ MemTyped(h2.mem)
  BY <1>6 DEF Merging, HeapTyped
<1>8. MemTyped(Mark(h2.mem, b, TRUE)) /\ DOMAIN Mark(h2.mem, b, TRUE) = DOMAIN h2.mem
  BY <1>7, MarkTyped
<1>9. DOMAIN e.mem = DOMAIN h2.mem
  BY <1>7, <1>8, WithMem
<1> HIDE DEF e
<1>10. DOMAIN Insert(e, b).mem = DOMAIN e.mem
  BY DEF Insert
<1> QED
  BY <1>2, <1>3, <1>5, <1>9, <1>10

SpacedInv == Spaced(DOMAIN mem)

LEMMA SpacedStep ==
  ASSUME SmallRequests, Rounding, IInv, SpacedInv, [Next]_vars
  PROVE  SpacedInv'
<1> SUFFICES Spaced(DOMAIN heap'.mem)
  BY DEF SpacedInv, mem
<1>0. Spaced(DOMAIN heap.mem)
  BY DEF SpacedInv, mem
<1>1. CASE Initialise
  <2>1. DOMAIN heap'.mem = {0, Sentinel}
    BY <1>1, HeapOfIInv, NewArenaHeap DEF Initialise, Mapped
  <2> QED
    BY <2>1, NewArenaSpaced
<1>2. CASE UNCHANGED heap
  BY <1>0, <1>2
<1>3. CASE FindSplit
  <2> DEFINE sz == size
  <2>1. /\ pc = "find" /\ traverse # NULL /\ heap.mem[traverse].size >= LIMIT(sz)
        /\ heap' = TakeTail(heap, traverse, sz)
    BY <1>3 DEF FindSplit, mem
  <2>2. /\ WellFormed(heap) /\ request \in Requests
        /\ traverse \in FreeBlocks(heap.mem) /\ traverse \in DOMAIN heap.mem
        /\ sz \in Nat \ {0}
    BY <2>1, FoundBlock
  <2>3. Multiple(sz) /\ sz >= MINIMUM
    BY <2>2, AdjustRounds DEF size, Rounding
  <2> HIDE DEF sz
  <2>4. MemTyped(heap.mem) /\ Layout(heap.mem) /\ traverse # Sentinel
    BY <2>2 DEF WellFormed, HeapTyped, Flags, FreeBlocks
  <2>5. DOMAIN heap'.mem = DOMAIN heap.mem \cup {SplitOff(heap.mem, traverse, sz)}
    BY <2>1, <2>2, TakeTailHeap
  <2>6. Spaced(DOMAIN heap.mem \cup {SplitOff(heap.mem, traverse, sz)})
    BY <1>0, <2>1, <2>2, <2>3, <2>4, SpacedSplit
  <2> QED
    BY <2>5, <2>6
<1>4. CASE FindWhole
  <2>1. /\ pc = "find" /\ traverse # NULL /\ heap' = TakeWhole(heap, traverse)
    BY <1>4 DEF FindWhole
  <2>2. WellFormed(heap) /\ traverse \in FreeBlocks(heap.mem)
    BY <2>1, FoundBlock
  <2>3. DOMAIN heap'.mem = DOMAIN heap.mem
    BY <2>1, <2>2, TakeWholeHeap
  <2> QED
    BY <1>0, <2>3
<1>5. ASSUME NEW memory \in DOMAIN owned, Dfree(memory) PROVE Spaced(DOMAIN heap'.mem)
  <2> DEFINE block == Magic(memory)
  <2>1. heap' = GiveBack(heap, block)
    BY <1>5 DEF Dfree
  <2>2. WellFormed(heap) /\ TypeOK /\ TakenBlocksAreOwned /\ Mapped
    BY HeapOfIInv DEF IInv
  <2>3. block \in DOMAIN heap.mem \ (FreeBlocks(heap.mem) \cup {Sentinel})
    BY <2>2, ReleaseHeld
  <2> HIDE DEF block
  <2>4. DOMAIN heap'.mem \subseteq DOMAIN heap.mem
    BY <2>1, <2>2, <2>3, GiveBackHeaders
  <2> QED
    BY <1>0, <2>4, SpacedSubset
<1> QED
  BY <1>1, <1>2, <1>3, <1>4, <1>5
     DEF Next, Find, DallocEnter, FindAdvance, FindNothing, vars

LEMMA SanityHolds == Rounding /\ IInv /\ SpacedInv => SanityQuiet
<1> SUFFICES ASSUME Rounding, IInv, SpacedInv, NEW i \in 1 .. Len(FreeList) - 1
             PROVE  SanityChecks(i)
  BY DEF SanityQuiet
<1> DEFINE F == FreeBlocks(mem)
           L == FreeList
           b == L[i]
<1>1. HeapTyped(heap) /\ DoublyLinked(heap, F) /\ MemTyped(mem) /\ NULL \notin F
  <2>1. HeapTyped(heap) /\ DoublyLinked(heap, F)
    BY HeapOfIInv DEF Linked, mem
  <2> QED
    BY <2>1, HeapAssumption DEF HeapAssumption, HeapTyped, MemTyped, Addr, FreeBlocks, mem
<1>2. PICK R \in SUBSET (F \X F) : ListOrder(heap, F, R)
  BY HeapOfIInv DEF Linked, mem
<1>3. Chain(F \cup {NULL}, heap.flist, NULL, NextOf(heap), ToNull(heap, R))
  BY <1>1, <1>2, ListIsChain DEF mem
<1>4. /\ L \in Seq(F)
      /\ \A k \in 1 .. Len(L) : k > 1 => L[k] = mem[L[k - 1]].next
  BY <1>1, <1>3, FreeListWalk
<1>5. i \in 1 .. Len(L) /\ Len(L) \in Nat /\ i \in Int
  BY <1>4
<1> HIDE DEF L
<1>6. b \in F
  BY <1>4, <1>5
<1>7. i > 1 => mem[b].prev = L[i - 1]
  <2> SUFFICES ASSUME i > 1 PROVE mem[b].prev = L[i - 1]
    OBVIOUS
  <2>1. i - 1 \in 1 .. Len(L)
    BY <1>5
  <2>2. L[i - 1] \in F /\ mem[L[i - 1]].next = b
    BY <1>4, <1>5, <2>1
  <2> QED
    BY <1>1, <1>6, <2>2 DEF DoublyLinked, mem
<1>8. Mapped /\ Layout(mem) /\ Flags(mem)
  BY <1>6, HeapOfIInv DEF WellFormed, mem
<1>9. mem[b].free /\ b \in DOMAIN mem \ {Sentinel}
  BY <1>6, <1>8 DEF FreeBlocks, Flags
<1> HIDE DEF F
<1>10. mem[b].size % ALIGN = 0 /\ mem[b].size >= MINIMUM
  BY <1>1, <1>8, <1>9, SpacedSizes DEF SpacedInv
<1>11. mem[b].size >= MIN(mem[b].size)
  <2>1. mem[b].size \in Int
    BY <1>1, <1>9, FieldTypes
  <2> QED
    BY <1>10, <2>1, HeapAssumption DEF HeapAssumption, MIN
<1> QED
  BY <1>7, <1>9, <1>10, <1>11 DEF SanityChecks, L

(***************************************************************************)
(* sanity() reports no problem, whatever calls came before: each block it  *)
(* looks at is free, a multiple of ALIGN long, no shorter than a smallest  *)
(* block, and points back at the one before it (SanityQuiet).  That needs  *)
(* the adjust() that rounds: with the other one the run MCDlmall_unaligned *)
(* finds a block that sanity() reports.                                    *)
(***************************************************************************)
THEOREM SanityFindsNothing == SmallRequests /\ Rounding => (Spec => []SanityQuiet)
<1> SUFFICES ASSUME SmallRequests, Rounding PROVE Spec => []SanityQuiet
  OBVIOUS
<1>1. Init => SpacedInv
  BY DEF Init, SpacedInv, Spaced, mem
<1>2. IInv /\ SpacedInv /\ [Next]_vars => SpacedInv'
  BY SpacedStep
<1>3. IInv /\ SpacedInv => SanityQuiet
  BY SanityHolds
<1> QED
  BY <1>1, <1>2, <1>3, Invariance, PTL DEF Spec
=============================================================================
