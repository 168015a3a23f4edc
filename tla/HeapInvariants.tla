--------------------------- MODULE HeapInvariants ---------------------------
(***************************************************************************)
(* What a well-formed heap is, as predicates on a heap value, so that they *)
(* can be stated of the intermediate heaps inside merge() and find() too.  *)
(***************************************************************************)
EXTENDS Heap

MemTyped(mem) ==
  /\ DOMAIN mem \subseteq Addr
  /\ mem \in [DOMAIN mem -> Header]

HeapTyped(h) ==
  /\ h = [mem |-> h.mem, flist |-> h.flist]
  /\ MemTyped(h.mem)
  /\ h.flist \in Addr \cup {NULL}

(***************************************************************************)
(* The blocks tile the arena: from each block but the sentinel, after()    *)
(* leads to a block that records its size; from each block but the first,  *)
(* before() leads to the block it follows; and no header lies inside       *)
(* another block.                                                          *)
(***************************************************************************)
ForwardLinked(mem) ==
  \A a \in DOMAIN mem \ {Sentinel} :
    /\ After(mem, a) \in DOMAIN mem
    /\ mem[After(mem, a)].bsize = mem[a].size
    /\ mem[a].size > 0

BackwardLinked(mem) ==
  \A a \in DOMAIN mem \ {0} :
    /\ Before(mem, a) \in DOMAIN mem
    /\ After(mem, Before(mem, a)) = a

Disjoint(mem) ==
  \A a, b \in DOMAIN mem : a < b => After(mem, a) <= b

Layout(mem) ==
  /\ {0, Sentinel} \subseteq DOMAIN mem
  /\ mem[Sentinel].size = 0
  /\ ForwardLinked(mem)
  /\ BackwardLinked(mem)
  /\ Disjoint(mem)

(***************************************************************************)
(* The successor's copy of a block's status agrees with the block, and the *)
(* two ends of the arena can never be merged with anything outside it.     *)
(***************************************************************************)
Flags(mem) ==
  /\ \A a \in DOMAIN mem \ {Sentinel} :
       mem[After(mem, a)].bfree = mem[a].free
  /\ ~mem[0].bfree
  /\ ~mem[Sentinel].free

\* merge()'s promise: no two neighbours are both free.
Coalesced(mem) == \A a \in DOMAIN mem : ~(mem[a].free /\ mem[a].bfree)

FreeBlocks(mem) == {a \in DOMAIN mem : mem[a].free}

(***************************************************************************)
(* The blocks of L are doubly linked, next and prev inverse to each other, *)
(* with flist the one that has no predecessor.                             *)
(***************************************************************************)
DoublyLinked(h, L) ==
  /\ L \subseteq DOMAIN h.mem
  /\ h.flist # NULL => h.flist \in L
  /\ \A a \in L : h.mem[a].prev = NULL <=> a = h.flist
  /\ \A a \in L : h.mem[a].next # NULL =>
       h.mem[a].next \in L /\ h.mem[h.mem[a].next].prev = a
  /\ \A a \in L : h.mem[a].prev # NULL =>
       h.mem[a].prev \in L /\ h.mem[h.mem[a].prev].next = a

(***************************************************************************)
(* R is the order of the list: flist comes first, and next leads from each *)
(* block to the one right after it.  That there is such an order says that *)
(* the list is not cyclic and that it leads from flist to all of L.        *)
(***************************************************************************)
ListOrder(h, L, R) ==
  /\ \A a \in L : <<a, a>> \notin R
  /\ \A a, b, c \in L : <<a, b>> \in R /\ <<b, c>> \in R => <<a, c>> \in R
  /\ \A a \in L : h.flist # NULL /\ (a # h.flist => <<h.flist, a>> \in R)
  /\ \A a \in L : h.mem[a].next # NULL => <<a, h.mem[a].next>> \in R
  /\ \A a, b \in L : <<a, b>> \in R =>
       /\ h.mem[a].next # NULL
       /\ b # h.mem[a].next => <<h.mem[a].next, b>> \in R

Linked(h, L) ==
  DoublyLinked(h, L) /\ \E R \in SUBSET (L \X L) : ListOrder(h, L, R)

\* All of it: what holds between two operations on the heap.
WellFormed(h) ==
  /\ HeapTyped(h)
  /\ Layout(h.mem)
  /\ Flags(h.mem)
  /\ Coalesced(h.mem)
  /\ Linked(h, FreeBlocks(h.mem))
=============================================================================
