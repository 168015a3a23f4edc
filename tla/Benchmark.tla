----------------------------- MODULE Benchmark -----------------------------
(***************************************************************************)
(* benchmark() of seminarium2/final/benchmark.c, and of the copy inside    *)
(* the "merge" dlmall.c: rounds that free the block in a random slot of an *)
(* array, or allocate one for it, and then ask the allocator what its free *)
(* list holds.                                                             *)
(*                                                                         *)
(* The slots are drawn at random, so they are interchangeable: owned (of   *)
(* Dlmall) holds the pointers that are in the array, and a slot is empty   *)
(* when there are fewer of them than slots.  The number of rounds is left  *)
(* open.                                                                   *)
(***************************************************************************)
EXTENDS MCDlmall

CONSTANT requested   \* the slots in use: 5000 in final, 1 in the merge copy

VARIABLES
  j,      \* how many blocks benchmark() believes it has
  stage,  \* "init", then "round", "call" and "report" in turn
  read    \* the addresses of the headers that block_sizes() last read

benchVars == <<vars, j, stage, read>>

BenchInit ==
  /\ Init
  /\ j = 0
  /\ stage = "init"
  /\ read = {}

Goes(from, to) == stage = from /\ stage' = to

Begins == Initialise /\ Goes("init", "round") /\ UNCHANGED <<j, read>>

EmptySlot == Cardinality(DOMAIN owned) < requested

FreesOne ==
  /\ Goes("round", "report")
  /\ \E memory \in DOMAIN owned : Dfree(memory)
  /\ j' = j - 1
  /\ UNCHANGED read

\* The slot is empty, but j says that there are blocks enough: dfree(NULL).
FreesNothing ==
  /\ Goes("round", "report")
  /\ EmptySlot /\ j >= requested
  /\ j' = j - 1
  /\ UNCHANGED <<vars, read>>

Asks ==
  /\ Goes("round", "call")
  /\ EmptySlot /\ j < requested
  /\ \E r \in Requests : DallocEnter(r)
  /\ UNCHANGED <<j, read>>

Searches == stage = "call" /\ FindAdvance /\ UNCHANGED <<j, stage, read>>

\* The block counts whether dalloc() has found one or not.
Answers ==
  /\ Goes("call", "report")
  /\ FindSplit \/ FindWhole \/ FindNothing
  /\ j' = j + 1
  /\ UNCHANGED read

(***************************************************************************)
(* block_sizes(): for n blocks, starting at block, read a size and go on   *)
(* to after().  What follows the arena is not modelled, so the walk ends   *)
(* at the first address where there is no header.                          *)
(***************************************************************************)
RECURSIVE SizesRead(_, _)
SizesRead(n, block) ==
  IF n = 0 \/ block = NULL THEN {}
  ELSE {block} \cup (IF block \in DOMAIN mem
                     THEN SizesRead(n - 1, After(mem, block)) ELSE {})

\* The end of a round: flist_size() counts the free list, and block_sizes()
\* is asked for as many sizes.
Reports ==
  /\ Goes("report", "round")
  /\ read' = SizesRead(Len(FreeList), heap.flist)
  /\ UNCHANGED <<vars, j>>

BenchNext ==
  \/ Begins \/ FreesOne \/ FreesNothing \/ Asks \/ Searches \/ Answers \/ Reports

BenchSpec == BenchInit /\ [][BenchNext]_benchVars

-----------------------------------------------------------------------------
\* The sizes that benchmark() asks block_sizes() for are sizes of blocks: what
\* it reads lies in the arena.
SizesInArena == read \subseteq Addr
=============================================================================
