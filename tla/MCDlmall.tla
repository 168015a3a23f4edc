------------------------------ MODULE MCDlmall ------------------------------
(***************************************************************************)
(* Dlmall on a small arena, with the two checkers of dlmall.c, sanity()    *)
(* and traverse(), run as properties of every state between two calls.     *)
(***************************************************************************)
EXTENDS Dlmall, SequencesExt, FiniteSets

\* The first blocks that a walk meets, from start on: the walk knows them as a
\* sequence and goes on, at most as often as there are headers, while the last
\* is no end.
NextWalk[n \in Nat] ==
  IF n = 0 THEN <<heap.flist>>
  ELSE LET seen == NextWalk[n - 1]
       IN IF Last(seen) = NULL THEN seen ELSE Append(seen, mem[Last(seen)].next)

AfterWalk[n \in Nat] ==
  IF n = 0 THEN <<arena>>
  ELSE LET seen == AfterWalk[n - 1]
       IN IF mem[Last(seen)].size = 0 THEN seen ELSE Append(seen, After(mem, Last(seen)))

\* The listed blocks; the address after the last one is null.
FreeList == Front(NextWalk[Cardinality(DOMAIN mem)])

\* find() is first fit: the blocks before its cursor are all too small.
FirstFit ==
  pc = "find" =>
    \A i \in 1 .. Len(FreeList) :
      (\A j \in 1 .. i : FreeList[j] # traverse) => ~BigEnough(FreeList[i])

(***************************************************************************)
(* sanity(): look at each listed block but the last.                       *)
(***************************************************************************)
SanityChecks(i) ==
  LET b == FreeList[i]
  IN /\ mem[b].free
     /\ mem[b].size % ALIGN = 0
     /\ mem[b].size >= MIN(mem[b].size)
     /\ i > 1 => mem[b].prev = FreeList[i - 1]

\* sanity() reports no problem on a list that is not empty.
SanityQuiet == \A i \in 1 .. Len(FreeList) - 1 : SanityChecks(i)

(***************************************************************************)
(* traverse(): walk the arena by after() up to the first block of size 0,  *)
(* comparing each block's copy of its predecessor's size and status.       *)
(***************************************************************************)
TraverseChecks(a) ==
  LET aft == After(mem, a)
  IN mem[aft].size # 0 =>
       mem[aft].bsize = mem[a].size /\ mem[aft].bfree = mem[a].free

\* traverse() reports no problem, and it sees every block.
TraverseQuiet ==
  Mapped =>
    LET walk == Front(AfterWalk[Cardinality(DOMAIN mem)])
    IN /\ \A i \in 1 .. Len(walk) : TraverseChecks(walk[i])
       /\ {walk[i] : i \in 1 .. Len(walk)} = DOMAIN mem \ {Sentinel}
=============================================================================
