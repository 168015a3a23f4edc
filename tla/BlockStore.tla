----------------------------- MODULE BlockStore -----------------------------
(***************************************************************************)
(* What dalloc() and dfree() promise their caller, whatever the allocator  *)
(* does inside: the regions the caller holds lie in the arena, never       *)
(* overlap, are as large as was asked for, and stay where they are until   *)
(* the caller frees them.                                                  *)
(***************************************************************************)
EXTENDS Integers

CONSTANTS
  Bytes,     \* the number of bytes of the arena
  Requests   \* the sizes the caller asks for

VARIABLES
  held,      \* first byte of a region the caller holds -> its length
  wanted     \* the size asked for by the call in progress, 0 when none

store == <<held, wanted>>

\* The n bytes from p on are outside every region held.
Vacant(p, n) ==
  \A q \in DOMAIN held : p + n <= q \/ q + held[q] <= p

StoreInit == held = [p \in {} |-> 0] /\ wanted = 0

Call(n) ==
  /\ wanted = 0
  /\ wanted' = n
  /\ UNCHANGED held

Grant(p, n) ==
  /\ wanted > 0
  /\ p >= 0 /\ n >= wanted /\ p + n <= Bytes
  /\ Vacant(p, n)
  /\ held' = [q \in DOMAIN held \cup {p} |-> IF q = p THEN n ELSE held[q]]
  /\ wanted' = 0

Refuse ==
  /\ wanted > 0
  /\ wanted' = 0
  /\ UNCHANGED held

Release(p) ==
  /\ wanted = 0
  /\ held' = [q \in DOMAIN held \ {p} |-> held[q]]
  /\ UNCHANGED wanted

StoreNext ==
  \/ \E n \in Requests : Call(n)
  \/ \E p \in DOMAIN held' : Grant(p, held'[p])
  \/ Refuse
  \/ \E p \in DOMAIN held : Release(p)

StoreSpec == StoreInit /\ [][StoreNext]_store
=============================================================================
