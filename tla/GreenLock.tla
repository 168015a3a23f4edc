----------------------------- MODULE GreenLock -----------------------------
(***************************************************************************)
(* What green mutexes promise, whatever the scheduler does: one owner at a *)
(* time, and the threads that find the mutex taken get it in the order in  *)
(* which they asked.                                                       *)
(***************************************************************************)
EXTENDS Sequences

CONSTANTS Threads, Mutexes

VARIABLES
  owners,   \* mutex -> the threads that may be inside: at most one
  waiting   \* mutex -> the threads that have asked and not been let in

locks == <<owners, waiting>>

LockInit ==
  /\ owners = [m \in Mutexes |-> {}]
  /\ waiting = [m \in Mutexes |-> <<>>]

Enter(t, m) ==
  /\ owners[m] = {}
  /\ owners' = [owners EXCEPT ![m] = {t}]
  /\ UNCHANGED waiting

Wait(t, m) ==
  /\ owners[m] # {}
  /\ waiting' = [waiting EXCEPT ![m] = Append(@, t)]
  /\ UNCHANGED owners

Leave(m) ==
  /\ owners[m] # {} /\ waiting[m] = <<>>
  /\ owners' = [owners EXCEPT ![m] = {}]
  /\ UNCHANGED waiting

HandOver(m) ==
  /\ owners[m] # {} /\ waiting[m] # <<>>
  /\ owners' = [owners EXCEPT ![m] = {Head(waiting[m])}]
  /\ waiting' = [waiting EXCEPT ![m] = Tail(@)]

LockNext ==
  \E m \in Mutexes :
    \/ \E t \in Threads : Enter(t, m) \/ Wait(t, m)
    \/ Leave(m)
    \/ HandOver(m)

LockSpec == LockInit /\ [][LockNext]_locks
=============================================================================
