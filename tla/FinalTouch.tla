----------------------------- MODULE FinalTouch -----------------------------
(***************************************************************************)
(* test-final-touch.c: two workers take turns, told apart by flag; each    *)
(* waits for its turn on a condition variable, with the mutex.             *)
(***************************************************************************)
EXTENDS GreenDriver, Integers

CONSTANTS
  mutex, cond,
  Loop     \* the initial value of loop: 14

VARIABLES
  flag, loop,   \* globals
  read          \* what a worker has read of loop in loop--

vars == <<driverVars, flag, loop, read>>
globals == <<flag, loop, read>>

Init ==
  /\ DriverInit("while")
  /\ flag = 0
  /\ loop = Loop
  /\ read = [t \in Workers |-> 0]

\* while (loop > 0)
While(t) ==
  /\ Computes(t)
  /\ \/ loop > 0 /\ Goes(t, "while", "lock")
     \/ loop <= 0 /\ Goes(t, "while", "end")
  /\ UNCHANGED globals

Locks(t) ==
  /\ LockFree(t, mutex) \/ LockTaken(t, mutex)
  /\ Goes(t, "lock", "turn")
  /\ UNCHANGED globals

\* while (flag != id)
Turn(t) ==
  /\ Computes(t)
  /\ \/ flag # Id(t) /\ Goes(t, "turn", "wait")
     \/ flag = Id(t) /\ Goes(t, "turn", "set")
  /\ UNCHANGED globals

Waits(t) ==
  /\ CondWait(t, cond, mutex)
  /\ Goes(t, "wait", "turn")
  /\ UNCHANGED globals

Sets(t) ==
  /\ Computes(t)
  /\ Goes(t, "set", "signal")
  /\ flag' = (Id(t) + 1) % 2
  /\ UNCHANGED <<loop, read>>

Signals(t) ==
  /\ SignalNobody(t, cond) \/ Signal(t, cond)
  /\ Goes(t, "signal", "unlock")
  /\ UNCHANGED globals

Unlocks(t) ==
  /\ Unlock(t, mutex)
  /\ Goes(t, "unlock", "read")
  /\ UNCHANGED globals

\* loop--, outside the mutex: a load and a store.
Reads(t) ==
  /\ Computes(t)
  /\ Goes(t, "read", "write")
  /\ read' = [read EXCEPT ![t] = loop]
  /\ UNCHANGED <<flag, loop>>

Writes(t) ==
  /\ Computes(t)
  /\ Goes(t, "write", "while")
  /\ loop' = read[t] - 1
  /\ UNCHANGED <<flag, read>>

Ends(t) ==
  /\ Exit(t)
  /\ Goes(t, "end", "ended")
  /\ UNCHANGED globals

Work(t) ==
  \/ While(t) \/ Locks(t) \/ Turn(t) \/ Waits(t) \/ Sets(t)
  \/ Signals(t) \/ Unlocks(t) \/ Reads(t) \/ Writes(t) \/ Ends(t)

Next ==
  \/ MainSteps /\ UNCHANGED globals
  \/ \E t \in Workers : Work(t)
  \/ Schedules /\ UNCHANGED globals

\* The processor does not stop, and a thread that runs again and again makes
\* its next step.
Spec ==
  /\ Init /\ [][Next]_vars
  /\ WF_vars(Next)
  /\ SF_vars(MainSteps /\ UNCHANGED globals)
  /\ \A t \in Workers : SF_vars(Work(t))

-----------------------------------------------------------------------------
\* The workers that have come back from green_mutex_lock() or
\* green_cond_wait() and have neither waited nor unlocked since.
Insiders ==
  {t \in Workers : /\ pc[t] \in {"turn", "wait", "set", "signal", "unlock"}
                     /\ at[t] \notin {"lock", "wait", "wait2"}}

\* The mutex protects flag: one worker at a time is inside.
OneInside == \A t, u \in Insiders : t = u
=============================================================================
