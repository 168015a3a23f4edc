------------------------------ MODULE TestCond ------------------------------
(***************************************************************************)
(* test-cond.c: two workers take turns on flag.  The one whose turn it is  *)
(* not spins: its call of green_cond_wait() is commented out.              *)
(***************************************************************************)
EXTENDS GreenDriver, Integers

CONSTANTS
  cond,
  Loop     \* the initial value of loop: 4

VARIABLES
  flag,   \* global
  loop    \* the local variable of each worker

vars == <<driverVars, flag, loop>>
data == <<flag, loop>>

Init ==
  /\ DriverInit("while")
  /\ flag = 0
  /\ loop = [t \in Workers |-> Loop]

\* while (loop > 0)
While(t) ==
  /\ Computes(t)
  /\ \/ loop[t] > 0 /\ Goes(t, "while", "if")
     \/ loop[t] <= 0 /\ Goes(t, "while", "end")
  /\ UNCHANGED data

\* Not this worker's turn: round the loop.
Spins(t) ==
  /\ Computes(t)
  /\ flag # Id(t)
  /\ Goes(t, "if", "while")
  /\ UNCHANGED data

Turn(t) ==
  /\ Computes(t)
  /\ flag = Id(t)
  /\ Goes(t, "if", "set")
  /\ loop' = [loop EXCEPT ![t] = @ - 1]
  /\ UNCHANGED flag

Sets(t) ==
  /\ Computes(t)
  /\ Goes(t, "set", "signal")
  /\ flag' = (Id(t) + 1) % 2
  /\ UNCHANGED loop

Signals(t) ==
  /\ SignalNobody(t, cond) \/ Signal(t, cond)
  /\ Goes(t, "signal", "while")
  /\ UNCHANGED data

Ends(t) ==
  /\ Exit(t)
  /\ Goes(t, "end", "ended")
  /\ UNCHANGED data

Work(t) ==
  While(t) \/ Spins(t) \/ Turn(t) \/ Sets(t) \/ Signals(t) \/ Ends(t)

Next ==
  \/ MainSteps /\ UNCHANGED data
  \/ \E t \in Workers : Work(t)
  \/ Schedules /\ UNCHANGED data

\* The processor does not stop, the timer keeps firing and interrupts code
\* that does not block it, and a thread that runs again and again moves on.
Spec ==
  /\ Init /\ [][Next]_vars
  /\ WF_vars(Next)
  /\ SF_vars(MainSteps /\ UNCHANGED data)
  /\ \A t \in Workers : SF_vars(Work(t))
  /\ \A t \in Threads : WF_vars(Tick(t) /\ UNCHANGED <<done, pc, data>>)
=============================================================================
