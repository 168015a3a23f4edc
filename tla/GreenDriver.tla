---------------------------- MODULE GreenDriver ----------------------------
(***************************************************************************)
(* What the test programs of "seminarium 3" have in common: main() creates *)
(* two workers, joins them in the same order and returns, and each worker  *)
(* runs a function of its own, given by the modules that extend this one   *)
(* as steps on pc.                                                         *)
(*                                                                         *)
(* The mutexes and conditions are static or initialised at the top of      *)
(* main(), so GreenInit is their state when main() creates its threads.    *)
(***************************************************************************)
EXTENDS Green

CONSTANTS g0, g1   \* the green_t variables of main()

ASSUME DriverAssumption == {g0, g1} \subseteq Threads \ {Main} /\ g0 # g1

VARIABLES
  done,   \* the number of calls main() has made
  pc      \* where each worker is in its function

driverVars == <<greenVars, done, pc>>

Workers == {g0, g1}

\* The number a worker is passed as its argument.
Id(t) == IF t = g0 THEN 0 ELSE 1

DriverInit(start) ==
  /\ GreenInit
  /\ done = 0
  /\ pc = [t \in Workers |-> start]

\* A worker goes from one label to another.
Goes(t, from, to) ==
  /\ pc[t] = from
  /\ pc' = [pc EXCEPT ![t] = to]
  /\ UNCHANGED done

\* A step of the worker's own code, without a call.
Computes(t) == Runs(t, "user") /\ UNCHANGED greenVars

MainJoins(u) == JoinWaits(Main, u) \/ JoinZombie(Main, u)

MainCalls ==
  /\ \/ done = 0 /\ Create(Main, g0)
     \/ done = 1 /\ Create(Main, g1)
     \/ done = 2 /\ MainJoins(g0)
     \/ done = 3 /\ MainJoins(g1)
  /\ done' = done + 1
  /\ UNCHANGED pc

MainEnds == done = 4 /\ MainReturns /\ UNCHANGED <<done, pc>>

MainSteps == MainCalls \/ MainEnds

\* The scheduler's steps: they are the same whatever the workers do.
Schedules == \E t \in Threads : (Resume(t) \/ Tick(t)) /\ UNCHANGED <<done, pc>>

-----------------------------------------------------------------------------
\* main() reaches its end: the program prints "done" and exits.
Finishes == <>(process = "exit")

\* No assertion fails and no null thread is run.
NeverDies == process \in {"runs", "exit"}

\* assert(next != NULL), in green_cond_wait() and green_mutex_lock(): there
\* is another thread to run.
AssertionHolds == process # "assert"
=============================================================================
