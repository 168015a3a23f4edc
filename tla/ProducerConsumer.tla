-------------------------- MODULE ProducerConsumer --------------------------
(***************************************************************************)
(* One run of benchmark.c: a producer and a consumer share a buffer of one *)
(* item, under a mutex, with one condition for each side to wait on; first *)
(* as green threads (testGreen), then as POSIX threads (testPthread), with *)
(* the buffer as the first half has left it.                               *)
(*                                                                         *)
(* The POSIX threads run at the same time, and their mutex and conditions  *)
(* do what the standard allows: pthread_cond_wait() may also return when   *)
(* nobody has signalled, and the mutex is free for whoever asks next.      *)
(***************************************************************************)
EXTENDS GreenDriver

CONSTANTS
  mutex, full, empty,
  Productions   \* how much each thread produces or consumes

ASSUME BufferAssumption ==
  /\ mutex \in Mutexes /\ {full, empty} \subseteq Conds /\ full # empty
  /\ Productions \in Nat

VARIABLES
  buffer,
  i,         \* the loop counter of each thread
  posix,     \* where each POSIX thread is: "none" before pthread_create()
  mutexP     \* the POSIX thread that has mutexP, or NULL

vars == <<driverVars, buffer, i, posix, mutexP>>
posixVars == <<posix, mutexP>>
data == <<buffer, i, posixVars>>

\* Threads with an even number produce, the others consume.
Produces(t) == Id(t) % 2 = 0

\* The value of buffer that makes a thread wait, the condition it waits on,
\* and the one it signals.
Unfit(t)   == IF Produces(t) THEN 1 ELSE 0
Awaited(t) == IF Produces(t) THEN empty ELSE full
Told(t)    == IF Produces(t) THEN full ELSE empty

\* green_cond_init() and green_mutex_init() leave the state GreenInit has.
Init ==
  /\ DriverInit("for")
  /\ buffer = 0
  /\ i = [t \in Workers |-> 0]
  /\ posix = [t \in Workers |-> "none"]
  /\ mutexP = NULL

-----------------------------------------------------------------------------
(* testGreen() and its threads.                                            *)

For(t) ==
  /\ Computes(t)
  /\ \/ i[t] < Productions /\ Goes(t, "for", "lock")
     \/ i[t] >= Productions /\ Goes(t, "for", "end")
  /\ UNCHANGED data

Locks(t) ==
  /\ LockFree(t, mutex) \/ LockTaken(t, mutex)
  /\ Goes(t, "lock", "test")
  /\ UNCHANGED data

Test(t) ==
  /\ Computes(t)
  /\ \/ buffer = Unfit(t) /\ Goes(t, "test", "wait")
     \/ buffer # Unfit(t) /\ Goes(t, "test", "set")
  /\ UNCHANGED data

\* Mutant of Waits: if (buffer == ...) in place of while.
Waits_Once(t) ==
  /\ CondWait(t, Awaited(t), mutex)
  /\ Goes(t, "wait", "set")
  /\ UNCHANGED data

Waits(t) ==
  /\ CondWait(t, Awaited(t), mutex)
  /\ Goes(t, "wait", "test")
  /\ UNCHANGED data

Sets(t) ==
  /\ Computes(t)
  /\ Goes(t, "set", "signal")
  /\ buffer' = Unfit(t)
  /\ UNCHANGED <<i, posixVars>>

Signals(t) ==
  /\ SignalNobody(t, Told(t)) \/ Signal(t, Told(t))
  /\ Goes(t, "signal", "unlock")
  /\ UNCHANGED data

Unlocks(t) ==
  /\ Unlock(t, mutex)
  /\ Goes(t, "unlock", "for")
  /\ i' = [i EXCEPT ![t] = @ + 1]
  /\ UNCHANGED <<buffer, posixVars>>

Ends(t) ==
  /\ Exit(t)
  /\ Goes(t, "end", "ended")
  /\ UNCHANGED data

Work(t) ==
  \/ For(t) \/ Locks(t) \/ Test(t) \/ Waits(t)
  \/ Sets(t) \/ Signals(t) \/ Unlocks(t) \/ Ends(t)

-----------------------------------------------------------------------------
(* testPthread() and its threads.                                          *)

\* A statement of main() between the calls of the library.
MainDoes(n) ==
  /\ Runs(Main, "user")
  /\ done = n /\ done' = n + 1
  /\ UNCHANGED <<greenVars, pc>>

CreateP(n, t) ==
  /\ MainDoes(n)
  /\ posix' = [posix EXCEPT ![t] = "for"]
  /\ i' = [i EXCEPT ![t] = 0]
  /\ UNCHANGED <<buffer, mutexP>>

JoinP(n, t) == MainDoes(n) /\ posix[t] = "ended" /\ UNCHANGED data

PosixMain ==
  \/ CreateP(4, g0) \/ CreateP(5, g1)
  \/ JoinP(6, g0) \/ JoinP(7, g1)
  \/ done = 8 /\ MainReturns /\ UNCHANGED <<done, pc, data>>

\* A POSIX thread goes from one label to another.
GoesP(t, from, to) ==
  /\ process = "runs"
  /\ posix[t] = from
  /\ posix' = [posix EXCEPT ![t] = to]
  /\ UNCHANGED driverVars

ForP(t) ==
  /\ \/ i[t] < Productions /\ GoesP(t, "for", "lock")
     \/ i[t] >= Productions /\ GoesP(t, "for", "ended")
  /\ UNCHANGED <<buffer, i, mutexP>>

\* pthread_mutex_lock(), and the end of pthread_cond_wait().
LocksP(t) ==
  /\ mutexP = NULL
  /\ mutexP' = t
  /\ GoesP(t, "lock", "test")
  /\ UNCHANGED <<buffer, i>>

TestP(t) ==
  /\ \/ buffer = Unfit(t) /\ GoesP(t, "test", "wait")
     \/ buffer # Unfit(t) /\ GoesP(t, "test", "set")
  /\ UNCHANGED <<buffer, i, mutexP>>

WaitsP(t) ==
  /\ mutexP' = NULL
  /\ GoesP(t, "wait", "waiting")
  /\ UNCHANGED <<buffer, i>>

\* A wake-up that no signal has caused.
WakesP(t) == GoesP(t, "waiting", "lock") /\ UNCHANGED <<buffer, i, mutexP>>

SetsP(t) ==
  /\ GoesP(t, "set", "signal")
  /\ buffer' = Unfit(t)
  /\ UNCHANGED <<i, mutexP>>

\* Mutant of SignalsP: the signal goes to the condition of its own side.
SignalsP_Own(t) ==
  /\ process = "runs" /\ posix[t] = "signal"
  /\ posix' = [posix EXCEPT ![t] = "unlock"]
  /\ UNCHANGED <<driverVars, buffer, i, mutexP>>

\* The other thread goes on if it waits on the condition signalled.
SignalsP(t) ==
  /\ process = "runs" /\ posix[t] = "signal"
  /\ posix' = [u \in Workers |->
                 IF u = t THEN "unlock"
                 ELSE IF posix[u] = "waiting" /\ Awaited(u) = Told(t) THEN "lock"
                 ELSE posix[u]]
  /\ UNCHANGED <<driverVars, buffer, i, mutexP>>

UnlocksP(t) ==
  /\ mutexP' = NULL
  /\ GoesP(t, "unlock", "for")
  /\ i' = [i EXCEPT ![t] = @ + 1]
  /\ UNCHANGED buffer

WorkP(t) ==
  \/ ForP(t) \/ LocksP(t) \/ TestP(t) \/ WaitsP(t)
  \/ SetsP(t) \/ SignalsP(t) \/ UnlocksP(t)

-----------------------------------------------------------------------------
MainGoesOn == (MainCalls /\ UNCHANGED data) \/ PosixMain

Next ==
  \/ MainGoesOn
  \/ \E t \in Workers : Work(t) \/ WorkP(t) \/ WakesP(t)
  \/ Schedules /\ UNCHANGED data

(***************************************************************************)
(* The processor runs on, and a green thread that gets it again and again  *)
(* executes its next statement; a POSIX thread that finds mutexP free      *)
(* again and again gets it.  A wake-up without a signal may never come.    *)
(***************************************************************************)
Spec ==
  /\ Init /\ [][Next]_vars
  /\ WF_vars(\/ MainGoesOn
             \/ \E t \in Workers : Work(t)
             \/ Schedules /\ UNCHANGED data)
  /\ SF_vars(MainGoesOn)
  /\ \A t \in Workers : SF_vars(Work(t)) /\ SF_vars(WorkP(t))

-----------------------------------------------------------------------------
\* The threads between lock and unlock that do not wait.
Insiders ==
  {t \in Workers : /\ pc[t] \in {"test", "wait", "set", "signal", "unlock"}
                     /\ at[t] \notin {"lock", "wait", "wait2"}}

\* The mutex protects the buffer: one thread at a time is inside.
OneInside == \A t, u \in Insiders : t = u

\* No item is overwritten and none is consumed twice, by threads of either
\* kind, whatever the first half of the run leaves in the buffer.
NothingOverwritten ==
  [][\A t \in Workers : Sets(t) \/ SetsP(t) => buffer # Unfit(t)]_vars

\* Once the green threads are through, the POSIX threads get through as well:
\* no wake-up is lost in testPthread(), and main() ends.
PosixRunEnds == (done = 4 /\ Runs(Main, "user")) ~> (process = "exit")
=============================================================================
