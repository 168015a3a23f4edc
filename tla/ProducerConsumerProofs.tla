----------------------- MODULE ProducerConsumerProofs -----------------------
(***************************************************************************)
(* Two properties of the producer-consumer benchmark, for any number of    *)
(* productions: its calls keep the queues of the library sound, although   *)
(* it passes a mutex to green_cond_wait(), and no item is lost.            *)
(***************************************************************************)
EXTENDS ProducerConsumer, GreenQueues

-----------------------------------------------------------------------------
(* The invariant.                                                          *)

Labels == {"none", "for", "lock", "test", "wait", "waiting", "set", "signal", "unlock",
           "end", "ended"}

DataTyped ==
  /\ done \in Nat
  /\ pc \in [Workers -> Labels]
  /\ posix \in [Workers -> Labels]

\* How far main() has got, and what that says of the threads it has made.
MainInv ==
  /\ at[Main] \notin {"none", "done"}
  /\ done = 0 => at[g0] = "none"
  /\ done < 2 => at[g1] = "none"
  /\ done >= 1 => at[g0] # "none"
  /\ done >= 2 => at[g1] # "none"
  /\ \A t \in Threads : at[t] = "join" => t = Main

\* Main has joined worker t, or is at it.
JoinedOrAtIt(t) ==
  zombie[t] \/ (at[Main] = "join" /\ arg[Main].thread = t /\ join[t] = Main)

JoinedInv ==
  /\ done >= 3 => JoinedOrAtIt(g0)
  /\ done >= 4 => JoinedOrAtIt(g1)
  /\ done >= 5 => zombie[g0] /\ zombie[g1]

\* The POSIX threads start when the green ones have ended.
InTurn ==
  \A t \in Workers : /\ zombie[t] => pc[t] = "ended"
                     /\ posix[t] # "none" => done >= 5

\* A thread that is about to set the buffer finds it as it has tested it.
Ready ==
  \A t \in Workers : pc[t] = "set" \/ posix[t] = "set" => buffer # Unfit(t)

BufferInv == DataTyped /\ MainInv /\ JoinedInv /\ InTurn /\ Ready

LEMMA WorkerFacts ==
  /\ Main \in Threads /\ Workers \subseteq Threads /\ Main \notin Workers
  /\ g0 \in Workers /\ g1 \in Workers /\ g0 # g1
  /\ \A t \in Workers : t = g0 \/ t = g1
  /\ \A t, u \in Workers : t # u => Unfit(t) # Unfit(u)
  /\ mutex \in Mutexes /\ \A t \in Workers : Awaited(t) \in Conds /\ Told(t) \in Conds
<1>1. Produces(g0) /\ ~Produces(g1)
  BY DriverAssumption DEF DriverAssumption, Produces, Id
<1> QED
  BY <1>1, GreenAssumption, DriverAssumption, BufferAssumption
     DEF GreenAssumption, DriverAssumption, BufferAssumption, Workers, Unfit, Awaited, Told

LEMMA BufferInit == Init => QueueInv /\ BufferInv
<1> SUFFICES ASSUME Init PROVE QueueInv /\ BufferInv
  OBVIOUS
<1>1. QueueInv
  BY QueueInit DEF Init, DriverInit
<1>2. DataTyped
  BY DEF Init, DriverInit, DataTyped, Labels
<1>3. MainInv /\ JoinedInv
  BY WorkerFacts DEF Init, DriverInit, GreenInit, MainInv, JoinedInv
<1>4. InTurn /\ Ready
  BY WorkerFacts DEF Init, DriverInit, GreenInit, InTurn, Ready
<1> QED
  BY <1>1, <1>2, <1>3, <1>4 DEF BufferInv

-----------------------------------------------------------------------------
(* The calls are calls of the library.                                     *)

LEMMA DriverCalls ==
  ASSUME BufferInv, Next PROVE LibraryStep \/ UNCHANGED greenVars
<1>1. CASE MainCalls
  <2>1. \/ at[g0] = "none" /\ Create(Main, g0)
        \/ at[g1] = "none" /\ Create(Main, g1)
        \/ MainJoins(g0) \/ MainJoins(g1)
    BY <1>1 DEF MainCalls, BufferInv, MainInv
  <2> QED
    BY <2>1, WorkerFacts DEF LibraryStep, MainJoins
<1>2. CASE PosixMain
  BY <1>2 DEF PosixMain, CreateP, JoinP, MainDoes, LibraryStep
<1>3. ASSUME NEW t \in Workers, Work(t) PROVE LibraryStep \/ UNCHANGED greenVars
  BY <1>3, WorkerFacts
     DEF Work, For, Locks, Test, Waits, Sets, Signals, Unlocks, Ends, Computes, LibraryStep
<1>4. ASSUME NEW t \in Workers, WorkP(t) \/ WakesP(t) PROVE UNCHANGED greenVars
  BY <1>4 DEF WorkP, WakesP, ForP, LocksP, TestP, WaitsP, SetsP, SignalsP, UnlocksP,
              GoesP, driverVars
<1>5. CASE Schedules
  BY <1>5 DEF Schedules, LibraryStep
<1> QED
  BY <1>1, <1>2, <1>3, <1>4, <1>5 DEF Next, MainGoesOn

-----------------------------------------------------------------------------
(* What each step changes.                                                 *)

\* A step of thread t that neither creates, joins nor ends a thread.
Plain(t) ==
  /\ at' = [at EXCEPT ![t] = at'[t]]
  /\ at[t] \notin {"none", "join", "done"} /\ at'[t] \notin {"none", "join", "done"}
  /\ \A u \in Threads : u # t => arg'[u] = arg[u]
  /\ UNCHANGED joinVars

LEMMA PlainCalls ==
  ASSUME GreenTyped, NEW t \in Threads,
         \/ Yield(t) \/ Tick(t) \/ WaitsAgain(t)
         \/ \E m \in Mutexes : LockFree(t, m) \/ LockTaken(t, m) \/ Unlock(t, m)
         \/ \E c \in Conds : SignalNobody(t, c) \/ Signal(t, c) \/ CondWait(t, c, mutex)
         \/ Start(t) \/ YieldReturns(t) \/ TickReturns(t) \/ LockReturns(t)
         \/ WaitReturns(t) \/ Wait2Returns(t)
  PROVE  Plain(t)
<1>1. CASE Yield(t) \/ Tick(t) \/ WaitsAgain(t)
  BY <1>1 DEF Yield, Tick, WaitsAgain, Suspend, Runs, GreenTyped, Plain
<1>2. CASE \E m \in Mutexes : LockFree(t, m) \/ Unlock(t, m)
  BY <1>2 DEF LockFree, Unlock, Runs, GreenTyped, Plain
<1>3. CASE \E m \in Mutexes : LockTaken(t, m)
  BY <1>3 DEF LockTaken, Suspend, Runs, GreenTyped, Plain
<1>4. CASE \E c \in Conds : SignalNobody(t, c) \/ Signal(t, c)
  BY <1>4 DEF SignalNobody, Signal, Runs, GreenTyped, Plain
<1>5. CASE \E c \in Conds : CondWait(t, c, mutex)
  BY <1>5 DEF CondWait, Suspend, Runs, GreenTyped, Plain
<1>6. CASE Start(t) \/ YieldReturns(t) \/ TickReturns(t)
  BY <1>6 DEF Start, YieldReturns, TickReturns, GoOn, Runs, GreenTyped, Plain
<1>7. CASE LockReturns(t) \/ WaitReturns(t) \/ Wait2Returns(t)
  BY <1>7 DEF LockReturns, WaitReturns, Wait2Returns, GoOn, Runs, GreenTyped, Plain
<1> QED
  BY <1>1, <1>2, <1>3, <1>4, <1>5, <1>6, <1>7

\* Such a step leaves what is known of main() and the green threads.
LEMMA PlainKeeps ==
  ASSUME GreenTyped, MainInv, JoinedInv, NEW t \in Threads, Plain(t), UNCHANGED done
  PROVE  MainInv' /\ JoinedInv'
<1>1. MainInv'
  BY WorkerFacts DEF GreenTyped, MainInv, Plain
<1>2. \A w \in Workers : JoinedOrAtIt(w) => JoinedOrAtIt(w)'
  BY WorkerFacts DEF GreenTyped, JoinedOrAtIt, Plain, joinVars
<1> QED
  BY <1>1, <1>2, WorkerFacts DEF JoinedInv, Plain, joinVars

\* The end of green_join(): main() has joined the worker.
LEMMA JoinReturnKeeps ==
  ASSUME QueueInv, MainInv, JoinedInv, NEW t \in Threads, JoinReturns(t), UNCHANGED done
  PROVE  MainInv' /\ JoinedInv'
<1>1. Before(t, "join") /\ GreenTyped
  BY BeforeStep DEF JoinReturns, Before
<1>2. t = Main
  BY <1>1 DEF Before, MainInv
<1>3. /\ at' = [at EXCEPT ![Main] = "user"]
      /\ UNCHANGED <<join, zombie>>
  BY <1>2 DEF JoinReturns, GoOn
<1>4. \A w \in Workers : JoinedOrAtIt(w) => zombie[w]
  BY <1>1, <1>2, WorkerFacts DEF Before, Nowhere, Joins, JoinedOrAtIt
<1>5. JoinedInv'
  BY <1>3, <1>4, WorkerFacts DEF JoinedInv, JoinedOrAtIt
<1>6. MainInv'
  BY <1>1, <1>3, WorkerFacts DEF GreenTyped, MainInv
<1> QED
  BY <1>5, <1>6

LEMMA ScheduleKeeps ==
  ASSUME QueueInv, BufferInv, Schedules, UNCHANGED data
  PROVE  BufferInv'
<1>1. PICK t \in Threads : (Resume(t) \/ Tick(t)) /\ UNCHANGED <<done, pc>>
  BY DEF Schedules
<1>2. UNCHANGED zombie
  BY <1>1 DEF Resume, Start, YieldReturns, JoinReturns, TickReturns, LockReturns,
              WaitReturns, WaitsAgain, Wait2Returns, Tick, joinVars
<1>3. MainInv' /\ JoinedInv'
  BY <1>1, PlainCalls, PlainKeeps, JoinReturnKeeps DEF Resume, QueueInv, BufferInv
<1>4. DataTyped' /\ InTurn' /\ Ready'
  BY <1>1, <1>2 DEF data, posixVars, BufferInv, DataTyped, InTurn, Ready, Unfit, Produces, Id
<1> QED
  BY <1>3, <1>4 DEF BufferInv

-----------------------------------------------------------------------------
(* main().                                                                 *)

LEMMA MainKeeps ==
  ASSUME QueueInv, BufferInv, MainCalls, UNCHANGED data
  PROVE  BufferInv'
<1>1. /\ GreenTyped /\ Zombies /\ DataTyped /\ MainInv /\ JoinedInv /\ InTurn /\ Ready
      /\ done' = done + 1 /\ pc' = pc
  BY DEF MainCalls, QueueInv, BufferInv
<1>2. done \in Nat /\ DataTyped'
  BY <1>1 DEF DataTyped, data, posixVars
<1>3. ASSUME NEW new \in Workers, at[new] = "none", Create(Main, new)
      PROVE  /\ at' = [at EXCEPT ![new] = "new"]
             /\ zombie' = zombie
  BY <1>1, <1>3, WorkerFacts DEF Create, GreenTyped, Zombies
<1>4. ASSUME NEW u \in Workers, MainJoins(u)
      PROVE  /\ at[Main] = "user" /\ \/ at' = at /\ zombie[u]
                                     \/ at' = [at EXCEPT ![Main] = "join"]
             /\ UNCHANGED zombie
             /\ JoinedOrAtIt(u)'
  <2>1. CASE JoinWaits(Main, u)
    BY <1>1, <2>1, WorkerFacts DEF JoinWaits, Suspend, Runs, GreenTyped, Arguments, JoinedOrAtIt
  <2>2. CASE JoinZombie(Main, u)
    BY <2>2 DEF JoinZombie, Runs, threadVars, JoinedOrAtIt
  <2> QED
    BY <1>4, <2>1, <2>2 DEF MainJoins
<1>6. MainInv'
  <2>1. CASE done = 0 /\ Create(Main, g0)
    BY <1>1, <1>3, <2>1, WorkerFacts DEF MainInv, GreenTyped
  <2>2. CASE done = 1 /\ Create(Main, g1)
    BY <1>1, <1>3, <2>2, WorkerFacts DEF MainInv, GreenTyped
  <2>3. ASSUME NEW u \in Workers, done >= 2, MainJoins(u) PROVE MainInv'
    <3>1. at' = at \/ at' = [at EXCEPT ![Main] = "join"]
      BY <1>4, <2>3
    <3>2. at \in [Threads -> Places] /\ done' \in Nat /\ done' >= 3
      BY <1>1, <1>2, <2>3 DEF GreenTyped
    <3>3. at'[g0] # "none" /\ at'[g1] # "none" /\ at'[Main] \notin {"none", "done"}
      BY <1>1, <1>2, <3>1, <3>2, <2>3, WorkerFacts DEF MainInv, Places
    <3>4. \A t \in Threads : at'[t] = "join" => t = Main
      BY <1>1, <3>1, <3>2, WorkerFacts DEF MainInv
    <3> QED
      BY <3>2, <3>3, <3>4 DEF MainInv
  <2> QED
    BY <2>1, <2>2, <2>3, WorkerFacts DEF MainCalls
<1>7. JoinedInv'
  <2>1. CASE done < 2
    BY <1>1, <1>2, <2>1 DEF JoinedInv
  <2>2. CASE done = 2 /\ MainJoins(g0)
    BY <1>1, <1>2, <1>4, <2>2, WorkerFacts DEF JoinedInv
  <2>3. CASE done = 3 /\ MainJoins(g1)
    <3>1. zombie[g0]
      BY <1>1, <1>4, <2>3, WorkerFacts DEF JoinedInv, JoinedOrAtIt
    <3>2. JoinedOrAtIt(g0)'
      BY <1>4, <2>3, <3>1, WorkerFacts DEF JoinedOrAtIt
    <3> QED
      BY <1>1, <1>2, <1>4, <2>3, <3>2, WorkerFacts DEF JoinedInv
  <2> QED
    BY <2>1, <2>2, <2>3 DEF MainCalls
<1>8. UNCHANGED zombie
  BY <1>1, <1>3, <1>4, WorkerFacts DEF MainCalls, MainInv
<1>9. InTurn' /\ Ready'
  BY <1>1, <1>2, <1>8 DEF data, posixVars, InTurn, Ready, Unfit, Produces, Id
<1> QED
  BY <1>2, <1>6, <1>7, <1>9 DEF BufferInv

LEMMA PosixMainKeeps ==
  ASSUME QueueInv, BufferInv, PosixMain
  PROVE  BufferInv'
<1>1. /\ DataTyped /\ MainInv /\ JoinedInv /\ InTurn /\ Ready /\ done \in Nat
  BY DEF BufferInv, DataTyped
<1>2. /\ at[Main] = "user" /\ done >= 4
      /\ UNCHANGED <<at, arg, join, zombie, pc, buffer>> /\ done' \in {done, done + 1}
  BY DEF PosixMain, CreateP, JoinP, MainDoes, MainReturns, Runs, greenVars, threadVars,
         joinVars, data
<1>3. zombie[g0] /\ zombie[g1]
  BY <1>1, <1>2 DEF JoinedInv, JoinedOrAtIt
<1>4. \/ UNCHANGED posix
      \/ /\ done' = done + 1
         /\ \E t \in Workers : posix' = [posix EXCEPT ![t] = "for"]
  BY WorkerFacts DEF PosixMain, CreateP, JoinP, MainDoes, data, posixVars
<1>5. DataTyped' /\ InTurn' /\ Ready'
  BY <1>1, <1>2, <1>4 DEF DataTyped, Labels, InTurn, Ready, Unfit, Produces, Id
<1>6. MainInv' /\ JoinedInv'
  BY <1>1, <1>2, <1>3 DEF MainInv, JoinedInv, JoinedOrAtIt
<1> QED
  BY <1>5, <1>6 DEF BufferInv

-----------------------------------------------------------------------------
(* The green threads.                                                      *)

LEMMA WorkKeeps ==
  ASSUME QueueInv, BufferInv, NEW t \in Workers, Work(t)
  PROVE  BufferInv'
<1>1. /\ GreenTyped /\ DataTyped /\ MainInv /\ JoinedInv /\ InTurn /\ Ready
      /\ UNCHANGED <<done, posix>>
  BY DEF QueueInv, BufferInv, Work, For, Locks, Test, Waits, Sets, Signals, Unlocks, Ends,
         Goes, data, posixVars
<1>2. t \in Threads /\ t # Main /\ Awaited(t) \in Conds /\ Told(t) \in Conds
      /\ mutex \in Mutexes
  BY WorkerFacts
<1>3. \E label \in Labels \ {"none"} : pc' = [pc EXCEPT ![t] = label]
  BY DEF Work, For, Locks, Test, Waits, Sets, Signals, Unlocks, Ends, Goes, Labels
<1>4. DataTyped'
  BY <1>1, <1>3 DEF DataTyped
<1>5. ASSUME For(t) \/ Test(t) \/ Sets(t) PROVE MainInv' /\ JoinedInv'
  <2>1. UNCHANGED <<at, arg, join, zombie>>
    BY <1>5 DEF For, Test, Sets, Computes, greenVars, threadVars, joinVars
  <2> QED
    BY <1>1, <2>1 DEF MainInv, JoinedInv, JoinedOrAtIt
<1>6. ASSUME Locks(t) \/ Waits(t) \/ Signals(t) \/ Unlocks(t) PROVE MainInv' /\ JoinedInv'
  <2>1. Plain(t)
    BY <1>1, <1>2, <1>6, PlainCalls DEF Locks, Waits, Signals, Unlocks
  <2> QED
    BY <1>1, <1>2, <2>1, PlainKeeps DEF Plain, joinVars
<1>7. ASSUME Ends(t) PROVE MainInv' /\ JoinedInv'
  <2>1. /\ at' = [at EXCEPT ![t] = "done"] /\ at[t] = "user"
        /\ zombie' = [zombie EXCEPT ![t] = TRUE]
        /\ UNCHANGED <<arg, join>>
        /\ pc'[t] = "ended"
    BY <1>1, <1>7 DEF Ends, Exit, Suspend, Runs, Goes, DataTyped
  <2>2. MainInv'
    BY <1>1, <1>2, <2>1, WorkerFacts DEF GreenTyped, MainInv
  <2>3. \A w \in Workers : (zombie[w] => zombie'[w]) /\ (JoinedOrAtIt(w) => JoinedOrAtIt(w)')
    BY <1>1, <1>2, <2>1, WorkerFacts DEF GreenTyped, JoinedOrAtIt
  <2>4. JoinedInv'
    BY <1>1, <2>3, WorkerFacts DEF JoinedInv
  <2> QED
    BY <2>1, <2>2, <2>4
<1>8. MainInv' /\ JoinedInv'
  BY <1>5, <1>6, <1>7 DEF Work
<1>9. InTurn'
  <2>1. ASSUME ~Ends(t) PROVE zombie' = zombie /\ pc[t] # "ended"
    <3>1. pc[t] # "ended"
      BY <2>1 DEF Work, For, Locks, Test, Waits, Sets, Signals, Unlocks, Goes
    <3>2. CASE For(t) \/ Test(t) \/ Sets(t)
      BY <3>1, <3>2 DEF For, Test, Sets, Computes, greenVars, joinVars
    <3>3. CASE Locks(t) \/ Waits(t) \/ Signals(t) \/ Unlocks(t)
      BY <1>1, <1>2, <3>1, <3>3, PlainCalls DEF Locks, Waits, Signals, Unlocks, Plain, joinVars
    <3> QED
      BY <2>1, <3>1, <3>2, <3>3 DEF Work
  <2>2. CASE Ends(t)
    BY <1>1, <1>2, <2>2, WorkerFacts
       DEF Ends, Exit, Goes, InTurn, DataTyped, GreenTyped
  <2>3. CASE ~Ends(t)
    <3>1. ~zombie[t] /\ zombie' = zombie
      BY <1>1, <2>1, <2>3 DEF InTurn
    <3>2. \A u \in Workers : u # t => pc'[u] = pc[u]
      BY <1>1, <1>3 DEF DataTyped
    <3> QED
      BY <1>1, <3>1, <3>2 DEF InTurn
  <2> QED
    BY <2>2, <2>3
<1>10. Ready'
  <2>1. posix[t] = "none"
    BY <1>1, WorkerFacts
       DEF InTurn, JoinedInv, Work, For, Locks, Test, Waits, Sets, Signals, Unlocks, Ends,
           Goes
  <2>2. \A u \in Workers : u # t => pc'[u] = pc[u]
    BY <1>1, <1>3 DEF DataTyped
  <2>3. CASE Sets(t)
    <3>1. pc'[t] = "signal" /\ buffer' = Unfit(t)
      BY <1>1, <2>3 DEF Sets, Goes, DataTyped
    <3> QED
      BY <1>1, <2>1, <2>2, <3>1, WorkerFacts DEF Ready, Unfit, Produces, Id
  <2>4. CASE Test(t)
    <3>1. buffer' = buffer /\ (pc'[t] = "set" => buffer # Unfit(t))
      BY <1>1, <2>4 DEF Test, Goes, DataTyped, data
    <3> QED
      BY <1>1, <2>1, <2>2, <3>1 DEF Ready, Unfit, Produces, Id
  <2>5. CASE For(t) \/ Locks(t) \/ Waits(t) \/ Signals(t) \/ Unlocks(t) \/ Ends(t)
    <3>1. buffer' = buffer /\ pc'[t] # "set"
      BY <1>1, <2>5
         DEF For, Locks, Waits, Signals, Unlocks, Ends, Goes, DataTyped, data
    <3> QED
      BY <1>1, <2>1, <2>2, <3>1 DEF Ready, Unfit, Produces, Id
  <2> QED
    BY <2>3, <2>4, <2>5 DEF Work
<1> QED
  BY <1>4, <1>8, <1>9, <1>10 DEF BufferInv

-----------------------------------------------------------------------------
(* The POSIX threads.                                                      *)

LEMMA PosixKeeps ==
  ASSUME QueueInv, BufferInv, NEW t \in Workers, WorkP(t) \/ WakesP(t)
  PROVE  BufferInv'
<1>1. /\ DataTyped /\ MainInv /\ JoinedInv /\ InTurn /\ Ready
      /\ UNCHANGED <<at, arg, join, zombie, done, pc>>
  BY DEF BufferInv, WorkP, WakesP, ForP, LocksP, TestP, WaitsP, SetsP, SignalsP, UnlocksP,
         GoesP, driverVars, greenVars, threadVars, joinVars
<1>2. posix[t] # "none"
  BY DEF WorkP, WakesP, ForP, LocksP, TestP, WaitsP, SetsP, SignalsP, UnlocksP, GoesP
<1>3. done >= 5 /\ \A u \in Workers : pc[u] = "ended"
  BY <1>1, <1>2, WorkerFacts DEF InTurn, JoinedInv
<1>4. /\ posix' \in [Workers -> Labels]
      /\ \A u \in Workers : posix'[u] = "set" => posix[u] = "set" \/ u = t
  BY <1>1 DEF DataTyped, Labels, WorkP, WakesP, ForP, LocksP, TestP, WaitsP, SetsP, SignalsP,
              UnlocksP, GoesP
<1>5. MainInv' /\ JoinedInv' /\ DataTyped' /\ InTurn'
  BY <1>1, <1>3, <1>4 DEF MainInv, JoinedInv, JoinedOrAtIt, DataTyped, InTurn
<1>6. Ready'
  <2>1. CASE SetsP(t)
    <3>1. posix'[t] = "signal" /\ buffer' = Unfit(t)
      BY <1>1, <2>1 DEF SetsP, GoesP, DataTyped
    <3> QED
      BY <1>1, <1>3, <1>4, <3>1, WorkerFacts DEF Ready, Unfit, Produces, Id
  <2>2. CASE ~SetsP(t)
    <3>1. buffer' = buffer /\ (posix'[t] = "set" => buffer # Unfit(t))
      BY <1>1, <2>2
         DEF WorkP, WakesP, ForP, LocksP, TestP, WaitsP, SignalsP, UnlocksP, GoesP, DataTyped
    <3> QED
      BY <1>1, <1>3, <1>4, <3>1 DEF Ready, Unfit, Produces, Id
  <2> QED
    BY <2>1, <2>2
<1> QED
  BY <1>5, <1>6 DEF BufferInv

-----------------------------------------------------------------------------
(* The theorems.                                                           *)

LEMMA InvariantStep == QueueInv /\ BufferInv /\ [Next]_vars => QueueInv' /\ BufferInv'
<1> SUFFICES ASSUME QueueInv, BufferInv, [Next]_vars PROVE QueueInv' /\ BufferInv'
  OBVIOUS
<1>1. CASE Next
  <2>1. QueueInv'
    BY <1>1, DriverCalls, QueuesKept, QueueUnchanged
  <2>2. BufferInv'
    BY <1>1, MainKeeps, PosixMainKeeps, WorkKeeps, PosixKeeps, ScheduleKeeps
       DEF Next, MainGoesOn
  <2> QED
    BY <2>1, <2>2
<1>2. CASE UNCHANGED vars
  <2>1. UNCHANGED greenVars /\ UNCHANGED <<done, pc, buffer, posix>>
    BY <1>2 DEF vars, driverVars, posixVars
  <2>2. BufferInv'
    BY <2>1 DEF BufferInv, DataTyped, MainInv, JoinedInv, JoinedOrAtIt, InTurn, Ready, Unfit,
                Produces, Id, greenVars, threadVars, joinVars
  <2> QED
    BY <2>1, <2>2, QueueUnchanged
<1> QED
  BY <1>1, <1>2

\* The queues of the library stay sound and the buffer is as the threads have
\* tested it, however often main(), the workers and the timer take turns.
THEOREM BufferHolds == Spec => [](QueueInv /\ BufferInv)
<1> QED
  BY BufferInit, InvariantStep, PTL DEF Spec

\* No thread is in two queues: green_cond_wait() with a mutex, as benchmark.c
\* calls it, forgets no lock that would put one there.
THEOREM QueuedOnceHere == Spec => []QueuedOnce
<1> QED
  BY BufferHolds, QueuedOnceFollows, PTL

\* No item is overwritten and none is consumed twice: produce() and consume()
\* set the buffer only when the other has, in both halves of the benchmark.
THEOREM NoItemLost == Spec => NothingOverwritten
<1>1. BufferInv /\ [Next]_vars
        => [\A t \in Workers : Sets(t) \/ SetsP(t) => buffer # Unfit(t)]_vars
  BY DEF BufferInv, Ready, Sets, SetsP, Goes, GoesP
<1> QED
  BY <1>1, BufferHolds, PTL DEF Spec, NothingOverwritten
=============================================================================
