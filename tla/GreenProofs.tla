---------------------------- MODULE GreenProofs ----------------------------
(***************************************************************************)
(* What holds of the green threads and every client that keeps to the      *)
(* rules of GreenClient, whatever it passes to green_cond_wait().          *)
(***************************************************************************)
EXTENDS GreenClient, GreenQueues

-----------------------------------------------------------------------------
(* The client calls the library and nothing else.                          *)

HoldsTyped == holds \in [Threads -> SUBSET Mutexes]

LEMMA ClientCalls == HoldsTyped /\ Next => LibraryStep
<1> SUFFICES ASSUME HoldsTyped, Next PROVE LibraryStep
  OBVIOUS
<1>1. CASE JoinCall
  BY <1>1, GreenAssumption DEF GreenAssumption, JoinCall, LibraryStep
<1>2. CASE MainEnds
  BY <1>2 DEF MainEnds, LibraryStep
<1>3. ASSUME NEW t \in Threads, ThreadCall(t) PROVE LibraryStep
  BY <1>3 DEF ThreadCall, LibraryStep
<1>4. ASSUME NEW t \in Threads, LockCall(t) PROVE LibraryStep
  BY <1>4 DEF LockCall, LibraryStep
<1>5. ASSUME NEW t \in Threads, UnlockCall(t) PROVE LibraryStep
  BY <1>5 DEF HoldsTyped, UnlockCall, LibraryStep
<1>6. ASSUME NEW t \in Threads, CondWaitCall(t) PROVE LibraryStep
  BY <1>6, ClientAssumption DEF ClientAssumption, CondWaitCall, LibraryStep
<1>7. ASSUME NEW t \in Threads, Return(t) PROVE LibraryStep
  BY <1>7 DEF Return, Resume, LibraryStep
<1>8. ASSUME NEW t \in Threads, Interrupt(t) PROVE LibraryStep
  BY <1>8 DEF Interrupt, LibraryStep
<1> QED
  BY <1>1, <1>2, <1>3, <1>4, <1>5, <1>6, <1>7, <1>8 DEF Next

-----------------------------------------------------------------------------
(* The queues and the types.                                               *)

LEMMA HoldsStep ==
  ASSUME QueueInv, HoldsTyped, Next
  PROVE  HoldsTyped'
<1>1. at \in [Threads -> Places] /\ arg \in [Threads -> Arguments] /\ Errands
  BY DEF QueueInv, GreenTyped
<1>2. CASE UNCHANGED holds
  BY <1>2 DEF HoldsTyped
<1>3. ASSUME NEW t \in Threads, NEW m \in Mutexes, Takes(t, m) \/ Drops(t, m)
      PROVE  HoldsTyped'
  BY <1>3 DEF HoldsTyped, Takes, Drops
<1>4. ASSUME NEW t \in Threads, CondWaitCall(t) PROVE HoldsTyped'
  BY <1>4 DEF CondWaitCall, Drops, HoldsTyped
<1>5. ASSUME NEW t \in Threads, Return(t) PROVE HoldsTyped'
  <2>1. CASE LockReturns(t) /\ Takes(t, arg[t].mutex)
    <3>1. arg[t].mutex \in Mutexes
      BY <1>1, <2>1 DEF Errands, LockReturns, Runs
    <3> QED
      BY <1>3, <2>1, <3>1
  <2>2. CASE holds' = [holds EXCEPT ![t] = {arg[t].mutex} \ {NULL}]
    <3>1. arg[t].mutex \in Mutexes \cup {NULL}
      BY <1>1 DEF Arguments
    <3> QED
      BY <2>2, <3>1 DEF HoldsTyped
  <2> QED
    BY <1>2, <1>5, <2>1, <2>2 DEF Return
<1>6. ASSUME NEW t \in Threads, LockCall(t) PROVE HoldsTyped'
  BY <1>2, <1>3, <1>6 DEF LockCall
<1>7. ASSUME NEW t \in Threads, UnlockCall(t) PROVE HoldsTyped'
  BY <1>3, <1>7 DEF UnlockCall, HoldsTyped
<1> QED
  BY <1>2, <1>4, <1>5, <1>6, <1>7
     DEF Next, JoinCall, MainEnds, ThreadCall, Interrupt

LEMMA TypesFollow == QueueInv /\ HoldsTyped => TypeOK
BY DEF QueueInv, HoldsTyped, GreenTyped, Arguments, TypeOK

\* The queues of the library are sound in every state of every program, and
\* holds says only of mutexes that a thread has them.
THEOREM QueuesHold == Spec => [](QueueInv /\ HoldsTyped)
<1>1. Init => QueueInv /\ HoldsTyped
  BY QueueInit DEF Init, HoldsTyped
<1>2. QueueInv /\ HoldsTyped /\ [Next]_vars => (QueueInv /\ HoldsTyped)'
  <2> SUFFICES ASSUME QueueInv, HoldsTyped, [Next]_vars PROVE QueueInv' /\ HoldsTyped'
    OBVIOUS
  <2>1. CASE Next
    BY <2>1, ClientCalls, QueuesKept, HoldsStep
  <2>2. CASE UNCHANGED vars
    BY <2>2, QueueUnchanged DEF vars, HoldsTyped
  <2> QED
    BY <2>1, <2>2
<1> QED
  BY <1>1, <1>2, PTL DEF Spec

\* Every field keeps its type.
THEOREM TypeCorrect == Spec => []TypeOK
BY QueuesHold, TypesFollow, PTL

\* No thread is in two queues, twice in one, or in any while it runs: not even
\* when green_cond_wait() forgets the waiters of its mutex.
THEOREM NeverQueuedTwice == Spec => []QueuedOnce
BY QueuesHold, QueuedOnceFollows, PTL

\* Whoever is made ready by an unlock, a signal or the end of a thread was
\* waiting for just that.
THEOREM RightPlace == Spec => []WaitsWhereItShould
<1>1. QueueInv => WaitsWhereItShould
  <2> SUFFICES ASSUME QueueInv, process = "runs", NEW t \in Threads, NEW slot \in Slots(t)
               PROVE  CASE slot[1] = "ready" -> at[t] \notin {"user", "none", "done"}
                        [] slot[1] = "mutex" -> at[t] = "lock" /\ arg[t].mutex = slot[2]
                        [] slot[1] = "cond"  -> at[t] \in {"wait", "wait2"} /\ arg[t].cond = slot[2]
                        [] slot[1] = "join"  -> at[t] = "join" /\ arg[t].thread = slot[2]
    BY DEF WaitsWhereItShould
  <2>1. Placed(readyq)
    BY DEF QueueInv
  <2>2. CASE \E i \in DOMAIN readyq : readyq[i] = t /\ slot = <<"ready", NULL, i>>
    BY <2>1, <2>2 DEF Placed, ReadySound, Has
  <2>3. CASE \E m \in Mutexes : \E i \in DOMAIN mx[m].susp :
               mx[m].susp[i] = t /\ slot = <<"mutex", m, i>>
    BY <2>1, <2>3 DEF Placed, MutexesSound, Has
  <2>4. CASE \E c \in Conds : \E i \in DOMAIN cv[c] :
               cv[c][i] = t /\ slot = <<"cond", c, i>>
    BY <2>1, <2>4 DEF Placed, CondsSound, Has
  <2>5. CASE \E u \in Threads : Joins(t, u) /\ slot = <<"join", u, 0>>
    BY <2>1, <2>5 DEF Placed, JoinsSound
  <2>6. \/ \E i \in DOMAIN readyq : readyq[i] = t /\ slot = <<"ready", NULL, i>>
        \/ \E m \in Mutexes : \E i \in DOMAIN mx[m].susp :
             mx[m].susp[i] = t /\ slot = <<"mutex", m, i>>
        \/ \E c \in Conds : \E i \in DOMAIN cv[c] :
             cv[c][i] = t /\ slot = <<"cond", c, i>>
        \/ \E u \in Threads : Joins(t, u) /\ slot = <<"join", u, 0>>
    BY SlotIs
  <2> QED
    BY <2>2, <2>3, <2>4, <2>5, <2>6
<1> QED
  BY <1>1, QueuesHold, PTL

-----------------------------------------------------------------------------
(* Joining.                                                                *)

\* Only main() joins, and a thread it waits for knows it; a thread whose
\* context is gone has ended.
JoinInv ==
  /\ at[Main] \notin {"none", "done"}
  /\ \A t \in Threads :
       /\ at[t] = "none" <=> context[t] = "none"
       /\ context[t] = "freed" => at[t] = "done"
       /\ join[t] \in {NULL, Main}
       /\ at[t] = "join" =>
            /\ t = Main /\ arg[t].thread # Main
            /\ at[arg[t].thread] # "none"
            /\ zombie[arg[t].thread] \/ join[arg[t].thread] = t

LEMMA JoinInit == Init => JoinInv
BY GreenAssumption DEF GreenAssumption, Init, GreenInit, JoinInv

\* A step after which no thread has begun, ended, or begun to join.
LEMMA JoinSame ==
  ASSUME QueueInv, JoinInv, UNCHANGED joinVars,
         \A t \in Threads : (at'[t] \in {"none", "done"}) = (at[t] \in {"none", "done"}),
         \A t \in Threads : at[t] \in {"none", "done"} => at'[t] = at[t],
         \A t \in Threads : at'[t] = "join" => at[t] = "join" /\ arg'[t] = arg[t]
  PROVE  JoinInv'
BY GreenAssumption DEF GreenAssumption, QueueInv, GreenTyped, Errands, JoinInv, joinVars

LEMMA JoinStep ==
  ASSUME QueueInv, HoldsTyped, JoinInv, Next
  PROVE  JoinInv'
<1>1. GreenTyped /\ Zombies /\ Errands /\ Main \in Threads
  BY GreenAssumption DEF GreenAssumption, QueueInv
<1>2. ASSUME NEW t \in Threads, NEW new \in Threads, at[new] = "none", Create(t, new)
      PROVE  JoinInv'
  BY <1>1, <1>2 DEF Create, GreenTyped, Errands, JoinInv
<1>3. ASSUME NEW t \in Threads, Exit(t) PROVE JoinInv'
  BY <1>1, <1>3 DEF Exit, Suspend, Runs, GreenTyped, Errands, JoinInv
<1>4. ASSUME NEW u \in Threads, u # Main, context[u] = "live", JoinWaits(Main, u)
      PROVE  JoinInv'
  BY <1>1, <1>4 DEF JoinWaits, Suspend, Runs, GreenTyped, Errands, JoinInv
<1>5. ASSUME NEW u \in Threads, u # Main, context[u] = "live", JoinZombie(Main, u)
      PROVE  JoinInv'
  BY <1>1, <1>5 DEF JoinZombie, threadVars, GreenTyped, Zombies, Errands, JoinInv
<1>6. ASSUME NEW t \in Threads, JoinReturns(t) PROVE JoinInv'
  <2>1. /\ t = Main /\ arg[t].thread \in Threads /\ arg[t].thread # Main
        /\ zombie[arg[t].thread]
    BY <1>1, <1>6 DEF JoinReturns, Runs, QueueInv, RunsAlone, Nowhere, Joins, Errands, JoinInv
  <2> QED
    BY <1>1, <1>6, <2>1 DEF JoinReturns, GoOn, Runs, GreenTyped, Zombies, Errands, JoinInv
<1>7. ASSUME NEW t \in Threads,
             \/ Yield(t) \/ Tick(t) \/ Start(t) \/ YieldReturns(t) \/ TickReturns(t)
             \/ LockReturns(t) \/ WaitReturns(t) \/ WaitsAgain(t) \/ Wait2Returns(t)
             \/ \E m \in Mutexes : LockTaken(t, m)
             \/ \E c \in Conds, m \in WaitWith : CondWait(t, c, m)
      PROVE  JoinInv'
  <2>1. UNCHANGED joinVars /\ at[t] \notin {"none", "done"}
    BY <1>7 DEF Yield, Tick, Start, YieldReturns, TickReturns, LockReturns,
                WaitReturns, WaitsAgain, Wait2Returns, LockTaken, CondWait, Runs
  <2>2. at' = [at EXCEPT ![t] = at'[t]] /\ at'[t] \notin {"none", "done", "join"}
    <3>1. CASE Yield(t) \/ Tick(t) \/ WaitsAgain(t)
      BY <1>1, <3>1 DEF GreenTyped, Yield, Tick, WaitsAgain, Suspend
    <3>2. CASE \E m \in Mutexes : LockTaken(t, m)
      BY <1>1, <3>2 DEF GreenTyped, LockTaken, Suspend
    <3>3. CASE \E c \in Conds, m \in WaitWith : CondWait(t, c, m)
      BY <1>1, <3>3 DEF GreenTyped, CondWait, Suspend
    <3>4. CASE \/ Start(t) \/ YieldReturns(t) \/ TickReturns(t)
               \/ LockReturns(t) \/ WaitReturns(t) \/ Wait2Returns(t)
      BY <1>1, <3>4 DEF GreenTyped, Start, YieldReturns, TickReturns, LockReturns,
                        WaitReturns, Wait2Returns, GoOn
    <3> QED
      BY <1>7, <3>1, <3>2, <3>3, <3>4
  <2>3. \A u \in Threads : u # t => arg'[u] = arg[u]
    BY <1>1, <1>7
       DEF Yield, Tick, Start, YieldReturns, TickReturns, LockReturns, GreenTyped,
           WaitReturns, WaitsAgain, Wait2Returns, LockTaken, CondWait, GoOn
  <2> QED
    BY <1>1, <2>1, <2>2, <2>3, JoinSame DEF GreenTyped
<1>8. CASE UNCHANGED <<at, arg, joinVars>>
  BY <1>1, <1>8, JoinSame
<1>9. ASSUME NEW t \in Threads, ThreadCall(t) PROVE JoinInv'
  BY <1>2, <1>3, <1>7, <1>8, <1>9
     DEF ThreadCall, MutexInit, CondInit, SignalNobody, Signal, threadVars
<1>10. CASE JoinCall
  BY <1>4, <1>5, <1>10 DEF JoinCall
<1>11. CASE MainEnds
  BY <1>8, <1>11 DEF MainEnds, MainReturns, threadVars
<1>12. ASSUME NEW t \in Threads, LockCall(t) \/ UnlockCall(t) PROVE JoinInv'
  BY <1>7, <1>8, <1>12 DEF LockCall, UnlockCall, LockFree, Unlock
<1>13. ASSUME NEW t \in Threads, CondWaitCall(t) \/ Return(t) \/ Interrupt(t) PROVE JoinInv'
  BY <1>6, <1>7, <1>13 DEF CondWaitCall, Return, Interrupt
<1> QED
  BY <1>9, <1>10, <1>11, <1>12, <1>13 DEF Next

\* green_join() waits only for a thread that is still there, and frees a
\* context once: the bookkeeping of joins holds in every state.
THEOREM JoinsHold == Spec => [](QueueInv /\ HoldsTyped /\ JoinInv)
<1>1. QueueInv /\ HoldsTyped /\ JoinInv /\ [Next]_vars => JoinInv'
  <2> SUFFICES ASSUME QueueInv, HoldsTyped, JoinInv, [Next]_vars PROVE JoinInv'
    OBVIOUS
  <2>1. CASE UNCHANGED vars
    BY <2>1 DEF vars, greenVars, threadVars, joinVars, JoinInv
  <2> QED
    BY <2>1, JoinStep
<1> QED
  BY <1>1, JoinInit, QueuesHold, PTL DEF Spec

\* green_join() frees the context of a thread only when it has ended.
THEOREM FreedOnlyWhenEnded == Spec => []FreedHaveEnded
<1>1. QueueInv /\ JoinInv => FreedHaveEnded
  BY DEF QueueInv, Zombies, JoinInv, FreedHaveEnded
<1> QED
  BY <1>1, JoinsHold, PTL

-----------------------------------------------------------------------------
(***************************************************************************)
(* The mutexes, and the program as a whole, when no mutex is passed to     *)
(* green_cond_wait(): with one the function forgets waiters and takes a    *)
(* free mutex from the thread that has been handed it, and nothing in the  *)
(* rest of this module is true.                                            *)
(***************************************************************************)
NoMutexWaits == WaitWith \subseteq {NULL}

-----------------------------------------------------------------------------
(* The owners of a mutex.                                                  *)

\* Thread t acts as the holder of mutex m, or has been handed it.
IsOwner(t, m) ==
  \/ m \in holds[t]
  \/ at[t] = "lock" /\ arg[t].mutex = m /\ ~Has(mx[m].susp, t)

LEMMA OwnersAre ==
  ASSUME NEW m PROVE Owners(m) = {t \in Threads : IsOwner(t, m)}
BY DEF Owners, HandedTo, IsOwner, Has

\* Only a thread in its own code, or switched away from there, holds a mutex,
\* and only one.
HoldersRun ==
  \A t \in Threads :
    /\ holds[t] # {} => at[t] \in {"user", "yield", "tick"}
    /\ \A m, n \in holds[t] : m = n

\* Nobody waits for a condition and a mutex.
WaitsAlone ==
  \A t \in Threads : (at[t] = "wait" => arg[t].mutex = NULL) /\ at[t] # "wait2"

\* A mutex that is taken has one owner, and one that is not has neither an
\* owner nor a waiter.
TakenOwned ==
  \A m \in Mutexes :
    IF mx[m].taken
    THEN \E t \in Threads : \A u \in Threads : IsOwner(u, m) <=> u = t
    ELSE mx[m].susp = <<>> /\ \A u \in Threads : ~IsOwner(u, m)

MutexInv == HoldersRun /\ WaitsAlone /\ TakenOwned

ClientInv == QueueInv /\ HoldsTyped /\ JoinInv

-----------------------------------------------------------------------------
(* What a step does to the mutexes.                                        *)

Same(m) ==
  /\ mx'[m] = mx[m]
  /\ \A u \in Threads : IsOwner(u, m)' <=> IsOwner(u, m)

SameButFor(m) == \A n \in Mutexes : n # m => Same(n)

Enters(t, m) ==
  /\ ~mx[m].taken /\ mx'[m].taken /\ mx'[m].susp = mx[m].susp
  /\ \A u \in Threads : IsOwner(u, m)' <=> u = t
  /\ SameButFor(m)

Queues(t, m) ==
  /\ mx[m].taken /\ mx'[m].taken /\ mx'[m].susp = Append(mx[m].susp, t)
  /\ \A u \in Threads : IsOwner(u, m)' <=> IsOwner(u, m)
  /\ SameButFor(m)

Leaves(m) ==
  /\ mx[m].taken /\ ~mx'[m].taken
  /\ mx[m].susp = <<>> /\ mx'[m].susp = <<>>
  /\ \A u \in Threads : ~IsOwner(u, m)'
  /\ SameButFor(m)

HandsOver(m) ==
  /\ mx[m].taken /\ mx'[m].taken
  /\ mx[m].susp # <<>> /\ mx'[m].susp = Tail(mx[m].susp)
  /\ \A u \in Threads : IsOwner(u, m)' <=> u = Head(mx[m].susp)
  /\ SameButFor(m)

Settled ==
  \/ \A m \in Mutexes : Same(m)
  \/ \E m \in Mutexes : \/ \E t \in Threads : Enters(t, m) \/ Queues(t, m)
                        \/ Leaves(m) \/ HandsOver(m)

\* A step of a thread that neither waits for a mutex before nor after it.
LEMMA NoLock ==
  ASSUME UNCHANGED <<mx, holds>>,
         \A u \in Threads : \/ at'[u] = at[u] /\ arg'[u] = arg[u]
                            \/ at[u] # "lock" /\ at'[u] # "lock"
  PROVE  Settled
<1>1. \A u \in Threads, m \in Mutexes : IsOwner(u, m)' <=> IsOwner(u, m)
  BY DEF IsOwner
<1> QED
  BY <1>1 DEF Settled, Same

LEMMA LockFreeSettles ==
  ASSUME ClientInv, MutexInv, NEW t \in Threads, NEW m \in Mutexes,
         LockFree(t, m), Takes(t, m)
  PROVE  Enters(t, m)
<1>1. /\ GreenTyped /\ HoldsTyped /\ TakenOwned
      /\ mx' = [mx EXCEPT ![m].taken = TRUE]
      /\ ~mx[m].taken
      /\ UNCHANGED <<at, arg>>
      /\ holds' = [holds EXCEPT ![t] = @ \cup {m}]
  BY DEF ClientInv, QueueInv, MutexInv, LockFree, Takes
<1>2. \A n \in Mutexes : mx'[n].susp = mx[n].susp /\ (n # m => mx'[n] = mx[n])
  BY <1>1 DEF GreenTyped
<1>3. mx'[m].taken
  BY <1>1 DEF GreenTyped
<1>4. \A u \in Threads : ~IsOwner(u, m)
  BY <1>1 DEF TakenOwned
<1>5. \A u \in Threads : IsOwner(u, m)' <=> u = t
  BY <1>1, <1>2, <1>4 DEF HoldsTyped, IsOwner
<1>6. SameButFor(m)
  BY <1>1, <1>2 DEF HoldsTyped, IsOwner, SameButFor, Same
<1> QED
  BY <1>1, <1>2, <1>3, <1>5, <1>6 DEF Enters

LEMMA LockTakenSettles ==
  ASSUME ClientInv, MutexInv, NEW t \in Threads, NEW m \in Mutexes,
         LockTaken(t, m), holds[t] = {}, UNCHANGED holds
  PROVE  Queues(t, m)
<1>1. /\ GreenTyped /\ Before(t, "user")
      /\ mx' = [mx EXCEPT ![m].susp = Enq(@, t)]
      /\ mx[m].taken
      /\ at' = [at EXCEPT ![t] = "lock"]
      /\ arg' = [arg EXCEPT ![t].mutex = m]
  BY BeforeStep DEF ClientInv, QueueInv, LockTaken, Suspend
<1>2. /\ mx'[m].susp = Append(mx[m].susp, t) /\ mx'[m].taken
      /\ \A u : Has(mx'[m].susp, u) <=> Has(mx[m].susp, u) \/ u = t
  <2>1. /\ mx'[m].susp = Enq(mx[m].susp, t) /\ mx'[m].taken = mx[m].taken
        /\ mx[m].susp \in Seq(Threads)
    BY <1>1 DEF GreenTyped
  <2>2. mx'[m].taken
    BY <1>1, <2>1
  <2>3. /\ Enq(mx[m].susp, t) = Append(mx[m].susp, t)
        /\ \A u : Has(Enq(mx[m].susp, t), u) <=> Has(mx[m].susp, u) \/ u = t
    BY <2>1, EnqQueue
  <2> QED
    BY <2>1, <2>2, <2>3
<1>3. \A n \in Mutexes : n # m => mx'[n] = mx[n]
  BY <1>1 DEF GreenTyped
<1>4. \A u \in Threads, n \in Mutexes : IsOwner(u, n)' <=> IsOwner(u, n)
  BY <1>1, <1>2, <1>3 DEF GreenTyped, Arguments, Before, IsOwner
<1> QED
  BY <1>1, <1>2, <1>3, <1>4 DEF Queues, SameButFor, Same

LEMMA UnlockSettles ==
  ASSUME ClientInv, MutexInv, NEW t \in Threads, NEW m \in Mutexes, m \in holds[t],
         Unlock(t, m), Drops(t, m)
  PROVE  Leaves(m) \/ HandsOver(m)
<1>1. /\ GreenTyped /\ HoldsTyped /\ Before(t, "user")
      /\ mx' = [mx EXCEPT ![m] = [taken |-> @.taken /\ @.susp # <<>>,
                                  susp  |-> Rest(@.susp)]]
      /\ UNCHANGED <<at, arg>>
      /\ holds' = [holds EXCEPT ![t] = @ \ {m}]
  BY BeforeStep DEF ClientInv, QueueInv, Unlock, Drops
<1>2. /\ mx'[m].susp = Rest(mx[m].susp)
      /\ mx'[m].taken = (mx[m].taken /\ mx[m].susp # <<>>)
      /\ \A n \in Mutexes : n # m => mx'[n] = mx[n]
  BY <1>1 DEF GreenTyped
<1>3. IsOwner(t, m)
  BY DEF IsOwner
<1>4. mx[m].taken /\ \A u \in Threads : IsOwner(u, m) <=> u = t
  BY <1>3 DEF MutexInv, TakenOwned
<1>5. SameButFor(m)
  BY <1>1, <1>2 DEF HoldsTyped, IsOwner, SameButFor, Same
<1>6. \A u \in Threads : m \notin holds'[u]
  BY <1>1, <1>4 DEF HoldsTyped, IsOwner
<1>7. CASE mx[m].susp = <<>>
  <2>1. mx'[m].susp = <<>> /\ ~mx'[m].taken
    BY <1>2, <1>7, EmptyQueue
  <2>2. \A u \in Threads : ~IsOwner(u, m)'
    BY <1>1, <1>4, <1>6, <1>7, <2>1 DEF Before, IsOwner
  <2> QED
    BY <1>4, <1>5, <1>7, <2>1, <2>2 DEF Leaves
<1>8. CASE mx[m].susp # <<>>
  <2> DEFINE susp == mx[m].susp
  <2>1. susp \in Seq(Threads) /\ Once(susp)
    BY <1>1 DEF GreenTyped, Before, Placed, MutexesSound
  <2>2. /\ mx'[m].susp = Tail(susp) /\ mx'[m].taken
        /\ Head(susp) \in Threads /\ Has(susp, Head(susp))
        /\ ~Has(Tail(susp), Head(susp))
        /\ \A u : Has(susp, u) => u = Head(susp) \/ Has(Tail(susp), u)
    <3>1. /\ First(susp) = Head(susp) /\ Rest(susp) = Tail(susp)
          /\ First(susp) \in Threads /\ Has(susp, First(susp))
          /\ ~Has(Rest(susp), First(susp))
          /\ \A u : Has(susp, u) => u = First(susp) \/ Has(Rest(susp), u)
      BY <1>8, <2>1, DeqQueue
    <3>2. mx'[m].susp = Tail(susp) /\ mx'[m].taken
      BY <1>2, <1>4, <1>8, <3>1
    <3> HIDE DEF susp
    <3> QED
      BY <3>1, <3>2
  <2>3. at[Head(susp)] = "lock" /\ arg[Head(susp)].mutex = m
    BY <1>1, <2>2 DEF Before, Placed, MutexesSound
  <2>4. \A u \in Threads : IsOwner(u, m)' <=> u = Head(susp)
    BY <1>1, <1>4, <1>6, <2>2, <2>3 DEF Before, IsOwner
  <2> QED
    BY <1>4, <1>5, <1>8, <2>2, <2>4 DEF HandsOver
<1> QED
  BY <1>7, <1>8

LEMMA LockReturnsSettles ==
  ASSUME ClientInv, MutexInv, NEW t \in Threads, LockReturns(t),
         Takes(t, arg[t].mutex)
  PROVE  \A m \in Mutexes : Same(m)
<1>1. /\ GreenTyped /\ HoldsTyped /\ Before(t, "lock") /\ HoldersRun
      /\ at' = [at EXCEPT ![t] = "user"]
      /\ holds' = [holds EXCEPT ![t] = @ \cup {arg[t].mutex}]
      /\ mx' = mx
      /\ \A u \in Threads : u # t => arg'[u] = arg[u]
  BY BeforeStep DEF ClientInv, QueueInv, MutexInv, LockReturns, GoOn, GreenTyped, Takes
<1>2. holds[t] = {} /\ arg[t].mutex \in Mutexes /\ \A m \in Mutexes : ~Has(mx[m].susp, t)
  BY <1>1 DEF Before, HoldersRun, Errands, Nowhere
<1>3. \A u \in Threads, m \in Mutexes : IsOwner(u, m)' <=> IsOwner(u, m)
  BY <1>1, <1>2 DEF Before, GreenTyped, HoldsTyped, IsOwner
<1> QED
  BY <1>1, <1>3 DEF Same

LEMMA WaitReturnsSettles ==
  ASSUME ClientInv, MutexInv, NEW t \in Threads, WaitReturns(t),
         holds' = [holds EXCEPT ![t] = {arg[t].mutex} \ {NULL}]
  PROVE  UNCHANGED <<mx, holds>>
<1>1. /\ GreenTyped /\ HoldsTyped /\ Before(t, "wait") /\ HoldersRun
      /\ arg[t].mutex = NULL /\ holds[t] = {}
      /\ NULL \notin Mutexes
  BY BeforeStep, GreenAssumption
     DEF GreenAssumption, ClientInv, QueueInv, MutexInv, HoldersRun, WaitsAlone,
         WaitReturns, Before
<1>2. holds' = holds
  BY <1>1 DEF HoldsTyped
<1>3. mx' = [m \in Mutexes |-> mx[m]]
  BY <1>1 DEF WaitReturns
<1> QED
  BY <1>1, <1>2, <1>3 DEF GreenTyped

\* The classification: a step of the program does one of these things to the
\* mutexes, and nothing else.
LEMMA NextSettles ==
  ASSUME NoMutexWaits, ClientInv, MutexInv, Next
  PROVE  Settled
<1>1. GreenTyped /\ HoldsTyped
  BY DEF ClientInv, QueueInv
<1>2. ASSUME NEW t \in Threads, NEW place, at[t] # "lock", place # "lock",
             at' = [at EXCEPT ![t] = place],
             \A u \in Threads : u # t => arg'[u] = arg[u],
             UNCHANGED <<mx, holds>>
      PROVE  Settled
  BY <1>1, <1>2, NoLock DEF GreenTyped
<1>3. CASE UNCHANGED <<at, arg, mx, holds>>
  BY <1>3, NoLock
<1>4. ASSUME NEW t \in Threads, ThreadCall(t) PROVE Settled
  <2>1. ASSUME NEW new \in Threads, at[new] = "none", Create(t, new), UNCHANGED holds
        PROVE  Settled
    BY <1>2, <2>1 DEF Create
  <2>2. CASE Yield(t) /\ UNCHANGED holds
    BY <1>2, <2>2 DEF Yield, Suspend, Runs
  <2>3. CASE Exit(t) /\ UNCHANGED holds
    BY <1>2, <2>3 DEF Exit, Suspend, Runs
  <2>4. ASSUME NEW m \in Mutexes, Unused(m), MutexInit(t, m), UNCHANGED holds
        PROVE  Settled
    <3>1. mx' = mx
      BY <1>1, <2>4 DEF Unused, MutexInit, GreenTyped
    <3> QED
      BY <1>3, <2>4, <3>1 DEF MutexInit, threadVars
  <2>5. ASSUME NEW c \in Conds, CondInit(t, c) \/ SignalNobody(t, c) \/ Signal(t, c),
               UNCHANGED holds
        PROVE  Settled
    BY <1>3, <2>5 DEF CondInit, SignalNobody, Signal
  <2> QED
    BY <1>4, <2>1, <2>2, <2>3, <2>4, <2>5 DEF ThreadCall
<1>5. CASE JoinCall
  <2>1. Main \in Threads
    BY GreenAssumption DEF GreenAssumption
  <2>2. ASSUME NEW u \in Threads, JoinWaits(Main, u), UNCHANGED holds PROVE Settled
    BY <1>1, <1>2, <2>1, <2>2 DEF JoinWaits, Suspend, Runs, GreenTyped
  <2>3. ASSUME NEW u \in Threads, JoinZombie(Main, u), UNCHANGED holds PROVE Settled
    BY <1>3, <2>3 DEF JoinZombie, threadVars
  <2> QED
    BY <1>5, <2>2, <2>3 DEF JoinCall
<1>6. CASE MainEnds
  BY <1>3, <1>6 DEF MainEnds, MainReturns, threadVars
<1>7. ASSUME NEW t \in Threads, LockCall(t) PROVE Settled
  BY <1>7, LockFreeSettles, LockTakenSettles DEF LockCall, Settled
<1>8. ASSUME NEW t \in Threads, UnlockCall(t) PROVE Settled
  BY <1>1, <1>8, UnlockSettles DEF UnlockCall, HoldsTyped, Settled
<1>9. ASSUME NEW t \in Threads, CondWaitCall(t) PROVE Settled
  <2>1. PICK c \in Conds : holds[t] = {} /\ CondWait(t, c, NULL) /\ Drops(t, NULL)
    BY <1>9 DEF NoMutexWaits, CondWaitCall
  <2>2. holds' = holds
    BY <1>1, <2>1 DEF HoldsTyped, Drops
  <2> QED
    BY <1>1, <1>2, <2>1, <2>2 DEF CondWait, Suspend, Runs, GreenTyped
<1>10. ASSUME NEW t \in Threads, Return(t) PROVE Settled
  <2>1. CASE LockReturns(t) /\ Takes(t, arg[t].mutex)
    BY <2>1, LockReturnsSettles DEF Settled
  <2>2. CASE /\ WaitReturns(t)
             /\ holds' = [holds EXCEPT ![t] = {arg[t].mutex} \ {NULL}]
    BY <1>1, <1>2, <2>2, WaitReturnsSettles DEF WaitReturns, GoOn, Runs, GreenTyped
  <2>3. CASE Wait2Returns(t) \/ WaitsAgain(t)
    BY <2>3, GreenAssumption
       DEF GreenAssumption, Wait2Returns, WaitsAgain, Runs, MutexInv, WaitsAlone
  <2>4. CASE /\ Start(t) \/ YieldReturns(t) \/ JoinReturns(t) \/ TickReturns(t)
             /\ UNCHANGED holds
    BY <1>1, <1>2, <2>4
       DEF Start, YieldReturns, JoinReturns, TickReturns, GoOn, Runs, GreenTyped
  <2> QED
    BY <1>10, <2>1, <2>2, <2>3, <2>4 DEF Return
<1>11. ASSUME NEW t \in Threads, Interrupt(t) PROVE Settled
  BY <1>2, <1>11 DEF Interrupt, Tick, Suspend, Runs
<1> QED
  BY <1>4, <1>5, <1>6, <1>7, <1>8, <1>9, <1>10, <1>11 DEF Next

-----------------------------------------------------------------------------
(* The invariant of the mutexes.                                           *)

LEMMA TakenOwnedStep ==
  ASSUME GreenTyped, TakenOwned, Settled
  PROVE  TakenOwned'
<1> SUFFICES ASSUME NEW n \in Mutexes
             PROVE  (IF mx[n].taken
                     THEN \E t \in Threads : \A u \in Threads : IsOwner(u, n) <=> u = t
                     ELSE mx[n].susp = <<>> /\ \A u \in Threads : ~IsOwner(u, n))'
  BY DEF TakenOwned
<1>1. CASE Same(n)
  BY <1>1 DEF TakenOwned, Same
<1>2. CASE ~Same(n)
  <2>1. \/ \E t \in Threads : Enters(t, n) \/ Queues(t, n)
        \/ Leaves(n) \/ HandsOver(n)
    BY <1>2 DEF Settled, Enters, Queues, Leaves, HandsOver, SameButFor
  <2> DEFINE OneOwner == \E v \in Threads : \A u \in Threads : IsOwner(u, n)' <=> u = v
  <2>2. ASSUME NEW t \in Threads, Enters(t, n) PROVE mx'[n].taken /\ OneOwner
    BY <2>2 DEF Enters
  <2>3. ASSUME NEW t \in Threads, Queues(t, n) PROVE mx'[n].taken /\ OneOwner
    BY <2>3 DEF Queues, TakenOwned
  <2>4. ASSUME HandsOver(n) PROVE mx'[n].taken /\ OneOwner
    <3>1. Head(mx[n].susp) \in Threads
      BY <2>4, DeqQueue DEF HandsOver, GreenTyped
    <3> QED
      BY <2>4, <3>1 DEF HandsOver
  <2> QED
    BY <2>1, <2>2, <2>3, <2>4 DEF Leaves
<1> QED
  BY <1>1, <1>2

\* A step that gives no thread a mutex and takes none from it.
LEMMA HoldersSame ==
  ASSUME HoldersRun, WaitsAlone, UNCHANGED holds,
         \A u \in Threads :
           \/ at'[u] = at[u] /\ (at[u] = "wait" => arg'[u] = arg[u])
           \/ /\ at'[u] \notin {"wait", "wait2"}
              /\ holds[u] = {} \/ at'[u] \in {"user", "yield", "tick"}
  PROVE  HoldersRun' /\ WaitsAlone'
BY DEF HoldersRun, WaitsAlone

LEMMA HoldersStep ==
  ASSUME NoMutexWaits, ClientInv, MutexInv, Next
  PROVE  HoldersRun' /\ WaitsAlone'
<1>1. /\ GreenTyped /\ HoldsTyped /\ HoldersRun /\ WaitsAlone
      /\ Main \in Threads /\ NULL \notin Mutexes
  BY GreenAssumption DEF GreenAssumption, ClientInv, QueueInv, MutexInv
<1>2. ASSUME NEW t \in Threads, NEW place, place \notin {"wait", "wait2"},
             holds[t] = {} \/ place \in {"user", "yield", "tick"},
             at' = [at EXCEPT ![t] = place],
             \A u \in Threads : u # t => arg'[u] = arg[u],
             UNCHANGED holds
      PROVE  HoldersRun' /\ WaitsAlone'
  BY <1>1, <1>2, HoldersSame DEF GreenTyped
<1>3. CASE UNCHANGED <<at, arg, holds>>
  BY <1>1, <1>3, HoldersSame
<1>4. ASSUME NEW t \in Threads, ThreadCall(t) PROVE HoldersRun' /\ WaitsAlone'
  <2>1. ASSUME NEW new \in Threads, at[new] = "none", Create(t, new), UNCHANGED holds
        PROVE  HoldersRun' /\ WaitsAlone'
    BY <1>1, <1>2, <2>1 DEF Create, HoldersRun
  <2>2. CASE Yield(t) /\ UNCHANGED holds
    BY <1>2, <2>2 DEF Yield, Suspend
  <2>3. CASE holds[t] = {} /\ Exit(t) /\ UNCHANGED holds
    BY <1>2, <2>3 DEF Exit, Suspend
  <2>4. ASSUME NEW m \in Mutexes, MutexInit(t, m), UNCHANGED holds
        PROVE  HoldersRun' /\ WaitsAlone'
    BY <1>3, <2>4 DEF MutexInit, threadVars
  <2>5. ASSUME NEW c \in Conds, CondInit(t, c) \/ SignalNobody(t, c) \/ Signal(t, c),
               UNCHANGED holds
        PROVE  HoldersRun' /\ WaitsAlone'
    BY <1>3, <2>5 DEF CondInit, SignalNobody, Signal
  <2> QED
    BY <1>4, <2>1, <2>2, <2>3, <2>4, <2>5 DEF ThreadCall
<1>5. CASE JoinCall
  <2>1. ASSUME NEW u \in Threads, JoinWaits(Main, u), holds[Main] = {}, UNCHANGED holds
        PROVE  HoldersRun' /\ WaitsAlone'
    BY <1>1, <1>2, <2>1 DEF JoinWaits, Suspend, GreenTyped
  <2>2. ASSUME NEW u \in Threads, JoinZombie(Main, u), UNCHANGED holds
        PROVE  HoldersRun' /\ WaitsAlone'
    BY <1>3, <2>2 DEF JoinZombie, threadVars
  <2> QED
    BY <1>5, <2>1, <2>2 DEF JoinCall
<1>6. CASE MainEnds
  BY <1>3, <1>6 DEF MainEnds, MainReturns, threadVars
<1>7. ASSUME NEW t \in Threads, LockCall(t) PROVE HoldersRun' /\ WaitsAlone'
  <2>1. ASSUME NEW m \in Mutexes, LockTaken(t, m), UNCHANGED holds, holds[t] = {}
        PROVE  HoldersRun' /\ WaitsAlone'
    BY <1>1, <1>2, <2>1 DEF LockTaken, Suspend, GreenTyped
  <2>2. ASSUME NEW m \in Mutexes, LockFree(t, m), Takes(t, m), holds[t] = {}
        PROVE  HoldersRun' /\ WaitsAlone'
    BY <1>1, <2>2 DEF LockFree, Takes, Runs, HoldsTyped, HoldersRun, WaitsAlone
  <2> QED
    BY <1>7, <2>1, <2>2 DEF LockCall
<1>8. ASSUME NEW t \in Threads, UnlockCall(t) PROVE HoldersRun' /\ WaitsAlone'
  BY <1>1, <1>8 DEF UnlockCall, Unlock, Drops, HoldsTyped, HoldersRun, WaitsAlone
<1>9. ASSUME NEW t \in Threads, CondWaitCall(t) PROVE HoldersRun' /\ WaitsAlone'
  <2>1. PICK c \in Conds : holds[t] = {} /\ CondWait(t, c, NULL) /\ Drops(t, NULL)
    BY <1>9 DEF NoMutexWaits, CondWaitCall
  <2>2. holds' = holds
    BY <1>1, <2>1 DEF HoldsTyped, Drops
  <2>3. /\ at' = [at EXCEPT ![t] = "wait"]
        /\ arg' = [arg EXCEPT ![t] = [@ EXCEPT !.cond = c, !.mutex = NULL]]
    BY <2>1 DEF CondWait, Suspend
  <2>4. arg'[t].mutex = NULL /\ \A u \in Threads : u # t => arg'[u] = arg[u]
    BY <1>1, <2>3 DEF GreenTyped, Arguments
  <2> QED
    BY <1>1, <2>1, <2>2, <2>3, <2>4 DEF GreenTyped, HoldersRun, WaitsAlone
<1>10. ASSUME NEW t \in Threads, Return(t) PROVE HoldersRun' /\ WaitsAlone'
  <2>1. CASE LockReturns(t) /\ Takes(t, arg[t].mutex)
    <3>1. holds[t] = {}
      BY <1>1, <2>1 DEF LockReturns, Runs, HoldersRun
    <3> QED
      BY <1>1, <2>1, <3>1
         DEF LockReturns, GoOn, Takes, GreenTyped, HoldsTyped, HoldersRun, WaitsAlone
  <2>2. CASE /\ WaitReturns(t)
             /\ holds' = [holds EXCEPT ![t] = {arg[t].mutex} \ {NULL}]
    BY <1>1, <1>2, <2>2, WaitReturnsSettles DEF WaitReturns, GoOn, GreenTyped
  <2>3. CASE Wait2Returns(t) \/ WaitsAgain(t)
    BY <1>1, <2>3 DEF Wait2Returns, WaitsAgain, Runs, WaitsAlone
  <2>4. CASE /\ Start(t) \/ YieldReturns(t) \/ JoinReturns(t) \/ TickReturns(t)
             /\ UNCHANGED holds
    BY <1>1, <1>2, <2>4
       DEF Start, YieldReturns, JoinReturns, TickReturns, GoOn, GreenTyped
  <2> QED
    BY <1>10, <2>1, <2>2, <2>3, <2>4 DEF Return
<1>11. ASSUME NEW t \in Threads, Interrupt(t) PROVE HoldersRun' /\ WaitsAlone'
  BY <1>2, <1>11 DEF Interrupt, Tick, Suspend
<1> QED
  BY <1>4, <1>5, <1>6, <1>7, <1>8, <1>9, <1>10, <1>11 DEF Next

LEMMA MutexInit0 == Init => MutexInv
BY EmptyQueue DEF Init, GreenInit, MutexInv, HoldersRun, WaitsAlone, TakenOwned, IsOwner

LEMMA MutexUnchanged == MutexInv /\ UNCHANGED vars => MutexInv'
BY DEF vars, greenVars, threadVars, joinVars, MutexInv, HoldersRun, WaitsAlone,
       TakenOwned, IsOwner

\* The owner of a mutex is the one thread that has it or that has been handed
\* it, and the flag says whether there is one, in every state.
THEOREM MutexesHold == NoMutexWaits => (Spec => [](ClientInv /\ MutexInv))
<1> SUFFICES ASSUME NoMutexWaits PROVE Spec => [](ClientInv /\ MutexInv)
  OBVIOUS
<1>1. ClientInv /\ MutexInv /\ [Next]_vars => MutexInv'
  <2> SUFFICES ASSUME ClientInv, MutexInv, [Next]_vars PROVE MutexInv'
    OBVIOUS
  <2>1. CASE Next
    BY <2>1, NextSettles, HoldersStep, TakenOwnedStep DEF ClientInv, QueueInv, MutexInv
  <2> QED
    BY <2>1, MutexUnchanged
<1>2. Spec => []ClientInv
  BY JoinsHold, PTL DEF ClientInv
<1> QED
  BY <1>1, <1>2, MutexInit0, PTL DEF Spec

-----------------------------------------------------------------------------
(* The properties of the mutexes.                                          *)

LEMMA OneOwner ==
  ASSUME TakenOwned, NEW m \in Mutexes
  PROVE  /\ mx[m].taken => \E t \in Threads : Owners(m) = {t}
         /\ ~mx[m].taken => Owners(m) = {}
<1>1. Owners(m) = {t \in Threads : IsOwner(t, m)}
  BY OwnersAre
<1>2. ASSUME mx[m].taken PROVE \E t \in Threads : Owners(m) = {t}
  <2>1. PICK t \in Threads : \A u \in Threads : IsOwner(u, m) <=> u = t
    BY <1>2 DEF TakenOwned
  <2> QED
    BY <1>1, <2>1
<1>3. ASSUME ~mx[m].taken PROVE Owners(m) = {}
  BY <1>1, <1>3 DEF TakenOwned
<1> QED
  BY <1>2, <1>3

\* No two threads act as holders of one mutex.
THEOREM Exclusion == NoMutexWaits => (Spec => []MutualExclusion)
<1> SUFFICES ASSUME NoMutexWaits PROVE Spec => []MutualExclusion
  OBVIOUS
<1>1. ClientInv /\ MutexInv => MutualExclusion
  <2> SUFFICES ASSUME ClientInv, MutexInv, NEW t \in Threads, NEW u \in Threads,
                      t # u, NEW m \in holds[t] \cap holds[u]
               PROVE  FALSE
    BY DEF MutualExclusion
  <2>1. m \in Mutexes /\ IsOwner(t, m) /\ IsOwner(u, m)
    BY DEF ClientInv, HoldsTyped, IsOwner
  <2> QED
    BY <2>1 DEF MutexInv, TakenOwned
<1> QED
  BY <1>1, MutexesHold, PTL

\* The flag of a mutex is set exactly when one thread has the mutex.
THEOREM TakenIsOwned == NoMutexWaits => (Spec => []TakenHasOneOwner)
<1> SUFFICES ASSUME NoMutexWaits PROVE Spec => []TakenHasOneOwner
  OBVIOUS
<1>1. MutexInv => TakenHasOneOwner
  <2> SUFFICES ASSUME MutexInv, NEW m \in Mutexes
               PROVE  Cardinality(Owners(m)) = IF mx[m].taken THEN 1 ELSE 0
    BY DEF TakenHasOneOwner
  <2> QED
    BY OneOwner, FS_Singleton, FS_EmptySet DEF MutexInv
<1> QED
  BY <1>1, MutexesHold, PTL

-----------------------------------------------------------------------------
(* The refinement.                                                         *)

\* Every step is one of the abstract lock, or changes nothing there.
LEMMA LockStep ==
  ASSUME GreenTyped, TakenOwned, Settled
  PROVE  [Lock!LockNext]_(Lock!locks)
<1> DEFINE owners  == [m \in Mutexes |-> Owners(m)]
           waiting == [m \in Mutexes |-> mx[m].susp]
<1>1. \A m \in Mutexes : Owners(m) = {t \in Threads : IsOwner(t, m)}
  BY OwnersAre
<1>2. \A m \in Mutexes : Owners(m)' = {t \in Threads : IsOwner(t, m)'}
  BY DEF Owners, HandedTo, IsOwner, Has
<1>3. \A m \in Mutexes : Same(m) => Owners(m)' = Owners(m) /\ mx'[m] = mx[m]
  BY <1>1, <1>2 DEF Same
<1>4. CASE \A m \in Mutexes : Same(m)
  BY <1>3, <1>4 DEF Lock!locks
<1>5. ASSUME NEW m \in Mutexes, SameButFor(m), NEW S, NEW q,
             Owners(m)' = S, mx'[m].susp = q
      PROVE  /\ owners' = [owners EXCEPT ![m] = S]
             /\ waiting' = [waiting EXCEPT ![m] = q]
  BY <1>3, <1>5 DEF SameButFor
<1>6. ASSUME NEW m \in Mutexes, SameButFor(m) PROVE
             /\ Owners(m)' = Owners(m) => owners' = owners
             /\ mx'[m].susp = mx[m].susp => waiting' = waiting
  BY <1>3, <1>6 DEF SameButFor
<1>7. ASSUME NEW t \in Threads, NEW m \in Mutexes, Enters(t, m) PROVE Lock!Enter(t, m)
  <2>1. Owners(m)' = {t}
    BY <1>2, <1>7 DEF Enters
  <2>2. owners[m] = {}
    BY <1>7, OneOwner DEF Enters
  <2> QED
    BY <1>5, <1>6, <1>7, <2>1, <2>2 DEF Enters, Lock!Enter
<1>8. ASSUME NEW t \in Threads, NEW m \in Mutexes, Queues(t, m) PROVE Lock!Wait(t, m)
  <2>1. Owners(m)' = Owners(m)
    BY <1>1, <1>2, <1>8 DEF Queues
  <2>2. owners[m] # {}
    BY <1>8, OneOwner DEF Queues
  <2> QED
    BY <1>5, <1>6, <1>8, <2>1, <2>2 DEF Queues, Lock!Wait
<1>9. ASSUME NEW m \in Mutexes, Leaves(m) PROVE Lock!Leave(m)
  <2>1. Owners(m)' = {}
    BY <1>2, <1>9 DEF Leaves
  <2>2. owners[m] # {}
    BY <1>9, OneOwner DEF Leaves
  <2> QED
    BY <1>5, <1>6, <1>9, <2>1, <2>2 DEF Leaves, Lock!Leave
<1>10. ASSUME NEW m \in Mutexes, HandsOver(m) PROVE Lock!HandOver(m)
  <2>1. Head(mx[m].susp) \in Threads
    BY <1>10, DeqQueue DEF HandsOver, GreenTyped
  <2>2. Owners(m)' = {Head(mx[m].susp)}
    BY <1>2, <1>10, <2>1 DEF HandsOver
  <2>3. owners[m] # {}
    BY <1>10, OneOwner DEF HandsOver
  <2> QED
    BY <1>5, <1>10, <2>2, <2>3 DEF HandsOver, Lock!HandOver
<1> QED
  BY <1>4, <1>7, <1>8, <1>9, <1>10 DEF Settled, Lock!LockNext

\* The mutexes are locks that one thread has at a time and that are handed on
\* in the order in which they were asked for.
THEOREM LocksImplemented == NoMutexWaits => (Spec => ImplementsLock)
<1> SUFFICES ASSUME NoMutexWaits PROVE Spec => ImplementsLock
  OBVIOUS
<1>1. Init => Lock!LockInit
  BY EmptyQueue DEF Init, GreenInit, Lock!LockInit, Owners, HandedTo
<1>2. ClientInv /\ MutexInv /\ [Next]_vars => [Lock!LockNext]_(Lock!locks)
  <2> SUFFICES ASSUME ClientInv, MutexInv, [Next]_vars
               PROVE  [Lock!LockNext]_(Lock!locks)
    OBVIOUS
  <2>1. CASE Next
    BY <2>1, NextSettles, LockStep DEF ClientInv, QueueInv, MutexInv
  <2>2. CASE UNCHANGED vars
    BY <2>2 DEF vars, greenVars, threadVars, Lock!locks, Owners, HandedTo
  <2> QED
    BY <2>1, <2>2
<1> QED
  BY <1>1, <1>2, MutexesHold, PTL DEF Spec, ImplementsLock, Lock!LockSpec

-----------------------------------------------------------------------------
(* No thread is lost.                                                      *)

\* Thread t waits for a mutex, a signal or the end of a thread.
Parked(t) ==
  \/ \E m \in Mutexes : Has(mx[m].susp, t)
  \/ \E c \in Conds : Has(cv[c], t)
  \/ \E u \in Threads : Joins(t, u)

Alive(t) == at[t] \notin {"none", "done"}

HomeInv ==
  process = "runs" =>
    \A t \in Threads : Alive(t) => t = running \/ Has(readyq, t) \/ Parked(t)

LEMMA HomeInit == Init => HomeInv
BY DEF Init, GreenInit, HomeInv, Alive

\* A thread that is ready, or waits, when another leaves the processor is
\* ready or runs or waits afterwards.
LEMMA SuspendHome ==
  ASSUME NEW t \in Threads, NEW place, NEW queue \in Seq(Threads), NEW end,
         end # "runs", Suspend(t, place, queue, end),
         \A u \in Threads : Alive(u)' => Has(queue, u) \/ Parked(u)'
  PROVE  HomeInv'
<1>1. CASE queue = <<>>
  BY <1>1 DEF Suspend, HomeInv
<1>2. CASE queue # <<>>
  <2>1. /\ running' = First(queue) /\ readyq' = Rest(queue)
        /\ \A u : Has(queue, u) => u = First(queue) \/ Has(Rest(queue), u)
    BY <1>2, DeqQueue DEF Suspend
  <2> QED
    BY <2>1 DEF HomeInv
<1> QED
  BY <1>1, <1>2

\* A step that moves no thread from one place to another.
LEMMA HomeSame ==
  ASSUME HomeInv, process = "runs",
         UNCHANGED <<running, readyq, join, zombie, cv>>,
         \A m \in Mutexes : mx'[m].susp = mx[m].susp,
         \A t \in Threads : Alive(t)' => Alive(t)
  PROVE  HomeInv'
BY DEF HomeInv, Parked, Joins

LEMMA HomeYieldOrTick ==
  ASSUME QueueInv, HomeInv, NEW t \in Threads, Yield(t) \/ Tick(t)
  PROVE  HomeInv'
<1>1. Before(t, "user")
  BY BeforeStep DEF Yield, Tick
<1>2. PICK queue : queue = Enq(readyq, t)
  OBVIOUS
<1>3. queue \in Seq(Threads) /\ \A u : Has(queue, u) <=> Has(readyq, u) \/ u = t
  BY <1>1, <1>2, EnqQueue DEF Before, GreenTyped
<1>4. /\ \E place : Suspend(t, place, queue, "segv")
      /\ \A u \in Threads : Parked(u) => Parked(u)'
      /\ \A u \in Threads : u # t => at'[u] = at[u]
  BY <1>1, <1>2 DEF Yield, Tick, Suspend, Parked, Joins, joinVars, Before, GreenTyped
<1>5. \A u \in Threads : Alive(u)' => Has(queue, u) \/ Parked(u)'
  BY <1>1, <1>3, <1>4 DEF Before, HomeInv, Alive
<1> QED
  BY <1>3, <1>4, <1>5, SuspendHome

LEMMA HomeExit ==
  ASSUME QueueInv, HomeInv, NEW t \in Threads, Exit(t)
  PROVE  HomeInv'
<1>1. Before(t, "user")
  BY BeforeStep DEF Exit
<1>2. PICK queue : queue = Enq(readyq, join[t])
  OBVIOUS
<1>3. /\ queue \in Seq(Threads)
      /\ \A u \in Threads : Has(readyq, u) \/ u = join[t] => Has(queue, u)
  <2>1. CASE join[t] = NULL
    BY <1>1, <1>2, <2>1, EnqNobody, GreenAssumption DEF GreenAssumption, Before, GreenTyped
  <2>2. CASE join[t] # NULL
    BY <1>1, <1>2, <2>2, EnqQueue DEF Before, GreenTyped
  <2> QED
    BY <2>1, <2>2
<1>4. /\ Suspend(t, "done", queue, "segv")
      /\ at' = [at EXCEPT ![t] = "done"]
      /\ zombie' = [zombie EXCEPT ![t] = TRUE]
      /\ UNCHANGED <<join, mx, cv>>
  BY <1>2 DEF Exit, Suspend
<1>5. \A u \in Threads : Parked(u) => Parked(u)' \/ u = join[t]
  BY <1>1, <1>4 DEF Parked, Joins, Before, GreenTyped
<1>6. \A u \in Threads : Alive(u)' => Has(queue, u) \/ Parked(u)'
  BY <1>1, <1>3, <1>4, <1>5 DEF Before, GreenTyped, HomeInv, Alive
<1> QED
  BY <1>3, <1>4, <1>6, SuspendHome

LEMMA HomeJoinWaits ==
  ASSUME QueueInv, JoinInv, HomeInv, NEW u \in Threads, JoinWaits(Main, u)
  PROVE  HomeInv'
<1>1. Main \in Threads /\ Before(Main, "user")
  BY GreenAssumption, BeforeStep DEF GreenAssumption, JoinWaits
<1>2. PICK queue : queue = readyq
  OBVIOUS
<1>3. /\ Suspend(Main, "join", queue, "segv")
      /\ at' = [at EXCEPT ![Main] = "join"]
      /\ join' = [join EXCEPT ![u] = Main] /\ ~zombie[u]
      /\ UNCHANGED <<zombie, mx, cv>>
  BY <1>2 DEF JoinWaits, Suspend
<1>4. \A w \in Threads : Parked(w) => Parked(w)'
  BY <1>1, <1>3, GreenAssumption DEF GreenAssumption, JoinInv, Parked, Joins, Before, GreenTyped
<1>5. Parked(Main)'
  BY <1>1, <1>3 DEF Parked, Joins, Before, GreenTyped
<1>6. \A w \in Threads : Alive(w)' => Has(queue, w) \/ Parked(w)'
  BY <1>1, <1>2, <1>3, <1>4, <1>5 DEF Before, GreenTyped, HomeInv, Alive
<1>7. queue \in Seq(Threads)
  BY <1>1, <1>2 DEF Before, GreenTyped
<1> QED
  BY <1>1, <1>3, <1>6, <1>7, SuspendHome

LEMMA HomeLockTaken ==
  ASSUME QueueInv, HomeInv, NEW t \in Threads, NEW m \in Mutexes, LockTaken(t, m)
  PROVE  HomeInv'
<1>1. Before(t, "user")
  BY BeforeStep DEF LockTaken
<1>2. PICK queue, susp : queue = readyq /\ susp = Enq(mx[m].susp, t)
  OBVIOUS
<1>3. /\ Suspend(t, "lock", queue, "assert")
      /\ at' = [at EXCEPT ![t] = "lock"]
      /\ mx' = [mx EXCEPT ![m].susp = susp]
      /\ UNCHANGED <<joinVars, cv>>
  BY <1>2 DEF LockTaken, Suspend
<1>4. mx[m].susp \in Seq(Threads) /\ queue \in Seq(Threads)
  BY <1>1, <1>2 DEF Before, GreenTyped
<1>5. \A u : Has(susp, u) <=> Has(mx[m].susp, u) \/ u = t
  BY <1>2, <1>4, EnqQueue
<1>6. mx'[m].susp = susp /\ \A n \in Mutexes : n # m => mx'[n] = mx[n]
  BY <1>1, <1>3 DEF Before, GreenTyped
<1>7. \A u \in Threads : Parked(u) \/ u = t => Parked(u)'
  BY <1>3, <1>5, <1>6 DEF Parked, Joins, joinVars
<1>8. \A u \in Threads : Alive(u)' => Has(queue, u) \/ Parked(u)'
  BY <1>1, <1>2, <1>3, <1>7 DEF Before, GreenTyped, HomeInv, Alive
<1> QED
  BY <1>3, <1>4, <1>8, SuspendHome

LEMMA HomeCondWait ==
  ASSUME QueueInv, HomeInv, NEW t \in Threads, NEW c \in Conds, CondWait(t, c, NULL)
  PROVE  HomeInv'
<1>1. Before(t, "user")
  BY BeforeStep DEF CondWait
<1>2. PICK queue, susp : queue = readyq /\ susp = Enq(cv[c], t)
  OBVIOUS
<1>3. /\ Suspend(t, "wait", queue, "assert")
      /\ at' = [at EXCEPT ![t] = "wait"]
      /\ cv' = [cv EXCEPT ![c] = susp]
      /\ UNCHANGED <<joinVars, mx>>
  BY <1>2 DEF CondWait, Suspend
<1>4. cv[c] \in Seq(Threads) /\ queue \in Seq(Threads)
  BY <1>1, <1>2 DEF Before, GreenTyped
<1>5. \A u : Has(susp, u) <=> Has(cv[c], u) \/ u = t
  BY <1>2, <1>4, EnqQueue
<1>6. cv'[c] = susp /\ \A d \in Conds : d # c => cv'[d] = cv[d]
  BY <1>1, <1>3 DEF Before, GreenTyped
<1>7. \A u \in Threads : Parked(u) \/ u = t => Parked(u)'
  BY <1>3, <1>5, <1>6 DEF Parked, Joins, joinVars
<1>8. \A u \in Threads : Alive(u)' => Has(queue, u) \/ Parked(u)'
  BY <1>1, <1>2, <1>3, <1>7 DEF Before, GreenTyped, HomeInv, Alive
<1> QED
  BY <1>3, <1>4, <1>8, SuspendHome

\* Whoever unlock or signal takes out of a queue is ready.
LEMMA HomeWake ==
  ASSUME NEW susp \in Seq(Threads), NEW queue \in Seq(Threads), NEW u,
         Has(susp, u) \/ Has(queue, u)
  PROVE  Has(Enq(queue, First(susp)), u) \/ Has(Rest(susp), u)
<1>1. CASE susp = <<>>
  BY <1>1, EmptyQueue, EnqNobody
<1>2. CASE susp # <<>>
  BY <1>2, DeqQueue, EnqQueue
<1> QED
  BY <1>1, <1>2

LEMMA HomeUnlock ==
  ASSUME QueueInv, HomeInv, NEW t \in Threads, NEW m \in Mutexes, Unlock(t, m)
  PROVE  HomeInv'
<1>1. Before(t, "user")
  BY BeforeStep DEF Unlock
<1>2. /\ readyq' = Enq(readyq, First(mx[m].susp))
      /\ mx' = [mx EXCEPT ![m] = [taken |-> @.taken /\ @.susp # <<>>,
                                  susp  |-> Rest(@.susp)]]
      /\ UNCHANGED <<running, at, joinVars, cv>>
  BY DEF Unlock
<1>3. mx'[m].susp = Rest(mx[m].susp) /\ \A n \in Mutexes : n # m => mx'[n] = mx[n]
  BY <1>1, <1>2 DEF Before, GreenTyped
<1>4. mx[m].susp \in Seq(Threads) /\ readyq \in Seq(Threads)
  BY <1>1 DEF Before, GreenTyped
<1>5. \A u \in Threads : Has(mx[m].susp, u) \/ Has(readyq, u) =>
                           Has(readyq', u) \/ Has(mx'[m].susp, u)
  BY <1>2, <1>3, <1>4, HomeWake
<1>6. \A u \in Threads : Parked(u) => Parked(u)' \/ Has(readyq', u)
  BY <1>2, <1>3, <1>5 DEF Parked, Joins, joinVars
<1> QED
  BY <1>1, <1>2, <1>5, <1>6 DEF Before, HomeInv, Alive, Parked

LEMMA HomeSignal ==
  ASSUME QueueInv, HomeInv, NEW t \in Threads, NEW c \in Conds, Signal(t, c)
  PROVE  HomeInv'
<1>1. Before(t, "user")
  BY BeforeStep DEF Signal
<1>2. /\ readyq' = Enq(readyq, First(cv[c]))
      /\ cv' = [cv EXCEPT ![c] = Rest(@)]
      /\ UNCHANGED <<running, at, joinVars, mx>>
  BY DEF Signal
<1>3. cv'[c] = Rest(cv[c]) /\ \A d \in Conds : d # c => cv'[d] = cv[d]
  BY <1>1, <1>2 DEF Before, GreenTyped
<1>4. cv[c] \in Seq(Threads) /\ readyq \in Seq(Threads)
  BY <1>1 DEF Before, GreenTyped
<1>5. \A u \in Threads : Has(cv[c], u) \/ Has(readyq, u) =>
                           Has(readyq', u) \/ Has(cv'[c], u)
  BY <1>2, <1>3, <1>4, HomeWake
<1>6. \A u \in Threads : Parked(u) => Parked(u)' \/ Has(readyq', u)
  BY <1>2, <1>3, <1>5 DEF Parked, Joins, joinVars
<1> QED
  BY <1>1, <1>2, <1>5, <1>6 DEF Before, HomeInv, Alive, Parked

LEMMA HomeCreate ==
  ASSUME QueueInv, JoinInv, HomeInv, NEW t \in Threads, NEW new \in Threads,
         at[new] = "none", Create(t, new)
  PROVE  HomeInv'
<1>1. Before(t, "user")
  BY BeforeStep DEF Create
<1>2. /\ readyq' = Enq(readyq, new)
      /\ at' = [at EXCEPT ![new] = "new"]
      /\ join' = [join EXCEPT ![new] = NULL]
      /\ zombie' = [zombie EXCEPT ![new] = FALSE]
      /\ UNCHANGED <<running, mx, cv>>
  BY DEF Create
<1>3. \A u : Has(readyq', u) <=> Has(readyq, u) \/ u = new
  BY <1>1, <1>2, EnqQueue DEF Before, GreenTyped
<1>4. \A u \in Threads : ~Joins(u, new)
  BY <1>1 DEF Before, Placed, JoinsSound, JoinInv
<1>5. \A u \in Threads : Parked(u) => Parked(u)'
  BY <1>1, <1>2, <1>4 DEF Before, GreenTyped, Parked, Joins
<1> QED
  BY <1>1, <1>2, <1>3, <1>5 DEF Before, GreenTyped, HomeInv, Alive

LEMMA HomeStep ==
  ASSUME NoMutexWaits, ClientInv, MutexInv, HomeInv, Next
  PROVE  HomeInv'
<1>1. /\ QueueInv /\ JoinInv /\ GreenTyped /\ Main \in Threads
  BY GreenAssumption DEF GreenAssumption, ClientInv, QueueInv
<1>2. ASSUME NEW t \in Threads, NEW place, Runs(t, place), place \notin {"none", "done"},
             \A u \in Threads : u # t => at'[u] = at[u],
             UNCHANGED <<running, readyq, join, zombie, mx, cv>>
      PROVE  HomeInv'
  BY <1>1, <1>2, HomeSame DEF Runs, Alive
<1>3. ASSUME NEW t \in Threads, ThreadCall(t) PROVE HomeInv'
  <2>1. ASSUME NEW m \in Mutexes, Unused(m), MutexInit(t, m) PROVE HomeInv'
    <3>1. mx' = mx
      BY <1>1, <2>1 DEF Unused, MutexInit, GreenTyped
    <3> QED
      BY <1>2, <2>1, <3>1 DEF MutexInit, threadVars, joinVars
  <2>2. ASSUME NEW c \in Conds, cv[c] = <<>>, CondInit(t, c) PROVE HomeInv'
    <3>1. cv' = cv
      BY <1>1, <2>2 DEF CondInit, GreenTyped
    <3> QED
      BY <1>2, <2>2, <3>1 DEF CondInit, joinVars
  <2>3. ASSUME NEW c \in Conds, SignalNobody(t, c) PROVE HomeInv'
    BY <1>2, <2>3 DEF SignalNobody, joinVars
  <2> QED
    BY <1>1, <1>3, <2>1, <2>2, <2>3, HomeCreate, HomeYieldOrTick, HomeExit, HomeSignal
       DEF ThreadCall
<1>4. CASE JoinCall
  <2>1. ASSUME NEW u \in Threads, JoinZombie(Main, u) PROVE HomeInv'
    BY <1>1, <1>2, <2>1 DEF JoinZombie, threadVars
  <2> QED
    BY <1>1, <1>4, <2>1, HomeJoinWaits DEF JoinCall
<1>5. CASE MainEnds
  BY <1>5 DEF MainEnds, MainReturns, HomeInv
<1>6. ASSUME NEW t \in Threads, LockCall(t) PROVE HomeInv'
  <2>1. ASSUME NEW m \in Mutexes, LockFree(t, m) PROVE HomeInv'
    <3>1. \A n \in Mutexes : mx'[n].susp = mx[n].susp
      BY <1>1, <2>1 DEF LockFree, GreenTyped
    <3> QED
      BY <2>1, <3>1, HomeSame DEF LockFree, Runs, joinVars, Alive
  <2> QED
    BY <1>1, <1>6, <2>1, HomeLockTaken DEF LockCall
<1>7. ASSUME NEW t \in Threads, UnlockCall(t) PROVE HomeInv'
  BY <1>1, <1>7, HomeUnlock DEF UnlockCall, ClientInv, HoldsTyped
<1>8. ASSUME NEW t \in Threads, CondWaitCall(t) PROVE HomeInv'
  BY <1>1, <1>8, HomeCondWait DEF CondWaitCall, NoMutexWaits
<1>9. ASSUME NEW t \in Threads, Return(t) PROVE HomeInv'
  <2>1. CASE /\ WaitReturns(t)
             /\ holds' = [holds EXCEPT ![t] = {arg[t].mutex} \ {NULL}]
    <3>1. mx' = mx
      BY <2>1, WaitReturnsSettles
    <3> QED
      BY <1>1, <1>2, <2>1, <3>1 DEF WaitReturns, GoOn, joinVars, GreenTyped
  <2>2. CASE Wait2Returns(t) \/ WaitsAgain(t)
    BY <2>2, GreenAssumption
       DEF GreenAssumption, Wait2Returns, WaitsAgain, Runs, MutexInv, WaitsAlone
  <2>3. CASE Start(t)
    BY <1>1, <1>2, <2>3 DEF Start, GoOn, joinVars, GreenTyped
  <2>4. CASE YieldReturns(t)
    BY <1>1, <1>2, <2>4 DEF YieldReturns, GoOn, joinVars, GreenTyped
  <2>5. CASE JoinReturns(t)
    BY <1>1, <1>2, <2>5 DEF JoinReturns, GoOn, GreenTyped
  <2>6. CASE TickReturns(t)
    BY <1>1, <1>2, <2>6 DEF TickReturns, GoOn, joinVars, GreenTyped
  <2>7. CASE LockReturns(t)
    BY <1>1, <1>2, <2>7 DEF LockReturns, GoOn, joinVars, GreenTyped
  <2> QED
    BY <1>9, <2>1, <2>2, <2>3, <2>4, <2>5, <2>6, <2>7 DEF Return
<1>10. ASSUME NEW t \in Threads, Interrupt(t) PROVE HomeInv'
  BY <1>1, <1>10, HomeYieldOrTick DEF Interrupt
<1> QED
  BY <1>3, <1>4, <1>5, <1>6, <1>7, <1>8, <1>9, <1>10 DEF Next

\* Every thread that lives and does not run has one place from which it will
\* be made ready, in every state.
THEOREM HomesHold == NoMutexWaits => (Spec => [](ClientInv /\ MutexInv /\ HomeInv))
<1> SUFFICES ASSUME NoMutexWaits PROVE Spec => [](ClientInv /\ MutexInv /\ HomeInv)
  OBVIOUS
<1>1. ClientInv /\ MutexInv /\ HomeInv /\ [Next]_vars => HomeInv'
  <2> SUFFICES ASSUME ClientInv, MutexInv, HomeInv, [Next]_vars PROVE HomeInv'
    OBVIOUS
  <2>1. CASE UNCHANGED vars
    BY <2>1 DEF vars, greenVars, threadVars, joinVars, HomeInv, Alive, Parked, Joins
  <2> QED
    BY <2>1, HomeStep
<1> QED
  BY <1>1, MutexesHold, HomeInit, PTL DEF Spec

\* Between its creation and its end a thread either runs or is in exactly one
\* place from which it will be made ready.
THEOREM NoThreadLost == NoMutexWaits => (Spec => []OneHome)
<1> SUFFICES ASSUME NoMutexWaits PROVE Spec => []OneHome
  OBVIOUS
<1>1. ClientInv /\ HomeInv => OneHome
  <2> SUFFICES ASSUME ClientInv, HomeInv, process = "runs", NEW t \in Threads
               PROVE  Cardinality(Slots(t)) =
                        IF t = running \/ at[t] \in {"none", "done"} THEN 0 ELSE 1
    BY DEF OneHome
  <2>1. QueueInv
    BY DEF ClientInv
  <2>2. t = running \/ at[t] \in {"none", "done"} \/ ~Nowhere(t)
    BY DEF HomeInv, Alive, Parked, Nowhere
  <2> QED
    BY <2>1, <2>2, SlotsCount
<1> QED
  BY <1>1, HomesHold, PTL

-----------------------------------------------------------------------------
(* The program does not die.                                               *)

\* When nobody is ready, whoever waits for a mutex waits for the one thread
\* that runs.
LEMMA NobodyReady ==
  ASSUME ClientInv, MutexInv, HomeInv, process = "runs", readyq = <<>>,
         at[running] = "user", NEW m \in Mutexes, mx[m].taken
  PROVE  m \in holds[running]
<1>1. QueueInv /\ Placed(readyq) /\ HoldersRun
  BY DEF ClientInv, QueueInv, MutexInv
<1>2. PICK t \in Threads : IsOwner(t, m)
  BY DEF MutexInv, TakenOwned
<1>3. \A u : ~Has(readyq, u)
  BY EmptyQueue
<1>4. Alive(t)
  BY <1>1, <1>2 DEF IsOwner, HoldersRun, Alive
<1>5. t # running => Parked(t)
  BY <1>3, <1>4 DEF HomeInv
<1>6. CASE m \in holds[t]
  <2>1. at[t] \in {"user", "yield", "tick"}
    BY <1>1, <1>6 DEF HoldersRun
  <2>2. ~Parked(t)
    BY <1>1, <2>1 DEF Placed, MutexesSound, CondsSound, JoinsSound, Parked
  <2> QED
    BY <1>5, <1>6, <2>2
<1>7. CASE at[t] = "lock" /\ arg[t].mutex = m /\ ~Has(mx[m].susp, t)
  <2>1. ~Parked(t)
    BY <1>1, <1>7 DEF Placed, MutexesSound, CondsSound, JoinsSound, Parked
  <2> QED
    BY <1>5, <1>7, <2>1
<1> QED
  BY <1>2, <1>6, <1>7 DEF IsOwner

\* Then a thread that holds nothing can only be left by threads that wait for
\* a signal or for the end of another.
LEMMA OthersWait ==
  ASSUME ClientInv, MutexInv, HomeInv, process = "runs", readyq = <<>>,
         at[running] = "user", holds[running] = {},
         NEW t \in Threads, t # running, Alive(t)
  PROVE  at[t] \in {"wait", "wait2"} \/ \E u \in Threads : Joins(t, u)
<1>1. Parked(t)
  BY EmptyQueue DEF HomeInv
<1>2. Placed(readyq)
  BY DEF ClientInv, QueueInv
<1>3. \A m \in Mutexes : ~Has(mx[m].susp, t)
  <2> SUFFICES ASSUME NEW m \in Mutexes, Has(mx[m].susp, t) PROVE FALSE
    OBVIOUS
  <2>1. ~mx[m].taken
    BY NobodyReady
  <2> QED
    BY <2>1, EmptyQueue DEF MutexInv, TakenOwned
<1> QED
  BY <1>1, <1>2, <1>3 DEF Parked, Placed, CondsSound

SomeoneWaits == \E t \in Threads : at[t] \in {"wait", "wait2"}

DeathInv == process \in {"assert", "segv"} => SomeoneWaits

\* Main at green_join(): the thread it waits for is not at one itself.
LEMMA NotAllJoin ==
  ASSUME ClientInv, MutexInv, HomeInv, process = "runs", readyq = <<>>,
         at[running] = "user", holds[running] = {},
         NEW u \in Threads, u # Main, u # running, Alive(u)
  PROVE  at[u] \in {"wait", "wait2"}
<1>1. at[u] \in {"wait", "wait2"} \/ \E v \in Threads : Joins(u, v)
  BY OthersWait
<1>2. \A v \in Threads : ~Joins(u, v)
  BY GreenAssumption DEF GreenAssumption, ClientInv, JoinInv, Joins
<1> QED
  BY <1>1, <1>2

LEMMA DeathStep ==
  ASSUME NoMutexWaits, ClientInv, MutexInv, HomeInv, Next
  PROVE  DeathInv'
<1>1. /\ QueueInv /\ JoinInv /\ GreenTyped /\ Main \in Threads
  BY GreenAssumption DEF GreenAssumption, ClientInv, QueueInv
<1>2. ASSUME NEW t \in Threads, NEW place, NEW queue, NEW end, process = "runs",
             Suspend(t, place, queue, end), queue # <<>>
      PROVE  DeathInv'
  BY <1>2 DEF Suspend, DeathInv
<1>3. ASSUME UNCHANGED process, process = "runs" PROVE DeathInv'
  BY <1>3 DEF DeathInv
<1>4. ASSUME NEW t \in Threads, Yield(t) \/ Tick(t) PROVE DeathInv'
  <2>1. Enq(readyq, t) # <<>>
    BY <1>1, EnqQueue DEF GreenTyped
  <2> QED
    BY <1>2, <1>4, <2>1 DEF Yield, Tick, Runs
<1>5. ASSUME NEW t \in Threads, holds[t] = {}, Exit(t) PROVE DeathInv'
  <2>1. Before(t, "user") /\ t # Main
    BY <1>1, <1>5, BeforeStep DEF Exit
  <2>2. CASE Enq(readyq, join[t]) # <<>>
    BY <1>2, <1>5, <2>2 DEF Exit, Runs
  <2>3. CASE Enq(readyq, join[t]) = <<>>
    <3>1. readyq = <<>> /\ join[t] = NULL
      BY <1>1, <2>1, <2>3, EnqQueue, EnqNobody DEF GreenTyped
    <3>2. Alive(Main) /\ Main # running
      BY <1>1, <2>1 DEF Before, JoinInv, Alive
    <3>3. \E u \in Threads : u # t /\ at[u] \in {"wait", "wait2"}
      <4>1. CASE at[Main] \in {"wait", "wait2"}
        BY <1>1, <2>1, <4>1
      <4>2. CASE \E u \in Threads : Joins(Main, u)
        <5>1. PICK u \in Threads : Joins(Main, u)
          BY <4>2
        <5>2. at[Main] = "join" /\ arg[Main].thread = u
          BY <2>1, <1>1, <5>1 DEF Before, Placed, JoinsSound
        <5>3. /\ u # Main /\ u # t
              /\ Alive(u)
          BY <1>1, <2>1, <3>1, <5>1, <5>2, GreenAssumption
             DEF GreenAssumption, JoinInv, Joins, Alive, Before, Zombies
        <5>4. at[u] \in {"wait", "wait2"}
          BY <1>5, <2>1, <3>1, <5>3, NotAllJoin DEF Before
        <5> QED
          BY <5>3, <5>4
      <4>3. at[Main] \in {"wait", "wait2"} \/ \E u \in Threads : Joins(Main, u)
        BY <1>1, <1>5, <2>1, <3>1, <3>2, OthersWait DEF Before
      <4> QED
        BY <4>1, <4>2, <4>3
    <3>4. at' = [at EXCEPT ![t] = "done"]
      BY <1>5 DEF Exit, Suspend
    <3>5. SomeoneWaits'
      BY <1>1, <3>3, <3>4 DEF SomeoneWaits, GreenTyped
    <3> QED
      BY <3>5 DEF DeathInv
  <2> QED
    BY <2>2, <2>3
<1>6. ASSUME NEW u \in Threads, u # Main, context[u] = "live", holds[Main] = {},
             JoinWaits(Main, u)
      PROVE  DeathInv'
  <2>1. Before(Main, "user") /\ ~zombie[u]
    BY <1>1, <1>6, BeforeStep DEF JoinWaits
  <2>2. CASE readyq # <<>>
    BY <1>1, <1>2, <1>6, <2>2 DEF JoinWaits, Runs
  <2>3. CASE readyq = <<>>
    <3>1. Alive(u) /\ u # running
      BY <1>1, <1>6, <2>1 DEF Before, Zombies, JoinInv, Alive
    <3>2. at[u] \in {"wait", "wait2"}
      BY <1>6, <2>1, <2>3, <3>1, NotAllJoin DEF Before
    <3>3. at' = [at EXCEPT ![Main] = "join"]
      BY <1>6 DEF JoinWaits, Suspend
    <3>4. SomeoneWaits'
      BY <1>1, <1>6, <3>2, <3>3 DEF SomeoneWaits, GreenTyped
    <3> QED
      BY <3>4 DEF DeathInv
  <2> QED
    BY <2>2, <2>3
<1>7. ASSUME NEW t \in Threads, NEW m \in Mutexes, holds[t] = {}, LockTaken(t, m)
      PROVE  DeathInv'
  <2>1. Before(t, "user") /\ mx[m].taken
    BY <1>1, <1>7, BeforeStep DEF LockTaken
  <2>2. readyq # <<>>
    BY <1>7, <2>1, NobodyReady DEF Before
  <2> QED
    BY <1>2, <1>7, <2>2 DEF LockTaken, Runs
<1>8. ASSUME NEW t \in Threads, NEW c \in Conds, CondWait(t, c, NULL) PROVE DeathInv'
  <2>1. at' = [at EXCEPT ![t] = "wait"]
    BY <1>8 DEF CondWait, Suspend
  <2>2. SomeoneWaits'
    BY <1>1, <2>1 DEF SomeoneWaits, GreenTyped
  <2> QED
    BY <2>2 DEF DeathInv
<1>9. ASSUME NEW t \in Threads, Return(t) PROVE DeathInv'
  <2>1. CASE Wait2Returns(t) \/ WaitsAgain(t)
    BY <2>1, GreenAssumption
       DEF GreenAssumption, Wait2Returns, WaitsAgain, Runs, MutexInv, WaitsAlone
  <2>2. CASE \/ Start(t) \/ YieldReturns(t) \/ JoinReturns(t) \/ TickReturns(t)
             \/ LockReturns(t) \/ WaitReturns(t)
    BY <1>3, <2>2 DEF Start, YieldReturns, JoinReturns, TickReturns, LockReturns,
                      WaitReturns, Runs
  <2> QED
    BY <1>9, <2>1, <2>2 DEF Return
<1>10. ASSUME NEW t \in Threads, ThreadCall(t) PROVE DeathInv'
  BY <1>3, <1>4, <1>5, <1>10
     DEF ThreadCall, Create, MutexInit, CondInit, SignalNobody, Signal, Runs
<1>11. CASE JoinCall
  BY <1>3, <1>6, <1>11 DEF JoinCall, JoinZombie, Runs
<1>12. CASE MainEnds
  BY <1>12 DEF MainEnds, MainReturns, DeathInv
<1>13. ASSUME NEW t \in Threads, LockCall(t) PROVE DeathInv'
  BY <1>3, <1>7, <1>13 DEF LockCall, LockFree, Runs
<1>14. ASSUME NEW t \in Threads, UnlockCall(t) PROVE DeathInv'
  BY <1>1, <1>3, <1>14 DEF UnlockCall, Unlock, Runs
<1>15. ASSUME NEW t \in Threads, CondWaitCall(t) PROVE DeathInv'
  BY <1>8, <1>15 DEF CondWaitCall, NoMutexWaits
<1>16. ASSUME NEW t \in Threads, Interrupt(t) PROVE DeathInv'
  BY <1>4, <1>16 DEF Interrupt
<1> QED
  BY <1>9, <1>10, <1>11, <1>12, <1>13, <1>14, <1>15, <1>16 DEF Next

\* A program dies on a failed assertion or a null thread only when somebody
\* waits for a signal that nobody sends.
THEOREM NobodyLeftBehind == NoMutexWaits => (Spec => []NeverDies)
<1> SUFFICES ASSUME NoMutexWaits PROVE Spec => []NeverDies
  OBVIOUS
<1>1. Init => DeathInv
  BY DEF Init, GreenInit, DeathInv
<1>2. ClientInv /\ MutexInv /\ HomeInv /\ DeathInv /\ [Next]_vars => DeathInv'
  <2> SUFFICES ASSUME ClientInv, MutexInv, HomeInv, DeathInv, [Next]_vars
               PROVE  DeathInv'
    OBVIOUS
  <2>1. CASE UNCHANGED vars
    BY <2>1 DEF vars, greenVars, threadVars, DeathInv, SomeoneWaits
  <2> QED
    BY <2>1, DeathStep
<1>3. DeathInv => NeverDies
  BY DEF DeathInv, SomeoneWaits, NeverDies
<1> QED
  BY <1>1, <1>2, <1>3, HomesHold, PTL DEF Spec
=============================================================================
