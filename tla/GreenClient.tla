---------------------------- MODULE GreenClient ----------------------------
(***************************************************************************)
(* The green thread library with the most general client that keeps to its *)
(* rules: any thread calls any function, in any order, as long as          *)
(*   - a thread is created once, and joined at most once, by Main;         *)
(*   - a thread holds one mutex at a time, locks none it holds and unlocks *)
(*     none it does not hold;                                              *)
(*   - it holds nothing when it joins another or ends.                     *)
(* Every driver in the repository does.                                    *)
(***************************************************************************)
EXTENDS Green

CONSTANT WaitWith   \* the mutexes, or NULL, passed to green_cond_wait()

ASSUME ClientAssumption == WaitWith \subseteq Mutexes \cup {NULL}

VARIABLE
  holds   \* the mutexes a thread is entitled to believe that it holds

vars == <<greenVars, holds>>

Init == GreenInit /\ holds = [t \in Threads |-> {}]

Takes(t, m) == holds' = [holds EXCEPT ![t] = @ \cup {m}]
Drops(t, m) == holds' = [holds EXCEPT ![t] = @ \ {m}]

\* No thread holds the mutex or waits for it.
Unused(m) == ~mx[m].taken /\ mx[m].susp = <<>>

-----------------------------------------------------------------------------
ThreadCall(t) ==
  /\ \/ \E new \in Threads : at[new] = "none" /\ Create(t, new)
     \/ Yield(t)
     \/ holds[t] = {} /\ Exit(t)
     \/ \E m \in Mutexes : Unused(m) /\ MutexInit(t, m)
     \/ \E c \in Conds : cv[c] = <<>> /\ CondInit(t, c)
     \/ \E c \in Conds : SignalNobody(t, c) \/ Signal(t, c)
  /\ UNCHANGED holds

JoinCall ==
  /\ holds[Main] = {}
  /\ \E u \in Threads \ {Main} :
       context[u] = "live" /\ (JoinWaits(Main, u) \/ JoinZombie(Main, u))
  /\ UNCHANGED holds

\* main() returns when it has joined every thread there is.
MainEnds ==
  /\ \A u \in Threads \ {Main} : context[u] # "live"
  /\ MainReturns
  /\ UNCHANGED holds

LockCall(t) ==
  /\ holds[t] = {}
  /\ \E m \in Mutexes : \/ LockFree(t, m) /\ Takes(t, m)
                        \/ LockTaken(t, m) /\ UNCHANGED holds

UnlockCall(t) == \E m \in holds[t] : Unlock(t, m) /\ Drops(t, m)

CondWaitCall(t) ==
  \E c \in Conds, m \in WaitWith :
    /\ holds[t] = {m} \ {NULL}
    /\ CondWait(t, c, m)
    /\ Drops(t, m)

-----------------------------------------------------------------------------
\* A thread comes back from green_mutex_lock() or green_cond_wait(): it goes
\* on as if it held the mutex.
Return(t) ==
  \/ LockReturns(t) /\ Takes(t, arg[t].mutex)
  \/ /\ WaitReturns(t) \/ Wait2Returns(t)
     /\ holds' = [holds EXCEPT ![t] = {arg[t].mutex} \ {NULL}]
  \/ /\ Start(t) \/ YieldReturns(t) \/ JoinReturns(t) \/ TickReturns(t)
        \/ WaitsAgain(t)
     /\ UNCHANGED holds

Interrupt(t) == Tick(t) /\ UNCHANGED holds

Next ==
  \/ JoinCall
  \/ MainEnds
  \/ \E t \in Threads : \/ ThreadCall(t)
                        \/ LockCall(t)
                        \/ UnlockCall(t)
                        \/ CondWaitCall(t)
                        \/ Return(t)
                        \/ Interrupt(t)

Spec == Init /\ [][Next]_vars

(***************************************************************************)
(* A thread that has the processor inside a function of the library goes   *)
(* on with it.  The timer keeps counting while its signal is blocked, and a*)
(* signal that is pending is delivered when it is unblocked: a thread that *)
(* lets it through again and again is interrupted some time.  Of the client*)
(* only this is assumed: who holds a mutex and runs again and again unlocks*)
(* it some time.  A thread need not make any other call, nor return.       *)
(***************************************************************************)
FairSpec ==
  /\ Spec
  /\ \A t \in Threads : /\ WF_vars(Return(t))
                        /\ SF_vars(Interrupt(t))
                        /\ SF_vars(UnlockCall(t))

-----------------------------------------------------------------------------
(* Properties.                                                             *)

TypeOK ==
  /\ running \in Threads
  /\ readyq \in Seq(Threads)
  /\ at \in [Threads -> Places]
  /\ arg \in [Threads -> [cond   : Conds \cup {NULL},
                          mutex  : Mutexes \cup {NULL},
                          thread : Threads \cup {NULL}]]
  /\ masked \in [Threads -> BOOLEAN]
  /\ join \in [Threads -> Threads \cup {NULL}]
  /\ zombie \in [Threads -> BOOLEAN]
  /\ context \in [Threads -> {"none", "live", "freed"}]
  /\ mx \in [Mutexes -> [taken : BOOLEAN, susp : Seq(Threads)]]
  /\ cv \in [Conds -> Seq(Threads)]
  /\ process \in {"runs", "exit", "assert", "segv"}
  /\ holds \in [Threads -> SUBSET Mutexes]

\* No thread is lost and none is queued twice: a thread that has been created
\* and not ended either has the processor or waits in exactly one place, and
\* one that has ended, or is not created, waits nowhere.
OneHome ==
  process = "runs" =>
    \A t \in Threads :
      Cardinality(Slots(t)) =
        IF t = running \/ at[t] \in {"none", "done"} THEN 0 ELSE 1

\* A thread waits where the call it is in has put it: the thread that unlock,
\* signal or the end of a thread makes ready is one that waits for just that.
WaitsWhereItShould ==
  process = "runs" =>
    \A t \in Threads : \A slot \in Slots(t) :
      CASE slot[1] = "ready" -> at[t] \notin {"user", "none", "done"}
        [] slot[1] = "mutex" -> at[t] = "lock" /\ arg[t].mutex = slot[2]
        [] slot[1] = "cond"  -> at[t] \in {"wait", "wait2"} /\ arg[t].cond = slot[2]
        [] slot[1] = "join"  -> at[t] = "join" /\ arg[t].thread = slot[2]

\* At most one thread acts as the holder of a mutex.
MutualExclusion ==
  \A t, u \in Threads : t # u => holds[t] \cap holds[u] = {}

\* A mutex is taken exactly when somebody has it: a thread that acts as its
\* holder, or one that has been handed it and has not run yet.
HandedTo(m) ==
  {t \in Threads : /\ at[t] = "lock" /\ arg[t].mutex = m
                   /\ \A i \in DOMAIN mx[m].susp : mx[m].susp[i] # t}

Owners(m) == {t \in Threads : m \in holds[t]} \cup HandedTo(m)

TakenHasOneOwner ==
  process = "runs" =>
    \A m \in Mutexes : Cardinality(Owners(m)) = IF mx[m].taken THEN 1 ELSE 0

\* A thread whose context has been freed has ended: nothing can switch to it.
FreedHaveEnded ==
  \A t \in Threads : context[t] = "freed" => zombie[t] /\ at[t] = "done"

\* The program ends on a failed assertion or a null thread only when somebody
\* waits for a signal that the program itself does not send: as long as the
\* threads only lock, yield and join, one of them can always run.
NeverDies ==
  process \in {"assert", "segv"} => \E t \in Threads : at[t] \in {"wait", "wait2"}

\* No thread keeps the processor for ever with the signal blocked.  That is up
\* to the client: green_thread() starts its function like that (green.c:81), and
\* green_cond_signal() can return like that (line 233).
Preemptible ==
  \A t \in Threads : []<>(running # t \/ ~masked[t] \/ process # "runs")

\* With clients of that kind a thread that waits for a mutex becomes its owner.
LockIsGranted ==
  Preemptible =>
    \A t \in Threads, m \in Mutexes :
      (at[t] = "lock" /\ arg[t].mutex = m) ~> (m \in holds[t] \/ process # "runs")

\* With clients of that kind a thread that is ready runs again.
ReadyRuns ==
  Preemptible =>
    \A t \in Threads :
      (\E i \in DOMAIN readyq : readyq[i] = t) ~> (running = t \/ process # "runs")

\* The mutexes implement abstract locks: one owner each, handed on in the
\* order in which the threads asked.
Lock == INSTANCE GreenLock WITH
          owners  <- [m \in Mutexes |-> Owners(m)],
          waiting <- [m \in Mutexes |-> mx[m].susp]

ImplementsLock == Lock!LockSpec
=============================================================================
