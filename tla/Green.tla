------------------------------- MODULE Green -------------------------------
(***************************************************************************)
(* The green thread library of "seminarium 3" (green.c): threads, the      *)
(* ready queue, the timer, mutexes and condition variables, each function  *)
(* an action of the thread that calls it.                                  *)
(*                                                                         *)
(* All threads share one processor, so at any time only the running one    *)
(* takes a step.  A function that switches ends in its swapcontext(); what *)
(* it does when the thread runs again is an action of its own, chosen by   *)
(* at[t].  Functions that block the timer signal cannot be interrupted.    *)
(* green_yield(), green_join(), green_create() before its sigprocmask()    *)
(* and the end of green_thread() do not block it; this module lets the     *)
(* timer fire between calls only, not inside those four.                   *)
(*                                                                         *)
(* A list threaded through the next fields is a sequence.  Who calls what, *)
(* and when, is for the modules that extend this one to say.               *)
(***************************************************************************)
EXTENDS Naturals, Sequences, FiniteSets

CONSTANTS
  Threads,   \* the green_t structs, main_green among them
  Main,      \* main_green
  Mutexes,
  Conds,
  NULL

ASSUME GreenAssumption ==
  /\ Main \in Threads
  /\ NULL \notin Threads \cup Mutexes \cup Conds

VARIABLES
  running,   \* the thread whose context is on the processor
  readyq,
  at,        \* where a thread is, or where it goes on when it runs again
  arg,       \* what it is waiting for: a thread, or a condition and a mutex
  masked,    \* is SIGVTALRM blocked: kept in each thread's context
  join,      \* field join: the thread that waits for this one to finish
  zombie,    \* field zombie
  context,   \* field context: "none", "live" or "freed"
  mx,        \* mutex -> its taken flag and suspthreads
  cv,        \* condition -> its suspthreads
  process    \* "runs", or how it ended: "exit", "assert", "segv"

threadVars == <<at, arg, masked>>
joinVars   == <<join, zombie, context>>
greenVars  == <<running, readyq, threadVars, joinVars, mx, cv, process>>

\* Where a thread can be: running user code, or inside a function that has
\* switched away, "wait2" being the second switch of green_cond_wait().
Places == {"none", "new", "user", "yield", "tick", "join", "lock", "wait",
           "wait2", "done"}

Nothing == [cond |-> NULL, mutex |-> NULL, thread |-> NULL]

GreenInit ==
  /\ running = Main
  /\ readyq = <<>>
  /\ at = [t \in Threads |-> IF t = Main THEN "user" ELSE "none"]
  /\ arg = [t \in Threads |-> Nothing]
  /\ masked = [t \in Threads |-> FALSE]
  /\ join = [t \in Threads |-> NULL]
  /\ zombie = [t \in Threads |-> FALSE]
  /\ context = [t \in Threads |-> IF t = Main THEN "live" ELSE "none"]
  /\ mx = [m \in Mutexes |-> [taken |-> FALSE, susp |-> <<>>]]
  /\ cv = [c \in Conds |-> <<>>]
  /\ process = "runs"

-----------------------------------------------------------------------------
(* Helpers.                                                                *)

\* Mutant of Enq: a null thread is queued like any other.
Enq_Null(queue, t) == Append(queue, t)

\* enq() of what deq() or a join field gave: a null thread changes nothing.
Enq(queue, t) == IF t = NULL THEN queue ELSE Append(queue, t)

\* What deq() returns, and what it leaves.
First(queue) == IF queue = <<>> THEN NULL ELSE Head(queue)
Rest(queue)  == IF queue = <<>> THEN <<>> ELSE Tail(queue)

\* Thread t has the processor and is at the given place.
Runs(t, place) == process = "runs" /\ running = t /\ at[t] = place

\* Mutant of Suspend: the newest ready thread runs next.
Suspend_Lifo(t, place, queue, end) ==
  /\ at' = [at EXCEPT ![t] = place]
  /\ IF queue = <<>>
     THEN process' = end /\ UNCHANGED <<running, readyq>>
     ELSE /\ running' = queue[Len(queue)]
          /\ readyq' = SubSeq(queue, 1, Len(queue) - 1)
          /\ UNCHANGED process

(***************************************************************************)
(* The thread stops here and the first of the ready queue runs.  When the  *)
(* queue is empty the process ends: on assert(next != NULL) where there is *)
(* one, else on reading next->context.                                     *)
(***************************************************************************)
Suspend(t, place, queue, end) ==
  /\ at' = [at EXCEPT ![t] = place]
  /\ IF queue = <<>>
     THEN process' = end /\ UNCHANGED <<running, readyq>>
     ELSE /\ running' = First(queue)
          /\ readyq' = Rest(queue)
          /\ UNCHANGED process

\* The thread goes on in its own code, with the timer blocked or not.
GoOn(t, blocked) ==
  /\ at' = [at EXCEPT ![t] = "user"]
  /\ masked' = [masked EXCEPT ![t] = blocked]
  /\ arg' = [arg EXCEPT ![t] = Nothing]

-----------------------------------------------------------------------------
(* Threads.                                                                *)

\* A thread that has been created inherits the signal mask of its creator.
Create(t, new) ==
  /\ Runs(t, "user")
  /\ context' = [context EXCEPT ![new] = "live"]
  /\ join' = [join EXCEPT ![new] = NULL]
  /\ zombie' = [zombie EXCEPT ![new] = FALSE]
  /\ at' = [at EXCEPT ![new] = "new"]
  /\ masked' = [masked EXCEPT ![new] = masked[t], ![t] = FALSE]
  /\ readyq' = Enq(readyq, new)
  /\ UNCHANGED <<running, arg, mx, cv, process>>

\* green_thread() up to the call of the thread's function.
Start(t) ==
  /\ Runs(t, "new")
  /\ GoOn(t, TRUE)
  /\ UNCHANGED <<running, readyq, joinVars, mx, cv, process>>

Yield(t) ==
  /\ Runs(t, "user")
  /\ Suspend(t, "yield", Enq(readyq, t), "segv")
  /\ UNCHANGED <<arg, masked, joinVars, mx, cv>>

YieldReturns(t) ==
  /\ Runs(t, "yield")
  /\ GoOn(t, masked[t])
  /\ UNCHANGED <<running, readyq, joinVars, mx, cv, process>>

\* Mutant of JoinWaits: the joining thread is not noted.
JoinWaits_NotNoted(t, u) ==
  /\ Runs(t, "user")
  /\ ~zombie[u]
  /\ arg' = [arg EXCEPT ![t].thread = u]
  /\ Suspend(t, "join", readyq, "segv")
  /\ UNCHANGED <<masked, joinVars, mx, cv>>

JoinWaits(t, u) ==
  /\ Runs(t, "user")
  /\ ~zombie[u]
  /\ join' = [join EXCEPT ![u] = t]
  /\ arg' = [arg EXCEPT ![t].thread = u]
  /\ Suspend(t, "join", readyq, "segv")
  /\ UNCHANGED <<masked, zombie, context, mx, cv>>

\* The end of green_join(): zombie or not, the context is freed.
JoinReturns(t) ==
  /\ Runs(t, "join")
  /\ context' = [context EXCEPT ![arg[t].thread] = "freed"]
  /\ GoOn(t, masked[t])
  /\ UNCHANGED <<running, readyq, join, zombie, mx, cv, process>>

\* Mutant of JoinZombie: the thread to join may still be at work.
JoinZombie_Unchecked(t, u) ==
  /\ Runs(t, "user")
  /\ context' = [context EXCEPT ![u] = "freed"]
  /\ UNCHANGED <<running, readyq, threadVars, join, zombie, mx, cv, process>>

\* The thread to join is a zombie already: the caller does not wait.
JoinZombie(t, u) ==
  /\ Runs(t, "user")
  /\ zombie[u]
  /\ context' = [context EXCEPT ![u] = "freed"]
  /\ UNCHANGED <<running, readyq, threadVars, join, zombie, mx, cv, process>>

\* Mutant of Exit: the joining thread is not made ready.
Exit_NoJoin(t) ==
  /\ Runs(t, "user")
  /\ zombie' = [zombie EXCEPT ![t] = TRUE]
  /\ Suspend(t, "done", readyq, "segv")
  /\ UNCHANGED <<arg, masked, join, context, mx, cv>>

\* The thread's function has returned: the rest of green_thread().
Exit(t) ==
  /\ Runs(t, "user")
  /\ t # Main
  /\ zombie' = [zombie EXCEPT ![t] = TRUE]
  /\ Suspend(t, "done", Enq(readyq, join[t]), "segv")
  /\ UNCHANGED <<arg, masked, join, context, mx, cv>>

\* main() returns: the process is over.
MainReturns ==
  /\ Runs(Main, "user")
  /\ process' = "exit"
  /\ UNCHANGED <<running, readyq, threadVars, joinVars, mx, cv>>

-----------------------------------------------------------------------------
(* The timer.                                                              *)

\* timer_handler() interrupts user code; the signal is blocked inside it.
Tick(t) ==
  /\ Runs(t, "user")
  /\ ~masked[t]
  /\ masked' = [masked EXCEPT ![t] = TRUE]
  /\ Suspend(t, "tick", Enq(readyq, t), "segv")
  /\ UNCHANGED <<arg, joinVars, mx, cv>>

\* The handler returns to the code it interrupted.
TickReturns(t) ==
  /\ Runs(t, "tick")
  /\ GoOn(t, FALSE)
  /\ UNCHANGED <<running, readyq, joinVars, mx, cv, process>>

-----------------------------------------------------------------------------
(* Mutexes.                                                                *)

MutexInit(t, m) ==
  /\ Runs(t, "user")
  /\ mx' = [mx EXCEPT ![m] = [taken |-> FALSE, susp |-> <<>>]]
  /\ UNCHANGED <<running, readyq, threadVars, joinVars, cv, process>>

LockFree(t, m) ==
  /\ Runs(t, "user")
  /\ ~mx[m].taken
  /\ mx' = [mx EXCEPT ![m].taken = TRUE]
  /\ masked' = [masked EXCEPT ![t] = FALSE]
  /\ UNCHANGED <<running, readyq, at, arg, joinVars, cv, process>>

\* Mutant of LockTaken: the newest waiter is the first in the queue.
LockTaken_Front(t, m) ==
  /\ Runs(t, "user")
  /\ mx[m].taken
  /\ mx' = [mx EXCEPT ![m].susp = <<t>> \o @]
  /\ arg' = [arg EXCEPT ![t].mutex = m]
  /\ masked' = [masked EXCEPT ![t] = TRUE]
  /\ Suspend(t, "lock", readyq, "assert")
  /\ UNCHANGED <<joinVars, cv>>

LockTaken(t, m) ==
  /\ Runs(t, "user")
  /\ mx[m].taken
  /\ mx' = [mx EXCEPT ![m].susp = Enq(@, t)]
  /\ arg' = [arg EXCEPT ![t].mutex = m]
  /\ masked' = [masked EXCEPT ![t] = TRUE]
  /\ Suspend(t, "lock", readyq, "assert")
  /\ UNCHANGED <<joinVars, cv>>

\* The waiter goes on as the owner, without looking at taken again.
LockReturns(t) ==
  /\ Runs(t, "lock")
  /\ GoOn(t, FALSE)
  /\ UNCHANGED <<running, readyq, joinVars, mx, cv, process>>

\* Mutant of Unlock: the mutex is free although it has been handed over.
Unlock_Free(t, m) ==
  /\ Runs(t, "user")
  /\ masked' = [masked EXCEPT ![t] = FALSE]
  /\ readyq' = Enq(readyq, First(mx[m].susp))
  /\ mx' = [mx EXCEPT ![m] = [taken |-> FALSE, susp |-> Rest(@.susp)]]
  /\ UNCHANGED <<running, at, arg, joinVars, cv, process>>

\* Mutant of Unlock: nobody is made ready.
Unlock_NoWake(t, m) ==
  /\ Runs(t, "user")
  /\ masked' = [masked EXCEPT ![t] = FALSE]
  /\ mx' = [mx EXCEPT ![m].taken = FALSE]
  /\ UNCHANGED <<running, readyq, at, arg, joinVars, cv, process>>

\* Mutant of Unlock: the mutex stays taken when nobody waits for it.
Unlock_Kept(t, m) ==
  /\ Runs(t, "user")
  /\ masked' = [masked EXCEPT ![t] = FALSE]
  /\ readyq' = Enq(readyq, First(mx[m].susp))
  /\ mx' = [mx EXCEPT ![m].susp = Rest(@)]
  /\ UNCHANGED <<running, at, arg, joinVars, cv, process>>

\* A waiter is handed the mutex, which stays taken.
Unlock(t, m) ==
  /\ Runs(t, "user")
  /\ masked' = [masked EXCEPT ![t] = FALSE]
  /\ readyq' = Enq(readyq, First(mx[m].susp))
  /\ mx' = [mx EXCEPT ![m] = [taken |-> @.taken /\ @.susp # <<>>,
                               susp  |-> Rest(@.susp)]]
  /\ UNCHANGED <<running, at, arg, joinVars, cv, process>>

-----------------------------------------------------------------------------
(* Condition variables.                                                    *)

CondInit(t, c) ==
  /\ Runs(t, "user")
  /\ cv' = [cv EXCEPT ![c] = <<>>]
  /\ masked' = [masked EXCEPT ![t] = FALSE]
  /\ UNCHANGED <<running, readyq, at, arg, joinVars, mx, process>>

\* Mutant of CondWait: the waiter made ready stays in the mutex's queue.
CondWait_Kept(t, c, m) ==
  /\ Runs(t, "user")
  /\ cv' = [cv EXCEPT ![c] = Enq(@, t)]
  /\ arg' = [arg EXCEPT ![t] = [@ EXCEPT !.cond = c, !.mutex = m]]
  /\ masked' = [masked EXCEPT ![t] = TRUE]
  /\ IF m = NULL
     THEN Suspend(t, "wait", readyq, "assert") /\ UNCHANGED mx
     ELSE /\ mx' = [mx EXCEPT ![m].taken = FALSE]
          /\ Suspend(t, "wait", Enq(readyq, First(mx[m].susp)), "assert")
  /\ UNCHANGED joinVars

\* green_cond_wait() up to its swapcontext().  With a mutex: it is released,
\* its first waiter is made ready, and its other waiters are forgotten.
CondWait(t, c, m) ==
  /\ Runs(t, "user")
  /\ cv' = [cv EXCEPT ![c] = Enq(@, t)]
  /\ arg' = [arg EXCEPT ![t] = [@ EXCEPT !.cond = c, !.mutex = m]]
  /\ masked' = [masked EXCEPT ![t] = TRUE]
  /\ IF m = NULL
     THEN Suspend(t, "wait", readyq, "assert") /\ UNCHANGED mx
     ELSE /\ mx' = [mx EXCEPT ![m] = [taken |-> FALSE, susp |-> <<>>]]
          /\ Suspend(t, "wait", Enq(readyq, First(mx[m].susp)), "assert")
  /\ UNCHANGED joinVars

\* Woken: the thread takes the mutex, when there is one and it is free.
WaitReturns(t) ==
  /\ Runs(t, "wait")
  /\ arg[t].mutex # NULL => ~mx[arg[t].mutex].taken
  /\ mx' = [m \in Mutexes |->
              IF m = arg[t].mutex THEN [mx[m] EXCEPT !.taken = TRUE] ELSE mx[m]]
  /\ GoOn(t, FALSE)
  /\ UNCHANGED <<running, readyq, joinVars, cv, process>>

\* "bad luck": the mutex is taken, so the thread waits for another signal.
WaitsAgain(t) ==
  /\ Runs(t, "wait")
  /\ arg[t].mutex # NULL /\ mx[arg[t].mutex].taken
  /\ cv' = [cv EXCEPT ![arg[t].cond] = Enq(@, t)]
  /\ Suspend(t, "wait2", readyq, "segv")
  /\ UNCHANGED <<arg, masked, joinVars, mx>>

\* After that signal it goes on, whatever has become of the mutex.
Wait2Returns(t) ==
  /\ Runs(t, "wait2")
  /\ GoOn(t, FALSE)
  /\ UNCHANGED <<running, readyq, joinVars, mx, cv, process>>

\* Nobody waits: the function returns with the timer still blocked.
SignalNobody(t, c) ==
  /\ Runs(t, "user")
  /\ cv[c] = <<>>
  /\ masked' = [masked EXCEPT ![t] = TRUE]
  /\ UNCHANGED <<running, readyq, at, arg, joinVars, mx, cv, process>>

\* Mutant of Signal: the thread made ready stays in the condition's queue.
Signal_Kept(t, c) ==
  /\ Runs(t, "user")
  /\ cv[c] # <<>>
  /\ readyq' = Enq(readyq, First(cv[c]))
  /\ masked' = [masked EXCEPT ![t] = FALSE]
  /\ UNCHANGED <<running, at, arg, joinVars, mx, cv, process>>

Signal(t, c) ==
  /\ Runs(t, "user")
  /\ cv[c] # <<>>
  /\ readyq' = Enq(readyq, First(cv[c]))
  /\ cv' = [cv EXCEPT ![c] = Rest(@)]
  /\ masked' = [masked EXCEPT ![t] = FALSE]
  /\ UNCHANGED <<running, at, arg, joinVars, mx, process>>

-----------------------------------------------------------------------------
\* What a thread does first when it runs again.
Resume(t) ==
  \/ Start(t)
  \/ YieldReturns(t)
  \/ JoinReturns(t)
  \/ TickReturns(t)
  \/ LockReturns(t)
  \/ WaitReturns(t)
  \/ WaitsAgain(t)
  \/ Wait2Returns(t)

-----------------------------------------------------------------------------
\* The queue entries and join fields that will make thread t run again.
Slots(t) ==
  {<<"ready", NULL, i>> : i \in {j \in DOMAIN readyq : readyq[j] = t}}
    \cup (UNION {{<<"mutex", m, i>> : i \in {j \in DOMAIN mx[m].susp : mx[m].susp[j] = t}}
                   : m \in Mutexes})
    \cup (UNION {{<<"cond", c, i>> : i \in {j \in DOMAIN cv[c] : cv[c][j] = t}}
                   : c \in Conds})
    \cup {<<"join", u, 0>> : u \in {v \in Threads : join[v] = t /\ ~zombie[v]}}

\* No thread is queued twice, and the running one is not queued at all: the
\* next field threads one list at a time, so a second entry would cut or tie
\* together the lists it is in.  (That none is forgotten is another matter:
\* see OneHome in GreenClient.)
QueuedOnce ==
  process = "runs" =>
    \A t \in Threads :
      Cardinality(Slots(t)) <=
        IF t = running \/ at[t] \in {"none", "done"} THEN 0 ELSE 1
=============================================================================
