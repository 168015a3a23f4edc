---------------------------- MODULE GreenPreempt ----------------------------
(***************************************************************************)
(* green.c one level below Green: the queues are threaded through the next *)
(* fields, and green_yield(), green_join() and the end of green_thread(),  *)
(* which do not block SIGVTALRM, take a step for each store to what the    *)
(* threads share and for each load of it that is used by a later step.     *)
(* The loads of one statement are one step with its store, and so is the   *)
(* walk of enq() along a list.  The timer can fire before the steps named  *)
(* in Windows, if the signal is not blocked.                               *)
(*                                                                         *)
(* running, a variable of the library, and cpu, the thread whose stack is  *)
(* in use, differ between running = next and swapcontext().  What blocks   *)
(* the signal (timer_handler() itself, green_mutex_lock() and _unlock(),   *)
(* the shared part of green_create()) is a step each.                      *)
(*                                                                         *)
(* The client is that of GreenClient, without condition variables.         *)
(***************************************************************************)
EXTENDS Naturals, Sequences, FiniteSets

CONSTANTS
  Threads, Main, Mutexes, NULL,
  Windows   \* the steps before which the timer can fire

ASSUME PreemptAssumption ==
  /\ Main \in Threads /\ NULL \notin Threads
  /\ IsFiniteSet(Threads)
  /\ "ready" \notin Mutexes

VARIABLES
  cpu,      \* the thread whose stack is in use
  running,
  links,    \* head: readyq and each mutex's suspthreads; next: of each thread
  at,       \* the next step of each thread's own code
  call,     \* the function it is in: "yield", "join", "end" or none
  handler,  \* is the thread inside timer_handler(), which is on top of at
  masked,   \* is SIGVTALRM blocked
  item,     \* local: what enq() has to add, the value of its argument
  last,     \* local: where enq() has found the end of the list
  nxt,      \* local: what deq() has returned
  target,   \* the thread it joins, or the mutex it waits for
  join, zombie, freed,
  taken,    \* field taken of each mutex
  holds,    \* the mutex a thread has locked and not unlocked
  process   \* "runs", or how it ended

locals  == <<item, last, nxt, target>>
fields  == <<join, zombie, freed>>
mutexes == <<taken, holds>>
vars == <<cpu, running, links, at, call, handler, masked, locals, fields,
          mutexes, process>>

Queues == {"ready"} \cup Mutexes

Init ==
  /\ cpu = Main /\ running = Main
  /\ links = [head |-> [q \in Queues |-> NULL], next |-> [t \in Threads |-> NULL]]
  /\ at = [t \in Threads |-> IF t = Main THEN "user" ELSE "none"]
  /\ call = [t \in Threads |-> "none"]
  /\ handler = [t \in Threads |-> FALSE]
  /\ masked = [t \in Threads |-> FALSE]
  /\ item = [t \in Threads |-> NULL]
  /\ last = [t \in Threads |-> NULL]
  /\ nxt = [t \in Threads |-> NULL]
  /\ target = [t \in Threads |-> NULL]
  /\ join = [t \in Threads |-> NULL]
  /\ zombie = [t \in Threads |-> FALSE]
  /\ freed = [t \in Threads |-> FALSE]
  /\ taken = [m \in Mutexes |-> FALSE]
  /\ holds = [t \in Threads |-> {}]
  /\ process = "runs"

-----------------------------------------------------------------------------
(* Lists.                                                                  *)

\* The n-th thread of a list, NULL past its end.
Nth(l, q) ==
  LET f[n \in 0 .. Cardinality(Threads)] ==
        IF n = 0 THEN l.head[q]
        ELSE IF f[n - 1] = NULL THEN NULL ELSE l.next[f[n - 1]]
  IN f

\* A list with more entries than there are threads has a cycle.
Endless(l, q) == Nth(l, q)[Cardinality(Threads)] # NULL

Members(l, q) ==
  {Nth(l, q)[n] : n \in 0 .. Cardinality(Threads)} \ {NULL}

\* The walk of enq(): the thread without a next, or NULL in an empty list.
EndOf(l, q) ==
  IF l.head[q] = NULL THEN NULL
  ELSE CHOOSE t \in Members(l, q) : l.next[t] = NULL

\* The store of enq().
Link(l, q, end, t) ==
  IF end = NULL THEN [l EXCEPT !.head[q] = t] ELSE [l EXCEPT !.next[end] = t]

\* Mutant of Enq: the new thread goes in front.
Enq_Front(l, q, t) == [l EXCEPT !.head[q] = t, !.next[t] = l.head[q]]

Enq(l, q, t) == Link(l, q, EndOf(l, q), t)

\* Mutant of Deq: thread->next = NULL is forgotten.
Deq_KeepsNext(l, q) ==
  IF l.head[q] = NULL THEN l
  ELSE [l EXCEPT !.head[q] = l.next[l.head[q]]]

\* What deq() leaves; what it returns is l.head[q].
Deq(l, q) ==
  IF l.head[q] = NULL THEN l
  ELSE [l EXCEPT !.head[q] = l.next[l.head[q]], !.next[l.head[q]] = NULL]

-----------------------------------------------------------------------------
(* Steps.                                                                  *)

Executes(t, place) ==
  process = "runs" /\ cpu = t /\ ~handler[t] /\ at[t] = place

GoesTo(t, place) == at' = [at EXCEPT ![t] = place]

\* The thread is back in its own code, and its locals are gone.
Leaves(t) ==
  /\ GoesTo(t, "user")
  /\ call' = [call EXCEPT ![t] = "none"]
  /\ target' = [target EXCEPT ![t] = NULL]

Dies(how) == process' = how /\ UNCHANGED cpu

(***************************************************************************)
(* swapcontext() or setcontext() to thread n.  A thread that has ended, or *)
(* whose context has been freed, has nothing to go on with.                *)
(***************************************************************************)
SwitchTo(n) ==
  IF n = NULL THEN Dies("segv")
  ELSE IF freed[n] \/ at'[n] = "done" THEN Dies("undefined")
  ELSE cpu' = n /\ UNCHANGED process

\* green_create() by a thread, of one that does not exist yet.
Create(t, new) ==
  /\ Executes(t, "user")
  /\ at[new] = "none"
  /\ GoesTo(new, "new")
  /\ masked' = [masked EXCEPT ![new] = masked[t], ![t] = FALSE]
  /\ IF Endless(links, "ready")
     THEN Dies("hangs") /\ UNCHANGED links
     ELSE links' = Enq(links, "ready", new) /\ UNCHANGED <<cpu, process>>
  /\ UNCHANGED <<running, call, handler, locals, fields, mutexes>>

Start(t) ==
  /\ Executes(t, "new")
  /\ GoesTo(t, "user")
  /\ masked' = [masked EXCEPT ![t] = TRUE]
  /\ UNCHANGED <<cpu, running, links, call, handler, locals, fields, mutexes, process>>

\* A thread enters a function of the library, or its own returns.
Enter(t, function, place) ==
  /\ Executes(t, "user")
  /\ call' = [call EXCEPT ![t] = function]
  /\ GoesTo(t, place)

Yield(t) ==
  /\ Enter(t, "yield", "walk")
  /\ item' = [item EXCEPT ![t] = running]
  /\ UNCHANGED <<cpu, running, links, handler, masked, last, nxt, target, fields,
                 mutexes, process>>

\* Mutant of Exit: nobody is made ready.
Exit_Forgets(t) ==
  /\ t # Main /\ holds[t] = {}
  /\ Enter(t, "end", "wake")
  /\ UNCHANGED <<cpu, running, links, handler, masked, locals, fields, mutexes, process>>

\* The function of a thread returns, and who waits for that is read.
Exit(t) ==
  /\ t # Main /\ holds[t] = {}
  /\ Enter(t, "end", "wake")
  /\ item' = [item EXCEPT ![t] = join[t]]
  /\ UNCHANGED <<cpu, running, links, handler, masked, last, nxt, target, fields,
                 mutexes, process>>

\* Main joins each thread once.
Join(u) ==
  /\ holds[Main] = {}
  /\ u # Main /\ at[u] # "none" /\ ~freed[u]
  /\ Enter(Main, "join", "test")
  /\ target' = [target EXCEPT ![Main] = u]
  /\ UNCHANGED <<cpu, running, links, handler, masked, item, last, nxt, fields,
                 mutexes, process>>

\* if (!thread->zombie)
Test(t) ==
  /\ Executes(t, "test")
  /\ GoesTo(t, IF zombie[target[t]] THEN "free" ELSE "note")
  /\ UNCHANGED <<cpu, running, links, call, handler, masked, locals, fields,
                 mutexes, process>>

\* Mutant of Note: the joining thread is not noted.
Note_Forgotten(t) ==
  /\ Executes(t, "note")
  /\ GoesTo(t, "pop")
  /\ UNCHANGED <<cpu, running, links, call, handler, masked, locals, fields, mutexes, process>>

\* thread->join = susp
Note(t) ==
  /\ Executes(t, "note")
  /\ join' = [join EXCEPT ![target[t]] = running]
  /\ GoesTo(t, "pop")
  /\ UNCHANGED <<cpu, running, links, call, handler, masked, locals, zombie, freed,
                 mutexes, process>>

\* enq() up to its store, in green_yield() or at the end of green_thread().
Walk(t) ==
  /\ Executes(t, "walk") \/ Executes(t, "wake")
  /\ IF Endless(links, "ready")
     THEN Dies("hangs") /\ UNCHANGED <<at, last>>
     ELSE /\ last' = [last EXCEPT ![t] = EndOf(links, "ready")]
          /\ GoesTo(t, "link")
          /\ UNCHANGED <<cpu, process>>
  /\ UNCHANGED <<running, links, call, handler, masked, item, nxt, target, fields, mutexes>>

\* The store of enq(), of a null thread too.
Store(t) ==
  /\ Executes(t, "link")
  /\ links' = Link(links, "ready", last[t], item[t])
  /\ GoesTo(t, IF call[t] = "end" THEN "zombie" ELSE "pop")
  /\ UNCHANGED <<cpu, running, call, handler, masked, locals, fields, mutexes, process>>

BecomesZombie(t) ==
  /\ Executes(t, "zombie")
  /\ zombie' = [zombie EXCEPT ![t] = TRUE]
  /\ GoesTo(t, "pop")
  /\ UNCHANGED <<cpu, running, links, call, handler, masked, locals, join, freed,
                 mutexes, process>>

\* thread = *list in deq(), which returns NULL if that is NULL.
Pop(t) ==
  /\ Executes(t, "pop")
  /\ nxt' = [nxt EXCEPT ![t] = links.head["ready"]]
  /\ GoesTo(t, IF nxt'[t] = NULL THEN "run" ELSE "take")
  /\ UNCHANGED <<cpu, running, links, call, handler, masked, item, last, target, fields,
                 mutexes, process>>

\* The first store of deq(), *list = (*list)->next, of the head that is there now.
Take(t) ==
  /\ Executes(t, "take")
  /\ IF links.head["ready"] = NULL
     THEN Dies("segv") /\ UNCHANGED <<at, links>>
     ELSE /\ links' = [links EXCEPT !.head["ready"] = links.next[@]]
          /\ GoesTo(t, "cut")
          /\ UNCHANGED <<cpu, process>>
  /\ UNCHANGED <<running, call, handler, masked, locals, fields, mutexes>>

\* Mutant of Cut: the store is forgotten.
Cut_Forgotten(t) ==
  /\ Executes(t, "cut")
  /\ GoesTo(t, "run")
  /\ UNCHANGED <<cpu, running, links, call, handler, masked, locals, fields, mutexes, process>>

\* The second store of deq(): thread->next = NULL.
Cut(t) ==
  /\ Executes(t, "cut")
  /\ links' = [links EXCEPT !.next[nxt[t]] = NULL]
  /\ GoesTo(t, "run")
  /\ UNCHANGED <<cpu, running, call, handler, masked, locals, fields, mutexes, process>>

\* Mutant of Run: running is left as it was.
Run_Forgotten(t) ==
  /\ Executes(t, "run")
  /\ GoesTo(t, "switch")
  /\ UNCHANGED <<cpu, running, links, call, handler, masked, locals, fields, mutexes, process>>

\* running = next
Run(t) ==
  /\ Executes(t, "run")
  /\ running' = nxt[t]
  /\ GoesTo(t, "switch")
  /\ UNCHANGED <<cpu, links, call, handler, masked, locals, fields, mutexes, process>>

\* swapcontext(), or the setcontext() of a thread that has ended.
Switch(t) ==
  /\ Executes(t, "switch")
  /\ GoesTo(t, IF call[t] = "end" THEN "done" ELSE "swapped")
  /\ SwitchTo(nxt[t])
  /\ item' = [item EXCEPT ![t] = NULL]
  /\ last' = [last EXCEPT ![t] = NULL]
  /\ nxt' = [nxt EXCEPT ![t] = NULL]
  /\ UNCHANGED <<running, links, call, handler, masked, target, fields, mutexes>>

\* The thread has the processor again: green_yield() ends, and green_join()
\* goes on to free the context of the thread it has waited for.
SwapReturns(t) ==
  /\ Executes(t, "swapped")
  /\ IF call[t] = "join" THEN GoesTo(t, "free") /\ UNCHANGED <<call, target>>
                         ELSE Leaves(t)
  /\ UNCHANGED <<cpu, running, links, handler, masked, item, last, nxt, fields,
                 mutexes, process>>

Free(t) ==
  /\ Executes(t, "free")
  /\ freed' = [freed EXCEPT ![target[t]] = TRUE]
  /\ Leaves(t)
  /\ UNCHANGED <<cpu, running, links, handler, masked, item, last, nxt, join, zombie,
                 mutexes, process>>

MainReturns ==
  /\ Executes(Main, "user")
  /\ \A u \in Threads \ {Main} : at[u] = "none" \/ freed[u]
  /\ Dies("exit")
  /\ UNCHANGED <<running, links, at, call, handler, masked, locals, fields, mutexes>>

-----------------------------------------------------------------------------
(* What runs with the signal blocked.                                      *)

(***************************************************************************)
(* timer_handler() saves the stack in use in the context of running, so if *)
(* that is another thread, the two threads are mixed up.                   *)
(***************************************************************************)
Tick(t) ==
  /\ process = "runs" /\ cpu = t /\ ~handler[t]
  /\ ~masked[t] /\ at[t] \in Windows
  /\ UNCHANGED <<at, call, locals, fields, mutexes>>
  /\ IF running # t \/ Endless(links, "ready")
     THEN /\ Dies(IF running # t THEN "mixed" ELSE "hangs")
          /\ UNCHANGED <<running, links, handler, masked>>
     ELSE LET queue == Enq(links, "ready", running)
          IN /\ links' = Deq(queue, "ready")
             /\ running' = queue.head["ready"]
             /\ handler' = [handler EXCEPT ![t] = TRUE]
             /\ masked' = [masked EXCEPT ![t] = TRUE]
             /\ SwitchTo(running')

\* The handler returns to what it interrupted.
TickReturns(t) ==
  /\ process = "runs" /\ cpu = t /\ handler[t]
  /\ handler' = [handler EXCEPT ![t] = FALSE]
  /\ masked' = [masked EXCEPT ![t] = FALSE]
  /\ UNCHANGED <<cpu, running, links, at, call, locals, fields, mutexes, process>>

Takes(t, m) == holds' = [holds EXCEPT ![t] = @ \cup {m}]

LockFree(t, m) ==
  /\ Executes(t, "user")
  /\ holds[t] = {} /\ ~taken[m]
  /\ taken' = [taken EXCEPT ![m] = TRUE]
  /\ Takes(t, m)
  /\ masked' = [masked EXCEPT ![t] = FALSE]
  /\ UNCHANGED <<cpu, running, links, at, call, handler, locals, fields, process>>

LockTaken(t, m) ==
  /\ Executes(t, "user")
  /\ holds[t] = {} /\ taken[m]
  /\ target' = [target EXCEPT ![t] = m]
  /\ masked' = [masked EXCEPT ![t] = TRUE]
  /\ UNCHANGED <<call, handler, item, last, nxt, fields, mutexes>>
  /\ IF Endless(links, m) \/ links.head["ready"] = NULL
     THEN /\ Dies(IF Endless(links, m) THEN "hangs" ELSE "assert")
          /\ UNCHANGED <<running, links, at>>
     ELSE LET queue == Enq(links, m, running)
          IN /\ links' = Deq(queue, "ready")
             /\ running' = queue.head["ready"]
             /\ GoesTo(t, "lock")
             /\ SwitchTo(running')

LockReturns(t) ==
  /\ Executes(t, "lock")
  /\ Leaves(t)
  /\ Takes(t, target[t])
  /\ masked' = [masked EXCEPT ![t] = FALSE]
  /\ UNCHANGED <<cpu, running, links, handler, item, last, nxt, fields, taken, process>>

\* Mutant of Unlock: the waiter made ready is not taken out of the mutex's list.
Unlock_Shared(t, m) ==
  /\ Executes(t, "user")
  /\ m \in holds[t]
  /\ holds' = [holds EXCEPT ![t] = @ \ {m}]
  /\ taken' = [taken EXCEPT ![m] = links.head[m] # NULL]
  /\ masked' = [masked EXCEPT ![t] = FALSE]
  /\ UNCHANGED <<running, at, call, handler, locals, fields>>
  /\ IF Endless(links, "ready")
     THEN Dies("hangs") /\ UNCHANGED links
     ELSE /\ links' = IF links.head[m] = NULL THEN links
                      ELSE Enq(links, "ready", links.head[m])
          /\ UNCHANGED <<cpu, process>>

Unlock(t, m) ==
  /\ Executes(t, "user")
  /\ m \in holds[t]
  /\ holds' = [holds EXCEPT ![t] = @ \ {m}]
  /\ taken' = [taken EXCEPT ![m] = links.head[m] # NULL]
  /\ masked' = [masked EXCEPT ![t] = FALSE]
  /\ UNCHANGED <<running, at, call, handler, locals, fields>>
  /\ IF Endless(links, "ready")
     THEN Dies("hangs") /\ UNCHANGED links
     ELSE /\ links' = IF links.head[m] = NULL THEN links
                      ELSE Enq(Deq(links, m), "ready", links.head[m])
          /\ UNCHANGED <<cpu, process>>

-----------------------------------------------------------------------------
Call(t) ==
  \/ \E new \in Threads : Create(t, new)
  \/ Yield(t)
  \/ Exit(t)
  \/ \E m \in Mutexes : LockFree(t, m) \/ LockTaken(t, m) \/ Unlock(t, m)

Continue(t) ==
  \/ Start(t)
  \/ Test(t)
  \/ Note(t)
  \/ Walk(t)
  \/ Store(t)
  \/ BecomesZombie(t)
  \/ Pop(t)
  \/ Take(t)
  \/ Cut(t)
  \/ Run(t)
  \/ Switch(t)
  \/ SwapReturns(t)
  \/ Free(t)
  \/ LockReturns(t)

Next ==
  \/ \E u \in Threads : Join(u)
  \/ MainReturns
  \/ \E t \in Threads : Call(t) \/ Continue(t) \/ Tick(t) \/ TickReturns(t)

Spec == Init /\ [][Next]_vars

-----------------------------------------------------------------------------
(* Properties.                                                             *)

\* The thread that deq() has taken from the ready queue has not run yet.
Popped == at[cpu] \in {"cut", "run", "switch"} /\ nxt[cpu] # NULL

\* The lists are lists: none has a cycle, no thread is in two of them, and a
\* thread that is in none, or at the end of one, has no next.
ListsSound ==
  process = "runs" =>
    /\ \A q \in Queues : ~Endless(links, q)
    /\ \A p, q \in Queues : p # q => Members(links, p) \cap Members(links, q) = {}
    /\ \A t \in Threads :
         \/ links.next[t] = NULL
         \/ \E q \in Queues : t \in Members(links, q)
         \/ at[cpu] = "cut" /\ nxt[cpu] = t

\* running is the thread whose stack is in use, but for the two statements
\* between which it is meant to change.
RunningRuns ==
  process = "runs" =>
    \/ running = cpu
    \/ at[cpu] = "switch" /\ running = nxt[cpu]

\* Who waits in green_join() for a thread that has ended has the processor, or
\* will have it: "place waiting (joining) thread in ready queue", green.c:86.
JoinerIsReady ==
  process = "runs" =>
    \A t \in Threads :
      at[t] = "swapped" /\ call[t] = "join" /\ at[target[t]] = "done"
        => t = cpu \/ t \in Members(links, "ready") \/ (Popped /\ t = nxt[cpu])

\* The program runs on to its end: it never switches to nothing, to a thread
\* that is over or to another thread's stack, and never loops in enq().
NeverStuck == process \in {"runs", "exit"}

-----------------------------------------------------------------------------
(* The functions of Green.  A call that has been made counts as made when  *)
(* its context switch happens, so what it has done to the lists and fields *)
(* before that is undone here.                                             *)

ItemsOf(l, q) ==
  LET length == Cardinality(Members(l, q))
  IN [n \in 1 .. length |-> Nth(l, q)[n - 1]]

Midway == at[cpu] \in {"zombie", "pop", "take", "cut", "run", "switch"}

\* The ready queue with nxt back in front and item taken off its end.
Ready ==
  LET queue == (IF Popped THEN <<nxt[cpu]>> ELSE <<>>) \o ItemsOf(links, "ready")
  IN IF Midway /\ call[cpu] # "join" /\ item[cpu] # NULL
     THEN SubSeq(queue, 1, Len(queue) - 1) ELSE queue

Place(t) ==
  CASE handler[t]         -> "tick"
    [] ~handler[t] /\ at[t] = "swapped" -> call[t]
    [] ~handler[t] /\ at[t] \in {"none", "new", "lock", "done"} -> at[t]
    [] OTHER              -> "user"

Argument(t) ==
  [cond   |-> NULL,
   mutex  |-> IF at[t] = "lock" THEN target[t] ELSE NULL,
   thread |-> IF Place(t) = "join" THEN target[t] ELSE NULL]

ContextOf(t) ==
  IF freed[t] \/ (at[Main] = "free" /\ target[Main] = t) THEN "freed"
  ELSE IF at[t] = "none" THEN "none" ELSE "live"

Library == INSTANCE GreenClient WITH
  Conds    <- {},
  WaitWith <- {},
  running  <- cpu,
  readyq   <- Ready,
  at       <- [t \in Threads |-> Place(t)],
  arg      <- [t \in Threads |-> Argument(t)],
  join     <- [u \in Threads |->
                 IF Midway /\ call[cpu] = "join" /\ u = target[cpu] THEN NULL
                 ELSE join[u]],
  zombie   <- [t \in Threads |-> zombie[t] /\ at[t] = "done"],
  context  <- [t \in Threads |-> ContextOf(t)],
  mx       <- [m \in Mutexes |-> [taken |-> taken[m], susp |-> ItemsOf(links, m)]],
  cv       <- [c \in {} |-> <<>>]

\* As long as the timer fires at none of the steps between the first and the
\* last access of a call to what threads share, each function is the one step
\* that Green takes it for, and its queues are the sequences of Green.
ImplementsGreen == Library!Spec
=============================================================================
