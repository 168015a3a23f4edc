---------------------------- MODULE GreenQueues ----------------------------
(***************************************************************************)
(* The queues of the green thread library, whatever program calls it: no   *)
(* function puts a thread into two queues, or twice into one.              *)
(***************************************************************************)
EXTENDS Green, SequenceTheorems, FiniteSetTheorems, TLAPS

-----------------------------------------------------------------------------
(* Queues as sequences.                                                    *)

Has(queue, t) == \E i \in DOMAIN queue : queue[i] = t

Once(queue) == \A i, j \in DOMAIN queue : queue[i] = queue[j] => i = j

\* enq() of a thread adds it, at the end, and nothing else.
LEMMA EnqQueue ==
  ASSUME NEW queue \in Seq(Threads), NEW t \in Threads
  PROVE  /\ Enq(queue, t) = Append(queue, t)
         /\ Enq(queue, t) \in Seq(Threads) /\ Enq(queue, t) # <<>>
         /\ \A u : Has(Enq(queue, t), u) <=> Has(queue, u) \/ u = t
         /\ Once(queue) /\ ~Has(queue, t) => Once(Enq(queue, t))
<1> DEFINE q == Append(queue, t)
           n == Len(queue)
<1>1. Enq(queue, t) = q
  BY GreenAssumption DEF GreenAssumption, Enq
<1>2. /\ q \in Seq(Threads) /\ q # <<>> /\ Len(q) = n + 1 /\ n \in Nat
      /\ \A i \in 1 .. n : q[i] = queue[i]
      /\ q[n + 1] = t
  BY AppendProperties, LenProperties
<1>3. DOMAIN queue = 1 .. n /\ DOMAIN q = 1 .. n + 1
  BY <1>2, LenProperties
<1> HIDE DEF q, n
<1>4. \A u : Has(q, u) <=> Has(queue, u) \/ u = t
  <2> SUFFICES ASSUME NEW u PROVE Has(q, u) <=> Has(queue, u) \/ u = t
    OBVIOUS
  <2>1. ASSUME Has(q, u) PROVE Has(queue, u) \/ u = t
    <3>1. PICK i \in 1 .. n + 1 : q[i] = u
      BY <2>1, <1>3 DEF Has
    <3>2. i = n + 1 \/ i \in 1 .. n
      BY <1>2
    <3> QED
      BY <3>1, <3>2, <1>2, <1>3 DEF Has
  <2>2. ASSUME Has(queue, u) PROVE Has(q, u)
    BY <2>2, <1>2, <1>3 DEF Has
  <2>3. Has(q, t)
    BY <1>2, <1>3 DEF Has
  <2> QED
    BY <2>1, <2>2, <2>3
<1>5. ASSUME Once(queue), ~Has(queue, t) PROVE Once(q)
  <2> SUFFICES ASSUME NEW i \in 1 .. n + 1, NEW j \in 1 .. n + 1, q[i] = q[j]
               PROVE  i = j
    BY <1>3 DEF Once
  <2>1. (i = n + 1 \/ i \in 1 .. n) /\ (j = n + 1 \/ j \in 1 .. n)
    BY <1>2
  <2> QED
    BY <2>1, <1>2, <1>3, <1>5 DEF Once, Has
<1> QED
  BY <1>1, <1>2, <1>4, <1>5 DEF q

\* enq() of nobody leaves a queue alone.
LEMMA EnqNobody ==
  ASSUME NEW queue PROVE Enq(queue, NULL) = queue
BY DEF Enq

\* deq() takes one thread out of a queue and leaves the others.
LEMMA DeqQueue ==
  ASSUME NEW queue \in Seq(Threads), queue # <<>>
  PROVE  /\ First(queue) = Head(queue) /\ Rest(queue) = Tail(queue)
         /\ First(queue) \in Threads /\ Has(queue, First(queue))
         /\ Rest(queue) \in Seq(Threads)
         /\ \A u : Has(Rest(queue), u) => Has(queue, u)
         /\ \A u : Has(queue, u) => u = First(queue) \/ Has(Rest(queue), u)
         /\ Once(queue) => Once(Rest(queue)) /\ ~Has(Rest(queue), First(queue))
<1> DEFINE q == Tail(queue)
           n == Len(queue)
<1>1. First(queue) = Head(queue) /\ Rest(queue) = q
  BY DEF First, Rest
<1>2. /\ n \in Nat \ {0} /\ DOMAIN queue = 1 .. n /\ q \in Seq(Threads)
      /\ DOMAIN q = 1 .. n - 1
      /\ \A i \in 1 .. n - 1 : q[i] = queue[i + 1]
      /\ Head(queue) \in Threads /\ Head(queue) = queue[1]
  BY HeadTailProperties, LenProperties, EmptySeq
<1> HIDE DEF q, n
<1>3. Has(queue, Head(queue))
  BY <1>2 DEF Has
<1>4. ASSUME NEW u, Has(q, u) PROVE Has(queue, u)
  <2>1. PICK i \in 1 .. n - 1 : q[i] = u
    BY <1>2, <1>4 DEF Has
  <2>2. i + 1 \in 1 .. n /\ queue[i + 1] = u
    BY <2>1, <1>2
  <2> QED
    BY <2>2, <1>2 DEF Has
<1>5. ASSUME NEW u, Has(queue, u) PROVE u = Head(queue) \/ Has(q, u)
  <2>1. PICK i \in 1 .. n : queue[i] = u
    BY <1>2, <1>5 DEF Has
  <2>2. CASE i = 1
    BY <2>1, <2>2, <1>2
  <2>3. CASE i # 1
    <3>1. i - 1 \in 1 .. n - 1 /\ q[i - 1] = queue[i]
      BY <2>3, <1>2
    <3> QED
      BY <3>1, <2>1, <1>2 DEF Has
  <2> QED
    BY <2>2, <2>3
<1>6. ASSUME Once(queue) PROVE Once(q) /\ ~Has(q, Head(queue))
  <2>1. \A i \in 1 .. n - 1 : i + 1 \in 1 .. n /\ i + 1 # 1
    BY <1>2
  <2>2. ASSUME NEW i \in 1 .. n - 1, q[i] = Head(queue) PROVE FALSE
    <3>1. i + 1 \in DOMAIN queue /\ 1 \in DOMAIN queue /\ queue[i + 1] = queue[1]
      BY <2>1, <2>2, <1>2
    <3>2. i + 1 = 1
      BY <3>1, <1>6, Zenon DEF Once
    <3> QED
      BY <3>2, <2>1
  <2>3. ASSUME NEW i \in 1 .. n - 1, NEW j \in 1 .. n - 1, q[i] = q[j] PROVE i = j
    <3>1. /\ i + 1 \in DOMAIN queue /\ j + 1 \in DOMAIN queue
          /\ queue[i + 1] = queue[j + 1]
      BY <2>1, <2>3, <1>2
    <3>2. i + 1 = j + 1
      BY <3>1, <1>6, Zenon DEF Once
    <3> QED
      BY <3>2, <1>2
  <2> QED
    BY <2>2, <2>3, <1>2 DEF Once, Has
<1> QED
  BY <1>1, <1>2, <1>3, <1>4, <1>5, <1>6

LEMMA EmptyQueue ==
  /\ <<>> \in Seq(Threads) /\ Once(<<>>) /\ \A u : ~Has(<<>>, u)
  /\ First(<<>>) = NULL /\ Rest(<<>>) = <<>>
<1>1. DOMAIN << >> = {} /\ <<>> \in Seq(Threads)
  BY EmptySeq
<1> QED
  BY <1>1 DEF Once, Has, First, Rest

-----------------------------------------------------------------------------
(* The invariant.                                                          *)

Arguments == [cond   : Conds \cup {NULL},
              mutex  : Mutexes \cup {NULL},
              thread : Threads \cup {NULL}]

GreenTyped ==
  /\ running \in Threads
  /\ readyq \in Seq(Threads)
  /\ at \in [Threads -> Places]
  /\ arg \in [Threads -> Arguments]
  /\ masked \in [Threads -> BOOLEAN]
  /\ join \in [Threads -> Threads \cup {NULL}]
  /\ zombie \in [Threads -> BOOLEAN]
  /\ context \in [Threads -> {"none", "live", "freed"}]
  /\ mx \in [Mutexes -> [taken : BOOLEAN, susp : Seq(Threads)]]
  /\ cv \in [Conds -> Seq(Threads)]
  /\ process \in {"runs", "exit", "assert", "segv"}

\* A thread is a zombie from its end on.
Zombies == \A t \in Threads : zombie[t] <=> at[t] = "done"

\* A thread inside a function that waits knows what it waits for.
Errands ==
  \A t \in Threads :
    /\ at[t] = "lock" => arg[t].mutex \in Mutexes
    /\ at[t] \in {"wait", "wait2"} => arg[t].cond \in Conds
    /\ at[t] = "join" => arg[t].thread \in Threads

\* Thread t will be made ready by the end of thread u.
Joins(t, u) == join[u] = t /\ ~zombie[u]

\* The queues when the ready queue is as given: it has threads that have been
\* switched away from, and each other queue has threads that wait for it and
\* are not ready.
ReadySound(queue) ==
  /\ Once(queue)
  /\ \A t \in Threads : Has(queue, t) => at[t] \notin {"user", "none", "done"}

MutexesSound(queue) ==
  \A m \in Mutexes :
    /\ Once(mx[m].susp)
    /\ \A t \in Threads : Has(mx[m].susp, t) =>
         at[t] = "lock" /\ arg[t].mutex = m /\ ~Has(queue, t)

CondsSound(queue) ==
  \A c \in Conds :
    /\ Once(cv[c])
    /\ \A t \in Threads : Has(cv[c], t) =>
         at[t] \in {"wait", "wait2"} /\ arg[t].cond = c /\ ~Has(queue, t)

JoinsSound(queue) ==
  \A t, u \in Threads : Joins(t, u) =>
    at[t] = "join" /\ arg[t].thread = u /\ ~Has(queue, t)

Placed(queue) ==
  /\ ReadySound(queue)
  /\ MutexesSound(queue)
  /\ CondsSound(queue)
  /\ JoinsSound(queue)

\* Thread t is in no queue, and no thread's end will make it ready.
Nowhere(t) ==
  /\ ~Has(readyq, t)
  /\ \A m \in Mutexes : ~Has(mx[m].susp, t)
  /\ \A c \in Conds : ~Has(cv[c], t)
  /\ \A u \in Threads : ~Joins(t, u)

RunsAlone == at[running] \notin {"none", "done"} /\ Nowhere(running)

QueueInv ==
  /\ GreenTyped
  /\ Zombies
  /\ Errands
  /\ process = "runs" => Placed(readyq) /\ RunsAlone

\* One call or one return of the library, by whatever thread is running.
LibraryStep ==
  \/ MainReturns
  \/ \E t \in Threads :
       \/ Yield(t) \/ Exit(t) \/ Tick(t) \/ Resume(t)
       \/ \E new \in Threads : at[new] = "none" /\ Create(t, new)
       \/ \E u \in Threads : JoinWaits(t, u) \/ JoinZombie(t, u)
       \/ \E m \in Mutexes :
            MutexInit(t, m) \/ LockFree(t, m) \/ LockTaken(t, m) \/ Unlock(t, m)
       \/ \E c \in Conds :
            \/ CondInit(t, c) \/ SignalNobody(t, c) \/ Signal(t, c)
            \/ \E m \in Mutexes \cup {NULL} : CondWait(t, c, m)

-----------------------------------------------------------------------------
(* Switching to the next thread.                                           *)

\* The state before a step: the library runs, thread t calls or returns, and
\* the invariant holds.
Before(t, place) ==
  /\ GreenTyped /\ Zombies /\ Errands /\ Placed(readyq) /\ Nowhere(t)
  /\ t \in Threads /\ t = running /\ process = "runs" /\ at[t] = place

LEMMA ArgumentsTyped ==
  ASSUME NEW a \in Arguments
  PROVE  /\ \A c \in Conds, m \in Mutexes \cup {NULL} :
              [a EXCEPT !.cond = c, !.mutex = m] \in Arguments
         /\ \A m \in Mutexes : [a EXCEPT !.mutex = m] \in Arguments
         /\ \A u \in Threads \cup {NULL} : [a EXCEPT !.thread = u] \in Arguments
         /\ Nothing \in Arguments
BY DEF Arguments, Nothing

LEMMA BeforeStep ==
  ASSUME QueueInv, NEW t \in Threads, NEW place, Runs(t, place)
  PROVE  Before(t, place)
BY DEF QueueInv, Runs, RunsAlone, Before

\* What is sound for the queue a thread leaves behind is sound for the ready
\* queue once its first thread has been taken out and runs.
LEMMA SuspendSound ==
  ASSUME NEW t \in Threads, NEW place, NEW queue \in Seq(Threads), NEW end,
         running \in Threads, readyq \in Seq(Threads), process = "runs",
         end # "runs", Suspend(t, place, queue, end),
         Placed(queue)'
  PROVE  /\ running' \in Threads /\ readyq' \in Seq(Threads)
         /\ process' \in {"runs", end}
         /\ process' = "runs" => Placed(readyq)' /\ RunsAlone'
<1>1. CASE queue = <<>>
  BY <1>1 DEF Suspend
<1>2. CASE queue # <<>>
  <2>1. running' = First(queue) /\ readyq' = Rest(queue) /\ process' = process
    BY <1>2 DEF Suspend
  <2>2. /\ running' \in Threads /\ Has(queue, running')
        /\ readyq' \in Seq(Threads)
        /\ \A u : Has(readyq', u) => Has(queue, u)
        /\ Once(queue) => Once(readyq') /\ ~Has(readyq', running')
    BY <1>2, <2>1, DeqQueue
  <2>3. ReadySound(readyq)'
    BY <2>2 DEF Placed, ReadySound
  <2>4. MutexesSound(readyq)'
    BY <2>2 DEF Placed, MutexesSound
  <2>5. CondsSound(readyq)'
    BY <2>2 DEF Placed, CondsSound
  <2>6. JoinsSound(readyq)'
    BY <2>2 DEF Placed, JoinsSound
  <2>7. (at[running] \notin {"none", "done"})'
    BY <2>2 DEF Placed, ReadySound
  <2>8. Nowhere(running)'
    BY <2>2 DEF Placed, ReadySound, MutexesSound, CondsSound, JoinsSound, Nowhere
  <2> QED
    BY <2>1, <2>2, <2>3, <2>4, <2>5, <2>6, <2>7, <2>8 DEF Placed, RunsAlone
<1> QED
  BY <1>1, <1>2

-----------------------------------------------------------------------------
(* The calls that switch.                                                  *)

LEMMA YieldOrTick ==
  ASSUME QueueInv, NEW t \in Threads, Yield(t) \/ Tick(t)
  PROVE  QueueInv'
<1>1. Before(t, "user")
  BY BeforeStep DEF Yield, Tick
<1>2. PICK queue : queue = Enq(readyq, t)
  OBVIOUS
<1>3. PICK place \in {"yield", "tick"} : Suspend(t, place, queue, "segv")
  BY <1>2 DEF Yield, Tick
<1>4. /\ queue \in Seq(Threads) /\ Once(queue)
      /\ \A u : Has(queue, u) <=> Has(readyq, u) \/ u = t
  BY <1>1, <1>2, EnqQueue DEF Before, GreenTyped, Placed, ReadySound, Nowhere
<1>5. /\ UNCHANGED <<arg, joinVars, mx, cv>> /\ at' = [at EXCEPT ![t] = place]
      /\ masked' \in [Threads -> BOOLEAN]
  BY <1>1, <1>3 DEF Yield, Tick, Suspend, Before, GreenTyped
<1>6. Placed(queue)'
  <2>1. ReadySound(queue)'
    BY <1>1, <1>3, <1>4, <1>5 DEF Before, GreenTyped, Placed, ReadySound
  <2>2. MutexesSound(queue)'
    BY <1>1, <1>4, <1>5 DEF Before, GreenTyped, Placed, MutexesSound, Nowhere
  <2>3. CondsSound(queue)'
    BY <1>1, <1>4, <1>5 DEF Before, GreenTyped, Placed, CondsSound, Nowhere
  <2>4. JoinsSound(queue)'
    BY <1>1, <1>4, <1>5 DEF Before, GreenTyped, Placed, JoinsSound, Nowhere, Joins, joinVars
  <2> QED
    BY <2>1, <2>2, <2>3, <2>4 DEF Placed
<1>7. /\ running' \in Threads /\ readyq' \in Seq(Threads)
      /\ process' \in {"runs", "segv"}
      /\ process' = "runs" => Placed(readyq)' /\ RunsAlone'
  BY <1>1, <1>3, <1>4, <1>6, SuspendSound DEF Before, GreenTyped
<1>8. GreenTyped'
  BY <1>1, <1>3, <1>5, <1>7 DEF Before, GreenTyped, Places, joinVars
<1>9. Zombies' /\ Errands'
  BY <1>1, <1>3, <1>5 DEF Before, GreenTyped, Zombies, Errands, joinVars
<1> QED
  BY <1>7, <1>8, <1>9 DEF QueueInv

LEMMA JoinWaitsStep ==
  ASSUME QueueInv, NEW t \in Threads, NEW u \in Threads, JoinWaits(t, u)
  PROVE  QueueInv'
<1>1. Before(t, "user")
  BY BeforeStep DEF JoinWaits
<1>2. PICK queue : queue = readyq
  OBVIOUS
<1>3. /\ Suspend(t, "join", queue, "segv")
      /\ at' = [at EXCEPT ![t] = "join"]
      /\ arg' = [arg EXCEPT ![t].thread = u]
      /\ join' = [join EXCEPT ![u] = t]
      /\ UNCHANGED <<masked, zombie, context, mx, cv>>
  BY <1>2 DEF JoinWaits, Suspend
<1>4. Placed(queue)'
  <2>1. ReadySound(queue)'
    BY <1>1, <1>2, <1>3 DEF Before, GreenTyped, Placed, ReadySound
  <2>2. MutexesSound(queue)'
    BY <1>1, <1>2, <1>3 DEF Before, GreenTyped, Placed, MutexesSound, Nowhere
  <2>3. CondsSound(queue)'
    BY <1>1, <1>2, <1>3 DEF Before, GreenTyped, Placed, CondsSound, Nowhere
  <2>4. JoinsSound(queue)'
    BY <1>1, <1>2, <1>3 DEF Before, GreenTyped, Placed, JoinsSound, Nowhere, Joins
  <2> QED
    BY <2>1, <2>2, <2>3, <2>4 DEF Placed
<1>5. /\ running' \in Threads /\ readyq' \in Seq(Threads)
      /\ process' \in {"runs", "segv"}
      /\ process' = "runs" => Placed(readyq)' /\ RunsAlone'
  BY <1>1, <1>2, <1>3, <1>4, SuspendSound DEF Before, GreenTyped
<1>6. GreenTyped'
  <2>1. arg' \in [Threads -> Arguments]
    BY <1>1, <1>3, ArgumentsTyped DEF Before, GreenTyped
  <2> QED
    BY <1>1, <1>3, <1>5, <2>1 DEF Before, GreenTyped, Places
<1>7. Zombies' /\ Errands'
  BY <1>1, <1>3 DEF Before, GreenTyped, Zombies, Errands
<1> QED
  BY <1>5, <1>6, <1>7 DEF QueueInv

LEMMA ExitStep ==
  ASSUME QueueInv, NEW t \in Threads, Exit(t)
  PROVE  QueueInv'
<1>1. Before(t, "user")
  BY BeforeStep DEF Exit
<1>2. PICK queue : queue = Enq(readyq, join[t])
  OBVIOUS
<1>3. /\ Suspend(t, "done", queue, "segv")
      /\ at' = [at EXCEPT ![t] = "done"]
      /\ zombie' = [zombie EXCEPT ![t] = TRUE]
      /\ UNCHANGED <<arg, masked, join, context, mx, cv>>
  BY <1>2 DEF Exit, Suspend
<1>4. \A w \in Threads : join[t] = w =>
        /\ at[w] = "join" /\ arg[w].thread = t /\ ~Has(readyq, w)
  BY <1>1 DEF Before, GreenTyped, Zombies, Placed, JoinsSound, Joins
<1>5. join[t] \in Threads \cup {NULL}
  BY <1>1 DEF Before, GreenTyped
<1>6. /\ queue \in Seq(Threads) /\ Once(queue)
      /\ \A u \in Threads : Has(queue, u) <=> Has(readyq, u) \/ u = join[t]
  <2>1. CASE join[t] = NULL
    BY <1>1, <1>2, <2>1, EnqNobody, GreenAssumption
       DEF GreenAssumption, Before, GreenTyped, Placed, ReadySound
  <2>2. CASE join[t] # NULL
    BY <1>1, <1>2, <1>4, <1>5, <2>2, EnqQueue
       DEF Before, GreenTyped, Placed, ReadySound
  <2> QED
    BY <2>1, <2>2
<1>7. Placed(queue)'
  <2>1. ReadySound(queue)'
    BY <1>1, <1>3, <1>4, <1>5, <1>6 DEF Before, GreenTyped, Placed, ReadySound, Nowhere
  <2>2. MutexesSound(queue)'
    BY <1>1, <1>3, <1>4, <1>5, <1>6 DEF Before, GreenTyped, Placed, MutexesSound, Nowhere
  <2>3. CondsSound(queue)'
    BY <1>1, <1>3, <1>4, <1>5, <1>6 DEF Before, GreenTyped, Placed, CondsSound, Nowhere
  <2>4. JoinsSound(queue)'
    BY <1>1, <1>3, <1>4, <1>5, <1>6 DEF Before, GreenTyped, Placed, JoinsSound, Nowhere, Joins
  <2> QED
    BY <2>1, <2>2, <2>3, <2>4 DEF Placed
<1>8. /\ running' \in Threads /\ readyq' \in Seq(Threads)
      /\ process' \in {"runs", "segv"}
      /\ process' = "runs" => Placed(readyq)' /\ RunsAlone'
  BY <1>1, <1>3, <1>6, <1>7, SuspendSound DEF Before, GreenTyped
<1>9. GreenTyped'
  BY <1>1, <1>3, <1>8 DEF Before, GreenTyped, Places
<1>10. Zombies' /\ Errands'
  BY <1>1, <1>3 DEF Before, GreenTyped, Zombies, Errands
<1> QED
  BY <1>8, <1>9, <1>10 DEF QueueInv

LEMMA LockTakenStep ==
  ASSUME QueueInv, NEW t \in Threads, NEW m \in Mutexes, LockTaken(t, m)
  PROVE  QueueInv'
<1>1. Before(t, "user")
  BY BeforeStep DEF LockTaken
<1>2. PICK queue, susp : queue = readyq /\ susp = Enq(mx[m].susp, t)
  OBVIOUS
<1>3. /\ Suspend(t, "lock", queue, "assert")
      /\ at' = [at EXCEPT ![t] = "lock"]
      /\ arg' = [arg EXCEPT ![t].mutex = m]
      /\ masked' = [masked EXCEPT ![t] = TRUE]
      /\ mx' = [mx EXCEPT ![m].susp = susp]
      /\ UNCHANGED <<joinVars, cv>>
  BY <1>2 DEF LockTaken, Suspend
<1>4. /\ susp \in Seq(Threads) /\ Once(susp)
      /\ \A u : Has(susp, u) <=> Has(mx[m].susp, u) \/ u = t
  <2>1. mx[m].susp \in Seq(Threads)
    BY <1>1 DEF Before, GreenTyped
  <2>2. Once(mx[m].susp) /\ ~Has(mx[m].susp, t)
    BY <1>1 DEF Before, Placed, MutexesSound, Nowhere
  <2> QED
    BY <1>2, <2>1, <2>2, EnqQueue
<1>5. Placed(queue)'
  <2>1. ReadySound(queue)'
    BY <1>1, <1>2, <1>3 DEF Before, GreenTyped, Placed, ReadySound
  <2>2. MutexesSound(queue)'
    BY <1>1, <1>2, <1>3, <1>4 DEF Before, GreenTyped, Placed, MutexesSound, Nowhere
  <2>3. CondsSound(queue)'
    BY <1>1, <1>2, <1>3 DEF Before, GreenTyped, Placed, CondsSound, Nowhere
  <2>4. JoinsSound(queue)'
    BY <1>1, <1>2, <1>3 DEF Before, GreenTyped, Placed, JoinsSound, Nowhere, Joins, joinVars
  <2> QED
    BY <2>1, <2>2, <2>3, <2>4 DEF Placed
<1>6. /\ running' \in Threads /\ readyq' \in Seq(Threads)
      /\ process' \in {"runs", "assert"}
      /\ process' = "runs" => Placed(readyq)' /\ RunsAlone'
  BY <1>1, <1>2, <1>3, <1>5, SuspendSound DEF Before, GreenTyped
<1>7. GreenTyped'
  <2>1. arg' \in [Threads -> Arguments]
    BY <1>1, <1>3, ArgumentsTyped DEF Before, GreenTyped
  <2>2. mx' \in [Mutexes -> [taken : BOOLEAN, susp : Seq(Threads)]]
    BY <1>1, <1>3, <1>4 DEF Before, GreenTyped
  <2> QED
    BY <1>1, <1>3, <1>6, <2>1, <2>2 DEF Before, GreenTyped, Places, joinVars
<1>8. Zombies' /\ Errands'
  BY <1>1, <1>3 DEF Before, GreenTyped, Zombies, Errands, joinVars
<1> QED
  BY <1>6, <1>7, <1>8 DEF QueueInv

LEMMA CondWaitStep ==
  ASSUME QueueInv, NEW t \in Threads, NEW c \in Conds, NEW m \in Mutexes \cup {NULL},
         CondWait(t, c, m)
  PROVE  QueueInv'
<1>1. Before(t, "user")
  BY BeforeStep DEF CondWait
<1>2. PICK queue : queue = IF m = NULL THEN readyq ELSE Enq(readyq, First(mx[m].susp))
  OBVIOUS
<1>3. PICK susp : susp = Enq(cv[c], t)
  OBVIOUS
<1>4. /\ Suspend(t, "wait", queue, "assert")
      /\ at' = [at EXCEPT ![t] = "wait"]
      /\ arg' = [arg EXCEPT ![t] = [@ EXCEPT !.cond = c, !.mutex = m]]
      /\ masked' = [masked EXCEPT ![t] = TRUE]
      /\ cv' = [cv EXCEPT ![c] = susp]
      /\ UNCHANGED joinVars
      /\ m = NULL => mx' = mx
      /\ m # NULL => mx' = [mx EXCEPT ![m] = [taken |-> FALSE, susp |-> <<>>]]
  BY <1>2, <1>3 DEF CondWait, Suspend
<1>5. /\ susp \in Seq(Threads) /\ Once(susp)
      /\ \A u : Has(susp, u) <=> Has(cv[c], u) \/ u = t
  <2>1. cv[c] \in Seq(Threads) /\ Once(cv[c]) /\ ~Has(cv[c], t)
    BY <1>1 DEF Before, GreenTyped, Placed, CondsSound, Nowhere
  <2> QED
    BY <1>3, <2>1, EnqQueue
<1>6. /\ queue \in Seq(Threads) /\ Once(queue)
      /\ \A u \in Threads : Has(readyq, u) => Has(queue, u)
      /\ \A u \in Threads : Has(queue, u) =>
           \/ Has(readyq, u)
           \/ m \in Mutexes /\ m # NULL /\ Has(mx[m].susp, u)
  <2>1. CASE m = NULL
    BY <1>1, <1>2, <2>1 DEF Before, GreenTyped, Placed, ReadySound
  <2>2. CASE m # NULL /\ mx[m].susp = <<>>
    BY <1>1, <1>2, <2>2, EnqNobody, EmptyQueue DEF Before, GreenTyped, Placed, ReadySound
  <2>3. CASE m # NULL /\ mx[m].susp # <<>>
    <3>1. m \in Mutexes /\ mx[m].susp \in Seq(Threads)
      BY <1>1, <2>3 DEF Before, GreenTyped
    <3>2. /\ First(mx[m].susp) \in Threads
          /\ Has(mx[m].susp, First(mx[m].susp))
      BY <2>3, <3>1, DeqQueue
    <3>3. ~Has(readyq, First(mx[m].susp))
      BY <1>1, <3>1, <3>2 DEF Before, Placed, MutexesSound
    <3>4. readyq \in Seq(Threads) /\ Once(readyq)
      BY <1>1 DEF Before, GreenTyped, Placed, ReadySound
    <3>5. queue = Enq(readyq, First(mx[m].susp))
      BY <1>2, <2>3
    <3> QED
      BY <2>3, <3>1, <3>2, <3>3, <3>4, <3>5, EnqQueue
  <2> QED
    BY <2>1, <2>2, <2>3
<1>7. Placed(queue)'
  <2>1. ReadySound(queue)'
    BY <1>1, <1>4, <1>6 DEF Before, GreenTyped, Placed, ReadySound, MutexesSound, Nowhere
  <2>2. MutexesSound(queue)'
    <3> SUFFICES ASSUME NEW n \in Mutexes
                 PROVE  (/\ Once(mx[n].susp)
                         /\ \A u \in Threads : Has(mx[n].susp, u) =>
                              at[u] = "lock" /\ arg[u].mutex = n /\ ~Has(queue, u))'
      BY DEF MutexesSound
    <3>1. CASE n = m
      BY <1>1, <1>4, <3>1, GreenAssumption, EmptyQueue DEF GreenAssumption, Before, GreenTyped
    <3>2. CASE n # m
      BY <1>1, <1>4, <1>6, <3>2 DEF Before, GreenTyped, Placed, MutexesSound, Nowhere
    <3> QED
      BY <3>1, <3>2
  <2>3. CondsSound(queue)'
    BY <1>1, <1>4, <1>5, <1>6
       DEF Before, GreenTyped, Placed, MutexesSound, CondsSound, Nowhere
  <2>4. JoinsSound(queue)'
    BY <1>1, <1>4, <1>6
       DEF Before, GreenTyped, Placed, MutexesSound, JoinsSound, Nowhere, Joins, joinVars
  <2> QED
    BY <2>1, <2>2, <2>3, <2>4 DEF Placed
<1>8. /\ running' \in Threads /\ readyq' \in Seq(Threads)
      /\ process' \in {"runs", "assert"}
      /\ process' = "runs" => Placed(readyq)' /\ RunsAlone'
  BY <1>1, <1>4, <1>6, <1>7, SuspendSound DEF Before, GreenTyped
<1>9. mx' \in [Mutexes -> [taken : BOOLEAN, susp : Seq(Threads)]]
  <2>1. CASE m = NULL
    BY <1>1, <1>4, <2>1 DEF Before, GreenTyped
  <2>2. CASE m # NULL
    <3>1. [taken |-> FALSE, susp |-> <<>>] \in [taken : BOOLEAN, susp : Seq(Threads)]
      BY EmptyQueue
    <3> QED
      BY <1>1, <1>4, <2>2, <3>1 DEF Before, GreenTyped
  <2> QED
    BY <2>1, <2>2
<1>10. GreenTyped'
  <2>1. arg' \in [Threads -> Arguments]
    BY <1>1, <1>4, ArgumentsTyped DEF Before, GreenTyped
  <2>2. cv' \in [Conds -> Seq(Threads)]
    BY <1>1, <1>4, <1>5 DEF Before, GreenTyped
  <2> QED
    BY <1>1, <1>4, <1>8, <1>9, <2>1, <2>2 DEF Before, GreenTyped, Places, joinVars
<1>11. Zombies' /\ Errands'
  BY <1>1, <1>4 DEF Before, GreenTyped, Zombies, Errands, joinVars
<1> QED
  BY <1>8, <1>10, <1>11 DEF QueueInv

LEMMA WaitsAgainStep ==
  ASSUME QueueInv, NEW t \in Threads, WaitsAgain(t)
  PROVE  QueueInv'
<1>1. Before(t, "wait")
  BY BeforeStep DEF WaitsAgain
<1>2. arg[t].cond \in Conds
  BY <1>1 DEF Before, Errands
<1>3. PICK queue, c, susp : queue = readyq /\ c = arg[t].cond /\ susp = Enq(cv[c], t)
  OBVIOUS
<1>4. /\ Suspend(t, "wait2", queue, "segv")
      /\ at' = [at EXCEPT ![t] = "wait2"]
      /\ cv' = [cv EXCEPT ![c] = susp]
      /\ UNCHANGED <<arg, masked, joinVars, mx>>
  BY <1>3 DEF WaitsAgain, Suspend
<1>5. /\ susp \in Seq(Threads) /\ Once(susp)
      /\ \A u : Has(susp, u) <=> Has(cv[c], u) \/ u = t
  <2>1. cv[c] \in Seq(Threads) /\ Once(cv[c]) /\ ~Has(cv[c], t)
    BY <1>1, <1>2, <1>3 DEF Before, GreenTyped, Placed, CondsSound, Nowhere
  <2> QED
    BY <1>3, <2>1, EnqQueue
<1>6. Placed(queue)'
  <2>1. ReadySound(queue)'
    BY <1>1, <1>3, <1>4 DEF Before, GreenTyped, Placed, ReadySound
  <2>2. MutexesSound(queue)'
    BY <1>1, <1>3, <1>4 DEF Before, GreenTyped, Placed, MutexesSound, Nowhere
  <2>3. CondsSound(queue)'
    BY <1>1, <1>2, <1>3, <1>4, <1>5 DEF Before, GreenTyped, Placed, CondsSound, Nowhere
  <2>4. JoinsSound(queue)'
    BY <1>1, <1>3, <1>4 DEF Before, GreenTyped, Placed, JoinsSound, Nowhere, Joins, joinVars
  <2> QED
    BY <2>1, <2>2, <2>3, <2>4 DEF Placed
<1>7. /\ running' \in Threads /\ readyq' \in Seq(Threads)
      /\ process' \in {"runs", "segv"}
      /\ process' = "runs" => Placed(readyq)' /\ RunsAlone'
  BY <1>1, <1>3, <1>4, <1>6, SuspendSound DEF Before, GreenTyped
<1>8. GreenTyped'
  BY <1>1, <1>4, <1>5, <1>7 DEF Before, GreenTyped, Places, joinVars
<1>9. Zombies' /\ Errands'
  BY <1>1, <1>2, <1>4 DEF Before, GreenTyped, Zombies, Errands, joinVars
<1> QED
  BY <1>7, <1>8, <1>9 DEF QueueInv

-----------------------------------------------------------------------------
(* The calls that do not switch.                                           *)

\* Nothing is added to a queue: each is as it was, or has been emptied.
LEMMA NothingQueued ==
  ASSUME QueueInv, NEW t \in Threads, Before(t, "user"),
         UNCHANGED <<running, readyq, at, arg, join, zombie>>,
         masked' \in [Threads -> BOOLEAN],
         context' \in [Threads -> {"none", "live", "freed"}],
         process' \in {"runs", "exit"},
         mx' \in [Mutexes -> [taken : BOOLEAN, susp : Seq(Threads)]],
         cv' \in [Conds -> Seq(Threads)],
         \A m \in Mutexes : mx'[m].susp \in {mx[m].susp, <<>>},
         \A c \in Conds : cv'[c] \in {cv[c], <<>>}
  PROVE  QueueInv'
<1>1. GreenTyped' /\ Zombies' /\ Errands'
  BY DEF Before, GreenTyped, Zombies, Errands
<1>2. ReadySound(readyq)' /\ JoinsSound(readyq)'
  BY DEF Before, Placed, ReadySound, JoinsSound, Joins
<1>3. MutexesSound(readyq)'
  BY EmptyQueue DEF Before, Placed, MutexesSound
<1>4. CondsSound(readyq)'
  BY EmptyQueue DEF Before, Placed, CondsSound
<1>5. RunsAlone'
  BY EmptyQueue DEF Before, RunsAlone, Nowhere, Joins
<1> QED
  BY <1>1, <1>2, <1>3, <1>4, <1>5 DEF QueueInv, Placed

LEMMA MainReturnsStep == QueueInv /\ MainReturns => QueueInv'
<1> SUFFICES ASSUME QueueInv, MainReturns PROVE QueueInv'
  OBVIOUS
<1>1. Main \in Threads /\ Before(Main, "user")
  BY GreenAssumption, BeforeStep DEF GreenAssumption, MainReturns
<1> QED
  BY <1>1, NothingQueued DEF MainReturns, Before, GreenTyped, threadVars, joinVars

LEMMA JoinZombieStep ==
  ASSUME QueueInv, NEW t \in Threads, NEW u \in Threads, JoinZombie(t, u)
  PROVE  QueueInv'
<1>1. Before(t, "user")
  BY BeforeStep DEF JoinZombie
<1>2. context' \in [Threads -> {"none", "live", "freed"}]
  BY <1>1 DEF JoinZombie, Before, GreenTyped
<1> QED
  BY <1>1, <1>2, NothingQueued DEF JoinZombie, Before, GreenTyped, threadVars

LEMMA MutexInitOrLockFree ==
  ASSUME QueueInv, NEW t \in Threads, NEW m \in Mutexes,
         MutexInit(t, m) \/ LockFree(t, m)
  PROVE  QueueInv'
<1>1. Before(t, "user")
  BY BeforeStep DEF MutexInit, LockFree
<1>2. [taken |-> FALSE, susp |-> <<>>] \in [taken : BOOLEAN, susp : Seq(Threads)]
  BY EmptyQueue
<1>3. /\ mx' \in [Mutexes -> [taken : BOOLEAN, susp : Seq(Threads)]]
      /\ \A n \in Mutexes : mx'[n].susp \in {mx[n].susp, <<>>}
  <2>1. CASE MutexInit(t, m)
    BY <1>1, <1>2, <2>1 DEF MutexInit, Before, GreenTyped
  <2>2. CASE LockFree(t, m)
    <3>1. mx' = [mx EXCEPT ![m].taken = TRUE]
      BY <2>2 DEF LockFree
    <3>2. mx \in [Mutexes -> [taken : BOOLEAN, susp : Seq(Threads)]]
      BY <1>1 DEF Before, GreenTyped
    <3> QED
      BY <3>1, <3>2
  <2> QED
    BY <2>1, <2>2
<1>4. masked' \in [Threads -> BOOLEAN]
  BY <1>1 DEF MutexInit, LockFree, Before, GreenTyped, threadVars
<1> QED
  BY <1>1, <1>3, <1>4, NothingQueued
     DEF MutexInit, LockFree, Before, GreenTyped, threadVars, joinVars

LEMMA CondInitOrSignalNobody ==
  ASSUME QueueInv, NEW t \in Threads, NEW c \in Conds,
         CondInit(t, c) \/ SignalNobody(t, c)
  PROVE  QueueInv'
<1>1. Before(t, "user")
  BY BeforeStep DEF CondInit, SignalNobody
<1>2. /\ cv' \in [Conds -> Seq(Threads)]
      /\ \A d \in Conds : cv'[d] \in {cv[d], <<>>}
      /\ masked' \in [Threads -> BOOLEAN]
  BY <1>1, EmptyQueue DEF CondInit, SignalNobody, Before, GreenTyped
<1> QED
  BY <1>1, <1>2, NothingQueued DEF CondInit, SignalNobody, Before, GreenTyped, joinVars

LEMMA UnlockStep ==
  ASSUME QueueInv, NEW t \in Threads, NEW m \in Mutexes, Unlock(t, m)
  PROVE  QueueInv'
<1>1. Before(t, "user")
  BY BeforeStep DEF Unlock
<1>2. PICK susp, rest : susp = mx[m].susp /\ rest = Rest(susp)
  OBVIOUS
<1>3. /\ readyq' = Enq(readyq, First(susp))
      /\ mx' = [mx EXCEPT ![m] = [taken |-> @.taken /\ @.susp # <<>>, susp |-> rest]]
      /\ masked' = [masked EXCEPT ![t] = FALSE]
      /\ UNCHANGED <<running, at, arg, joinVars, cv, process>>
  BY <1>1, <1>2 DEF Unlock, Before, GreenTyped
<1>4. /\ susp \in Seq(Threads) /\ Once(susp)
      /\ \A u \in Threads : Has(susp, u) =>
           at[u] = "lock" /\ arg[u].mutex = m /\ ~Has(readyq, u)
      /\ readyq \in Seq(Threads) /\ Once(readyq)
  BY <1>1, <1>2 DEF Before, GreenTyped, Placed, ReadySound, MutexesSound
<1>5. /\ rest \in Seq(Threads) /\ Once(rest)
      /\ readyq' \in Seq(Threads) /\ Once(readyq')
      /\ \A u \in Threads : Has(rest, u) => Has(susp, u) /\ ~Has(readyq', u)
      /\ \A u \in Threads : Has(readyq, u) => Has(readyq', u)
      /\ \A u \in Threads : Has(readyq', u) => Has(readyq, u) \/ Has(susp, u)
  <2>1. CASE susp = <<>>
    BY <1>2, <1>3, <1>4, <2>1, EmptyQueue, EnqNobody
  <2>2. CASE susp # <<>>
    <3>1. /\ First(susp) \in Threads /\ Has(susp, First(susp))
          /\ rest \in Seq(Threads) /\ Once(rest) /\ ~Has(rest, First(susp))
          /\ \A u : Has(rest, u) => Has(susp, u)
      BY <1>2, <1>4, <2>2, DeqQueue
    <3>2. /\ readyq' \in Seq(Threads) /\ Once(readyq')
          /\ \A u : Has(readyq', u) <=> Has(readyq, u) \/ u = First(susp)
      BY <1>3, <1>4, <3>1, EnqQueue
    <3> QED
      BY <1>4, <3>1, <3>2
  <2> QED
    BY <2>1, <2>2
<1>6. Placed(readyq)'
  <2>1. ReadySound(readyq)'
    BY <1>1, <1>3, <1>4, <1>5 DEF Before, Placed, ReadySound
  <2>2. MutexesSound(readyq)'
    <3> SUFFICES ASSUME NEW n \in Mutexes
                 PROVE  (/\ Once(mx[n].susp)
                         /\ \A u \in Threads : Has(mx[n].susp, u) =>
                              at[u] = "lock" /\ arg[u].mutex = n /\ ~Has(readyq, u))'
      BY DEF MutexesSound
    <3>1. CASE n = m
      BY <1>1, <1>3, <1>4, <1>5, <3>1 DEF Before, GreenTyped
    <3>2. CASE n # m
      BY <1>1, <1>3, <1>4, <1>5, <3>2 DEF Before, GreenTyped, Placed, MutexesSound
    <3> QED
      BY <3>1, <3>2
  <2>3. CondsSound(readyq)'
    BY <1>1, <1>3, <1>4, <1>5 DEF Before, Placed, CondsSound
  <2>4. JoinsSound(readyq)'
    BY <1>1, <1>3, <1>4, <1>5 DEF Before, Placed, JoinsSound, Joins, joinVars
  <2> QED
    BY <2>1, <2>2, <2>3, <2>4 DEF Placed
<1>7. RunsAlone'
  <2>1. ~Has(susp, t)
    BY <1>1, <1>2 DEF Before, Nowhere
  <2>2. \A n \in Mutexes : ~Has(mx'[n].susp, t)
    BY <1>1, <1>3, <1>5, <2>1 DEF Before, GreenTyped, Nowhere
  <2> QED
    BY <1>1, <1>3, <1>5, <2>1, <2>2 DEF Before, RunsAlone, Nowhere, Joins, joinVars
<1>8. GreenTyped'
  <2>1. mx' \in [Mutexes -> [taken : BOOLEAN, susp : Seq(Threads)]]
    BY <1>1, <1>3, <1>5 DEF Before, GreenTyped
  <2> QED
    BY <1>1, <1>3, <1>5, <2>1 DEF Before, GreenTyped, joinVars
<1>9. Zombies' /\ Errands'
  BY <1>1, <1>3 DEF Before, Zombies, Errands, joinVars
<1> QED
  BY <1>6, <1>7, <1>8, <1>9 DEF QueueInv

LEMMA SignalStep ==
  ASSUME QueueInv, NEW t \in Threads, NEW c \in Conds, Signal(t, c)
  PROVE  QueueInv'
<1>1. Before(t, "user")
  BY BeforeStep DEF Signal
<1>2. PICK susp, rest : susp = cv[c] /\ rest = Rest(susp)
  OBVIOUS
<1>3. /\ susp # <<>>
      /\ readyq' = Enq(readyq, First(susp))
      /\ cv' = [cv EXCEPT ![c] = rest]
      /\ masked' = [masked EXCEPT ![t] = FALSE]
      /\ UNCHANGED <<running, at, arg, joinVars, mx, process>>
  BY <1>1, <1>2 DEF Signal, Before, GreenTyped
<1>4. /\ susp \in Seq(Threads) /\ Once(susp)
      /\ \A u \in Threads : Has(susp, u) =>
           at[u] \in {"wait", "wait2"} /\ arg[u].cond = c /\ ~Has(readyq, u)
      /\ readyq \in Seq(Threads) /\ Once(readyq)
  BY <1>1, <1>2 DEF Before, GreenTyped, Placed, ReadySound, CondsSound
<1>5. /\ rest \in Seq(Threads) /\ Once(rest)
      /\ readyq' \in Seq(Threads) /\ Once(readyq')
      /\ \A u \in Threads : Has(rest, u) => Has(susp, u) /\ ~Has(readyq', u)
      /\ \A u \in Threads : Has(readyq', u) => Has(readyq, u) \/ Has(susp, u)
  <2>1. /\ First(susp) \in Threads /\ Has(susp, First(susp))
        /\ rest \in Seq(Threads) /\ Once(rest) /\ ~Has(rest, First(susp))
        /\ \A u : Has(rest, u) => Has(susp, u)
    BY <1>2, <1>3, <1>4, DeqQueue
  <2>2. /\ readyq' \in Seq(Threads) /\ Once(readyq')
        /\ \A u : Has(readyq', u) <=> Has(readyq, u) \/ u = First(susp)
    BY <1>3, <1>4, <2>1, EnqQueue
  <2> QED
    BY <1>4, <2>1, <2>2
<1>6. Placed(readyq)'
  <2>1. ReadySound(readyq)'
    BY <1>1, <1>3, <1>4, <1>5 DEF Before, Placed, ReadySound
  <2>2. MutexesSound(readyq)'
    BY <1>1, <1>3, <1>4, <1>5 DEF Before, Placed, MutexesSound
  <2>3. CondsSound(readyq)'
    <3> SUFFICES ASSUME NEW d \in Conds
                 PROVE  (/\ Once(cv[d])
                         /\ \A u \in Threads : Has(cv[d], u) =>
                              /\ at[u] \in {"wait", "wait2"} /\ arg[u].cond = d
                              /\ ~Has(readyq, u))'
      BY DEF CondsSound
    <3>1. CASE d = c
      BY <1>1, <1>3, <1>4, <1>5, <3>1 DEF Before, GreenTyped
    <3>2. CASE d # c
      BY <1>1, <1>3, <1>4, <1>5, <3>2 DEF Before, GreenTyped, Placed, CondsSound
    <3> QED
      BY <3>1, <3>2
  <2>4. JoinsSound(readyq)'
    BY <1>1, <1>3, <1>4, <1>5 DEF Before, Placed, JoinsSound, Joins, joinVars
  <2> QED
    BY <2>1, <2>2, <2>3, <2>4 DEF Placed
<1>7. RunsAlone'
  <2>1. ~Has(susp, t)
    BY <1>1, <1>2 DEF Before, Nowhere
  <2>2. \A d \in Conds : ~Has(cv'[d], t)
    BY <1>1, <1>3, <1>5, <2>1 DEF Before, GreenTyped, Nowhere
  <2> QED
    BY <1>1, <1>3, <1>5, <2>1, <2>2 DEF Before, RunsAlone, Nowhere, Joins, joinVars
<1>8. GreenTyped' /\ Zombies' /\ Errands'
  BY <1>1, <1>3, <1>5 DEF Before, GreenTyped, Zombies, Errands, joinVars
<1> QED
  BY <1>6, <1>7, <1>8 DEF QueueInv

LEMMA CreateStep ==
  ASSUME QueueInv, NEW t \in Threads, NEW new \in Threads, at[new] = "none",
         Create(t, new)
  PROVE  QueueInv'
<1>1. Before(t, "user")
  BY BeforeStep DEF Create
<1>2. /\ readyq' = Enq(readyq, new)
      /\ at' = [at EXCEPT ![new] = "new"]
      /\ join' = [join EXCEPT ![new] = NULL]
      /\ zombie' = [zombie EXCEPT ![new] = FALSE]
      /\ context' = [context EXCEPT ![new] = "live"]
      /\ masked' = [masked EXCEPT ![new] = masked[t], ![t] = FALSE]
      /\ UNCHANGED <<running, arg, mx, cv, process>>
  BY DEF Create
<1>3. /\ readyq' \in Seq(Threads) /\ Once(readyq')
      /\ \A u : Has(readyq', u) <=> Has(readyq, u) \/ u = new
  BY <1>1, <1>2, EnqQueue DEF Before, GreenTyped, Placed, ReadySound
<1>4. Placed(readyq)'
  <2>1. ReadySound(readyq)'
    BY <1>1, <1>2, <1>3 DEF Before, GreenTyped, Placed, ReadySound
  <2>2. MutexesSound(readyq)'
    BY <1>1, <1>2, <1>3 DEF Before, GreenTyped, Placed, MutexesSound
  <2>3. CondsSound(readyq)'
    BY <1>1, <1>2, <1>3 DEF Before, GreenTyped, Placed, CondsSound
  <2>4. JoinsSound(readyq)'
    BY <1>1, <1>2, <1>3, GreenAssumption
       DEF GreenAssumption, Before, GreenTyped, Placed, JoinsSound, Joins
  <2> QED
    BY <2>1, <2>2, <2>3, <2>4 DEF Placed
<1>5. RunsAlone'
  BY <1>1, <1>2, <1>3, GreenAssumption
     DEF GreenAssumption, Before, GreenTyped, RunsAlone, Nowhere, Joins
<1>6. GreenTyped' /\ Zombies' /\ Errands'
  BY <1>1, <1>2, <1>3 DEF Before, GreenTyped, Zombies, Errands, Places
<1> QED
  BY <1>4, <1>5, <1>6 DEF QueueInv

-----------------------------------------------------------------------------
(* The returns that do not switch.                                         *)

\* The thread that runs goes on in its own code.
LEMMA GoesOn ==
  ASSUME QueueInv, NEW t \in Threads, NEW place, Before(t, place),
         place \notin {"none", "done"},
         \E blocked \in BOOLEAN : GoOn(t, blocked),
         UNCHANGED <<running, readyq, join, zombie, cv, process>>,
         context' \in [Threads -> {"none", "live", "freed"}],
         mx' \in [Mutexes -> [taken : BOOLEAN, susp : Seq(Threads)]],
         \A m \in Mutexes : mx'[m].susp = mx[m].susp
  PROVE  QueueInv'
<1>1. /\ at' = [at EXCEPT ![t] = "user"]
      /\ arg' = [arg EXCEPT ![t] = Nothing]
      /\ masked' \in [Threads -> BOOLEAN]
  BY DEF GoOn, Before, GreenTyped
<1>2. arg' \in [Threads -> Arguments]
  BY <1>1, ArgumentsTyped DEF Before, GreenTyped
<1>3. GreenTyped' /\ Zombies' /\ Errands'
  BY <1>1, <1>2 DEF Before, GreenTyped, Zombies, Errands, Places
<1>4. ReadySound(readyq)'
  BY <1>1 DEF Before, GreenTyped, Placed, ReadySound, Nowhere
<1>5. MutexesSound(readyq)'
  BY <1>1 DEF Before, GreenTyped, Placed, MutexesSound, Nowhere
<1>6. CondsSound(readyq)'
  BY <1>1 DEF Before, GreenTyped, Placed, CondsSound, Nowhere
<1>7. JoinsSound(readyq)'
  BY <1>1 DEF Before, GreenTyped, Placed, JoinsSound, Nowhere, Joins
<1>8. RunsAlone'
  BY <1>1 DEF Before, GreenTyped, RunsAlone, Nowhere, Joins
<1> QED
  BY <1>3, <1>4, <1>5, <1>6, <1>7, <1>8 DEF QueueInv, Placed

LEMMA ResumeStep ==
  ASSUME QueueInv, NEW t \in Threads, Resume(t)
  PROVE  QueueInv'
<1>1. CASE Start(t)
  <2>1. Before(t, "new")
    BY <1>1, BeforeStep DEF Start
  <2>2. \E blocked \in BOOLEAN : GoOn(t, blocked)
    BY <1>1, <2>1 DEF Start, Before, GreenTyped
  <2>3. UNCHANGED <<running, readyq, joinVars, mx, cv, process>>
    BY <1>1 DEF Start
  <2> QED
    BY <2>1, <2>2, <2>3, GoesOn DEF Before, GreenTyped, joinVars
<1>2. CASE YieldReturns(t)
  <2>1. Before(t, "yield")
    BY <1>2, BeforeStep DEF YieldReturns
  <2>2. \E blocked \in BOOLEAN : GoOn(t, blocked)
    BY <1>2, <2>1 DEF YieldReturns, Before, GreenTyped
  <2>3. UNCHANGED <<running, readyq, joinVars, mx, cv, process>>
    BY <1>2 DEF YieldReturns
  <2> QED
    BY <2>1, <2>2, <2>3, GoesOn DEF Before, GreenTyped, joinVars
<1>3. CASE JoinReturns(t)
  <2>1. Before(t, "join")
    BY <1>3, BeforeStep DEF JoinReturns
  <2>2. context' \in [Threads -> {"none", "live", "freed"}]
    BY <1>3, <2>1 DEF JoinReturns, Before, GreenTyped
  <2>3. \E blocked \in BOOLEAN : GoOn(t, blocked)
    BY <1>3, <2>1 DEF JoinReturns, Before, GreenTyped
  <2>4. UNCHANGED <<running, readyq, join, zombie, mx, cv, process>>
    BY <1>3 DEF JoinReturns
  <2> QED
    BY <2>1, <2>2, <2>3, <2>4, GoesOn DEF Before, GreenTyped
<1>4. CASE TickReturns(t)
  <2>1. Before(t, "tick")
    BY <1>4, BeforeStep DEF TickReturns
  <2>2. \E blocked \in BOOLEAN : GoOn(t, blocked)
    BY <1>4, <2>1 DEF TickReturns, Before, GreenTyped
  <2>3. UNCHANGED <<running, readyq, joinVars, mx, cv, process>>
    BY <1>4 DEF TickReturns
  <2> QED
    BY <2>1, <2>2, <2>3, GoesOn DEF Before, GreenTyped, joinVars
<1>5. CASE LockReturns(t)
  <2>1. Before(t, "lock")
    BY <1>5, BeforeStep DEF LockReturns
  <2>2. \E blocked \in BOOLEAN : GoOn(t, blocked)
    BY <1>5, <2>1 DEF LockReturns, Before, GreenTyped
  <2>3. UNCHANGED <<running, readyq, joinVars, mx, cv, process>>
    BY <1>5 DEF LockReturns
  <2> QED
    BY <2>1, <2>2, <2>3, GoesOn DEF Before, GreenTyped, joinVars
<1>6. CASE WaitReturns(t)
  <2>1. Before(t, "wait")
    BY <1>6, BeforeStep DEF WaitReturns
  <2>2. /\ mx' \in [Mutexes -> [taken : BOOLEAN, susp : Seq(Threads)]]
        /\ \A m \in Mutexes : mx'[m].susp = mx[m].susp
    BY <1>6, <2>1 DEF WaitReturns, Before, GreenTyped
  <2> QED
    BY <1>6, <2>1, <2>2, GoesOn DEF WaitReturns, Before, GreenTyped, joinVars
<1>7. CASE WaitsAgain(t)
  BY <1>7, WaitsAgainStep
<1>8. CASE Wait2Returns(t)
  <2>1. Before(t, "wait2")
    BY <1>8, BeforeStep DEF Wait2Returns
  <2>2. \E blocked \in BOOLEAN : GoOn(t, blocked)
    BY <1>8, <2>1 DEF Wait2Returns, Before, GreenTyped
  <2>3. UNCHANGED <<running, readyq, joinVars, mx, cv, process>>
    BY <1>8 DEF Wait2Returns
  <2> QED
    BY <2>1, <2>2, <2>3, GoesOn DEF Before, GreenTyped, joinVars
<1> QED
  BY <1>1, <1>2, <1>3, <1>4, <1>5, <1>6, <1>7, <1>8 DEF Resume

-----------------------------------------------------------------------------
(* The invariant, and what it says.                                        *)

LEMMA QueueInit == GreenInit => QueueInv
<1> SUFFICES ASSUME GreenInit PROVE QueueInv
  OBVIOUS
<1>1. /\ arg \in [Threads -> Arguments]
      /\ mx \in [Mutexes -> [taken : BOOLEAN, susp : Seq(Threads)]]
      /\ cv \in [Conds -> Seq(Threads)]
      /\ readyq \in Seq(Threads)
  BY EmptyQueue DEF GreenInit, Arguments, Nothing
<1>2. GreenTyped /\ Zombies /\ Errands
  BY <1>1, GreenAssumption DEF GreenAssumption, GreenInit, GreenTyped, Zombies, Errands, Places
<1>3. \A t, u \in Threads : ~Joins(t, u)
  BY GreenAssumption DEF GreenAssumption, GreenInit, Joins
<1>4. ReadySound(readyq) /\ MutexesSound(readyq) /\ CondsSound(readyq)
  BY EmptyQueue DEF GreenInit, ReadySound, MutexesSound, CondsSound
<1>5. JoinsSound(readyq) /\ RunsAlone
  BY <1>3, EmptyQueue, GreenAssumption
     DEF GreenAssumption, GreenInit, JoinsSound, RunsAlone, Nowhere
<1> QED
  BY <1>2, <1>4, <1>5 DEF QueueInv, Placed

LEMMA QueueUnchanged == QueueInv /\ UNCHANGED greenVars => QueueInv'
BY DEF QueueInv, greenVars, threadVars, joinVars, GreenTyped, Zombies, Errands,
       Placed, ReadySound, MutexesSound, CondsSound, JoinsSound, Joins,
       RunsAlone, Nowhere

\* No call and no return of the library breaks the queues, whatever the
\* program that calls it does and whatever it has called before.
THEOREM QueuesKept == QueueInv /\ LibraryStep => QueueInv'
<1> SUFFICES ASSUME QueueInv, LibraryStep PROVE QueueInv'
  OBVIOUS
<1>1. CASE MainReturns
  BY <1>1, MainReturnsStep
<1>2. ASSUME NEW t \in Threads, Yield(t) \/ Tick(t) PROVE QueueInv'
  BY <1>2, YieldOrTick
<1>3. ASSUME NEW t \in Threads, Exit(t) PROVE QueueInv'
  BY <1>3, ExitStep
<1>4. ASSUME NEW t \in Threads, Resume(t) PROVE QueueInv'
  BY <1>4, ResumeStep
<1>5. ASSUME NEW t \in Threads, NEW new \in Threads, at[new] = "none", Create(t, new)
      PROVE  QueueInv'
  BY <1>5, CreateStep
<1>6. ASSUME NEW t \in Threads, NEW u \in Threads, JoinWaits(t, u) \/ JoinZombie(t, u)
      PROVE  QueueInv'
  BY <1>6, JoinWaitsStep, JoinZombieStep
<1>7. ASSUME NEW t \in Threads, NEW m \in Mutexes,
             MutexInit(t, m) \/ LockFree(t, m) \/ LockTaken(t, m) \/ Unlock(t, m)
      PROVE  QueueInv'
  BY <1>7, MutexInitOrLockFree, LockTakenStep, UnlockStep
<1>8. ASSUME NEW t \in Threads, NEW c \in Conds,
             \/ CondInit(t, c) \/ SignalNobody(t, c) \/ Signal(t, c)
             \/ \E m \in Mutexes \cup {NULL} : CondWait(t, c, m)
      PROVE  QueueInv'
  BY <1>8, CondInitOrSignalNobody, SignalStep, CondWaitStep
<1> QED
  BY <1>1, <1>2, <1>3, <1>4, <1>5, <1>6, <1>7, <1>8 DEF LibraryStep

-----------------------------------------------------------------------------
(* The queue entries of one thread.                                        *)

\* What the elements of Slots(t) look like.
LEMMA SlotIs ==
  ASSUME NEW t \in Threads, NEW slot
  PROVE  slot \in Slots(t) <=>
           \/ \E i \in DOMAIN readyq : readyq[i] = t /\ slot = <<"ready", NULL, i>>
           \/ \E m \in Mutexes : \E i \in DOMAIN mx[m].susp :
                mx[m].susp[i] = t /\ slot = <<"mutex", m, i>>
           \/ \E c \in Conds : \E i \in DOMAIN cv[c] :
                cv[c][i] = t /\ slot = <<"cond", c, i>>
           \/ \E u \in Threads : Joins(t, u) /\ slot = <<"join", u, 0>>
<1> DEFINE Ready == {<<"ready", NULL, i>> : i \in {j \in DOMAIN readyq : readyq[j] = t}}
           AtMutex(m) == {<<"mutex", m, i>> : i \in {j \in DOMAIN mx[m].susp : mx[m].susp[j] = t}}
           AtCond(c) == {<<"cond", c, i>> : i \in {j \in DOMAIN cv[c] : cv[c][j] = t}}
           Joining == {<<"join", u, 0>> : u \in {v \in Threads : join[v] = t /\ ~zombie[v]}}
           AtMutexes == UNION {AtMutex(m) : m \in Mutexes}
           AtConds == UNION {AtCond(c) : c \in Conds}
<1>1. slot \in Ready <=> \E i \in DOMAIN readyq : readyq[i] = t /\ slot = <<"ready", NULL, i>>
  OBVIOUS
<1>2. \A m \in Mutexes : slot \in AtMutex(m) <=>
        \E i \in DOMAIN mx[m].susp : mx[m].susp[i] = t /\ slot = <<"mutex", m, i>>
  OBVIOUS
<1>3. \A c \in Conds : slot \in AtCond(c) <=>
        \E i \in DOMAIN cv[c] : cv[c][i] = t /\ slot = <<"cond", c, i>>
  OBVIOUS
<1>4. slot \in Joining <=> \E u \in Threads : Joins(t, u) /\ slot = <<"join", u, 0>>
  BY DEF Joins
<1>5. Slots(t) = Ready \cup AtMutexes \cup AtConds \cup Joining
  BY Zenon DEF Slots
<1> HIDE DEF Ready, AtMutex, AtCond, Joining
<1>6. slot \in AtMutexes <=> \E m \in Mutexes : slot \in AtMutex(m)
  BY Zenon
<1>7. slot \in AtConds <=> \E c \in Conds : slot \in AtCond(c)
  BY Zenon
<1> HIDE DEF AtMutexes, AtConds
<1>8. slot \in Slots(t) <=>
        slot \in Ready \/ slot \in AtMutexes \/ slot \in AtConds \/ slot \in Joining
  BY <1>5
<1> QED
  BY <1>1, <1>2, <1>3, <1>4, <1>6, <1>7, <1>8, Zenon

\* A thread has an entry exactly when it is somewhere.
LEMMA SlotsOfNowhere ==
  ASSUME NEW t \in Threads PROVE Nowhere(t) <=> Slots(t) = {}
<1>1. ASSUME Nowhere(t), NEW slot \in Slots(t) PROVE FALSE
  BY <1>1, SlotIs DEF Nowhere, Has
<1>2. ASSUME Slots(t) = {} PROVE Nowhere(t)
  <2>1. ASSUME NEW i \in DOMAIN readyq, readyq[i] = t PROVE FALSE
    BY <1>2, <2>1, SlotIs
  <2>2. ASSUME NEW m \in Mutexes, NEW i \in DOMAIN mx[m].susp, mx[m].susp[i] = t
        PROVE  FALSE
    <3>1. <<"mutex", m, i>> \in Slots(t)
      BY <2>2, SlotIs
    <3> QED
      BY <1>2, <3>1
  <2>3. ASSUME NEW c \in Conds, NEW i \in DOMAIN cv[c], cv[c][i] = t PROVE FALSE
    <3>1. <<"cond", c, i>> \in Slots(t)
      BY <2>3, SlotIs
    <3> QED
      BY <1>2, <3>1
  <2>4. ASSUME NEW u \in Threads, Joins(t, u) PROVE FALSE
    BY <1>2, <2>4, SlotIs
  <2> QED
    BY <2>1, <2>2, <2>3, <2>4 DEF Nowhere, Has
<1> QED
  BY <1>1, <1>2

\* A thread that is somewhere is in one place.
LEMMA OneSlot ==
  ASSUME Placed(readyq), NEW t \in Threads, NEW s \in Slots(t)
  PROVE  Slots(t) = {s}
<1> SUFFICES ASSUME NEW r \in Slots(t) PROVE r = s
  OBVIOUS
<1>1. CASE Has(readyq, t)
  <2>1. /\ \A m \in Mutexes : ~Has(mx[m].susp, t)
        /\ \A c \in Conds : ~Has(cv[c], t)
        /\ \A u \in Threads : ~Joins(t, u)
    BY <1>1 DEF Placed, MutexesSound, CondsSound, JoinsSound
  <2>2. PICK i \in DOMAIN readyq : readyq[i] = t /\ r = <<"ready", NULL, i>>
    BY <2>1, SlotIs DEF Has
  <2>3. PICK j \in DOMAIN readyq : readyq[j] = t /\ s = <<"ready", NULL, j>>
    BY <2>1, SlotIs DEF Has
  <2> QED
    BY <2>2, <2>3 DEF Placed, ReadySound, Once
<1>2. CASE ~Has(readyq, t) /\ at[t] = "lock"
  <2>1. /\ \A c \in Conds : ~Has(cv[c], t)
        /\ \A u \in Threads : ~Joins(t, u)
    BY <1>2 DEF Placed, CondsSound, JoinsSound
  <2>2. PICK m \in Mutexes : \E i \in DOMAIN mx[m].susp :
          mx[m].susp[i] = t /\ r = <<"mutex", m, i>>
    BY <1>2, <2>1, SlotIs DEF Has
  <2>3. PICK n \in Mutexes : \E i \in DOMAIN mx[n].susp :
          mx[n].susp[i] = t /\ s = <<"mutex", n, i>>
    BY <1>2, <2>1, SlotIs DEF Has
  <2>4. m = n
    BY <2>2, <2>3 DEF Placed, MutexesSound, Has
  <2> QED
    BY <2>2, <2>3, <2>4 DEF Placed, MutexesSound, Once
<1>3. CASE ~Has(readyq, t) /\ at[t] \in {"wait", "wait2"}
  <2>1. /\ \A m \in Mutexes : ~Has(mx[m].susp, t)
        /\ \A u \in Threads : ~Joins(t, u)
    BY <1>3 DEF Placed, MutexesSound, JoinsSound
  <2>2. PICK c \in Conds : \E i \in DOMAIN cv[c] :
          cv[c][i] = t /\ r = <<"cond", c, i>>
    BY <1>3, <2>1, SlotIs DEF Has
  <2>3. PICK d \in Conds : \E i \in DOMAIN cv[d] :
          cv[d][i] = t /\ s = <<"cond", d, i>>
    BY <1>3, <2>1, SlotIs DEF Has
  <2>4. c = d
    BY <2>2, <2>3 DEF Placed, CondsSound, Has
  <2> QED
    BY <2>2, <2>3, <2>4 DEF Placed, CondsSound, Once
<1>4. CASE ~Has(readyq, t) /\ at[t] \notin {"lock", "wait", "wait2"}
  <2>1. /\ \A m \in Mutexes : ~Has(mx[m].susp, t)
        /\ \A c \in Conds : ~Has(cv[c], t)
    BY <1>4 DEF Placed, MutexesSound, CondsSound
  <2>2. PICK u \in Threads : Joins(t, u) /\ r = <<"join", u, 0>>
    BY <1>4, <2>1, SlotIs DEF Has
  <2>3. PICK v \in Threads : Joins(t, v) /\ s = <<"join", v, 0>>
    BY <1>4, <2>1, SlotIs DEF Has
  <2> QED
    BY <2>2, <2>3 DEF Placed, JoinsSound
<1> QED
  BY <1>1, <1>2, <1>3, <1>4

\* The number of places of a thread.
LEMMA SlotsCount ==
  ASSUME QueueInv, process = "runs", NEW t \in Threads
  PROVE  /\ t = running \/ at[t] \in {"none", "done"} => Cardinality(Slots(t)) = 0
         /\ Cardinality(Slots(t)) = IF Nowhere(t) THEN 0 ELSE 1
<1>1. Placed(readyq) /\ RunsAlone
  BY DEF QueueInv
<1>2. t = running \/ at[t] \in {"none", "done"} => Nowhere(t)
  BY <1>1 DEF RunsAlone, Nowhere, Placed, ReadySound, MutexesSound, CondsSound, JoinsSound
<1>3. CASE Nowhere(t)
  BY <1>3, SlotsOfNowhere, FS_EmptySet
<1>4. CASE ~Nowhere(t)
  <2>1. PICK s : s \in Slots(t)
    BY <1>4, SlotsOfNowhere
  <2>2. Slots(t) = {s}
    BY <1>1, <2>1, OneSlot
  <2>3. Cardinality(Slots(t)) = 1
    BY <2>2, FS_Singleton
  <2> QED
    BY <1>2, <1>4, <2>3
<1> QED
  BY <1>2, <1>3, <1>4

\* No thread is queued twice, and the running one is not queued: for every
\* program in which the invariant holds.
THEOREM QueuedOnceFollows == QueueInv => QueuedOnce
<1> SUFFICES ASSUME QueueInv, process = "runs", NEW t \in Threads
             PROVE  Cardinality(Slots(t)) <=
                      IF t = running \/ at[t] \in {"none", "done"} THEN 0 ELSE 1
  BY DEF QueuedOnce
<1> QED
  BY SlotsCount
=============================================================================
