------------------------- MODULE GreenPreemptProofs -------------------------
(***************************************************************************)
(* What holds of the green threads when the timer can fire inside          *)
(* green_yield(), green_join() and the end of green_thread(), as long as   *)
(* it does so at none of the steps between the first and the last access   *)
(* to what the threads share: first the lists, then the invariant and what *)
(* follows from it, then that each function is one step of GreenClient.    *)
(***************************************************************************)
EXTENDS GreenPreempt, Integers, FunctionTheorems, FiniteSetTheorems, TLAPS

Chains == INSTANCE Walks

-----------------------------------------------------------------------------
(***************************************************************************)
(* Lists.  The next fields thread the sequences s when each is met on the  *)
(* walk from its head to a thread without a next, and no thread is in two  *)
(* of them, or twice in one.                                               *)
(***************************************************************************)
LinksTyped(l) ==
  l \in [head : [Queues -> Threads \cup {NULL}], next : [Threads -> Threads \cup {NULL}]]

EachOnce(s) ==
  \A p, q \in Queues : \A i \in 1 .. Len(s[p]), j \in 1 .. Len(s[q]) :
    s[p][i] = s[q][j] => p = q /\ i = j

HeadsOf(l, s) ==
  \A q \in Queues : l.head[q] = IF s[q] = <<>> THEN NULL ELSE s[q][1]

NextsOf(l, s) ==
  \A q \in Queues : \A i \in 1 .. Len(s[q]) :
    l.next[s[q][i]] = IF i = Len(s[q]) THEN NULL ELSE s[q][i + 1]

Threaded(l, s) ==
  /\ LinksTyped(l)
  /\ s \in [Queues -> Seq(Threads)]
  /\ EachOnce(s)
  /\ HeadsOf(l, s)
  /\ NextsOf(l, s)

ThreadsOf(queue) == {queue[i] : i \in 1 .. Len(queue)}

\* A sequence without repetition is no longer than there are threads, and has
\* as many entries as threads.
LEMMA OnceCounted ==
  ASSUME NEW queue \in Seq(Threads),
         \A i, j \in 1 .. Len(queue) : queue[i] = queue[j] => i = j
  PROVE  /\ Cardinality(ThreadsOf(queue)) = Len(queue)
         /\ Len(queue) <= Cardinality(Threads)
         /\ Cardinality(Threads) \in Nat
<1> DEFINE n == Len(queue)
           T == ThreadsOf(queue)
           f == [i \in 1 .. n |-> queue[i]]
<1>1. n \in Nat /\ \A i \in 1 .. n : queue[i] \in Threads
  OBVIOUS
<1>2. f \in Bijection(1 .. n, T)
  <2>1. f \in [1 .. n -> T]
    BY DEF ThreadsOf
  <2>2. \A i, j \in 1 .. n : f[i] = f[j] => i = j
    OBVIOUS
  <2>3. \A t \in T : \E i \in 1 .. n : f[i] = t
    BY DEF ThreadsOf
  <2> HIDE DEF f, T, n
  <2> QED
    BY <2>1, <2>2, <2>3, Fun_IsBij
<1>3. Cardinality(T) = n
  <2> HIDE DEF f, T, n
  <2> QED
    BY <1>1, <1>2, FS_CountingElements DEF ExistsBijection
<1>4. T \subseteq Threads
  BY <1>1 DEF ThreadsOf
<1>5. IsFiniteSet(Threads)
  BY PreemptAssumption DEF PreemptAssumption
<1>6. Cardinality(T) <= Cardinality(Threads)
  <2> HIDE DEF T
  <2> QED BY <1>4, <1>5, FS_Subset
<1>7. Cardinality(Threads) \in Nat
  BY <1>5, FS_CardinalityType
<1> QED
  BY <1>3, <1>6, <1>7

\* The walk along the next fields.
LEMMA WalkIs ==
  ASSUME NEW l, NEW s, Threaded(l, s), NEW q \in Queues
  PROVE  \A n \in 0 .. Cardinality(Threads) :
           Nth(l, q)[n] = IF n < Len(s[q]) THEN s[q][n + 1] ELSE NULL
<1> DEFINE N == Cardinality(Threads)
           Entry(n) == IF n < Len(s[q]) THEN s[q][n + 1] ELSE NULL
           g == [n \in 0 .. N |-> Entry(n)]
           Onto(f, n) == IF n = 0 THEN l.head[q]
                         ELSE IF f[n - 1] = NULL THEN NULL ELSE l.next[f[n - 1]]
           Def(f) == f = [n \in 0 .. N |-> Onto(f, n)]
<1>1. s[q] \in Seq(Threads) /\ Len(s[q]) \in Nat
  BY DEF Threaded
<1>2. /\ Len(s[q]) <= N /\ N \in Nat
  BY <1>1, OnceCounted DEF Threaded, EachOnce
<1>3. \A i \in 1 .. Len(s[q]) : s[q][i] \in Threads /\ s[q][i] # NULL
  BY <1>1, PreemptAssumption DEF PreemptAssumption
<1>4. \A n \in 0 .. N : Entry(n) = Onto(g, n)
  <2> SUFFICES ASSUME NEW n \in 0 .. N PROVE Entry(n) = Onto(g, n)
    OBVIOUS
  <2>1. CASE n = 0
    <3>1. s[q] = <<>> <=> Len(s[q]) = 0
      BY <1>1
    <3> QED BY <2>1, <3>1, <1>1 DEF Threaded, HeadsOf
  <2>2. CASE n # 0
    <3>1. n - 1 \in 0 .. N /\ g[n - 1] = Entry(n - 1)
      BY <1>2, <2>2
    <3>2. CASE n - 1 < Len(s[q])
      <4>1. n \in 1 .. Len(s[q]) /\ g[n - 1] = s[q][n]
        BY <1>1, <1>2, <2>2, <3>1, <3>2
      <4>2. l.next[s[q][n]] = Entry(n)
        BY <4>1, <1>1 DEF Threaded, NextsOf
      <4> HIDE DEF g
      <4> QED BY <2>2, <4>1, <4>2, <1>3
    <3>3. CASE ~(n - 1 < Len(s[q]))
      BY <1>1, <1>2, <2>2, <3>1, <3>3
    <3> QED BY <3>2, <3>3
  <2> QED BY <2>1, <2>2
<1>5. Def(g)
  <2> HIDE DEF Entry, Onto
  <2> QED BY <1>4
<1>6. Nth(l, q) = CHOOSE f : Def(f)
  BY DEF Nth
<1>7. Def(Nth(l, q))
  <2> HIDE DEF Def, g
  <2> QED BY <1>5, <1>6
<1>8. \A n \in 0 .. N : Nth(l, q)[n] = Onto(Nth(l, q), n)
  <2>1. Nth(l, q) = [n \in 0 .. N |-> Onto(Nth(l, q), n)]
    BY <1>7
  <2> HIDE DEF Onto
  <2> QED BY <2>1
<1> DEFINE S == {n \in Nat : n \in 0 .. N => Nth(l, q)[n] = g[n]}
<1>9. \A n \in 0 .. N : g[n] = Onto(g, n)
  <2> HIDE DEF Entry, Onto
  <2> QED BY <1>4
<1>10. 0 \in S
  <2>1. 0 \in 0 .. N BY <1>2
  <2> HIDE DEF g
  <2> QED BY <1>8, <1>9, <2>1
<1>11. ASSUME NEW n \in Nat, n \in S PROVE n + 1 \in S
  <2> SUFFICES ASSUME n + 1 \in 0 .. N PROVE Nth(l, q)[n + 1] = g[n + 1]
    BY <1>11
  <2>1. n \in 0 .. N /\ (n + 1) - 1 = n /\ n + 1 # 0
    BY <1>2
  <2>2. Nth(l, q)[n] = g[n]
    BY <1>11, <2>1
  <2>3. Nth(l, q)[n + 1] = Onto(Nth(l, q), n + 1) /\ g[n + 1] = Onto(g, n + 1)
    BY <1>8, <1>9
  <2> HIDE DEF g
  <2> QED BY <2>1, <2>2, <2>3
<1>12. Nat \subseteq S
  <2> HIDE DEF S
  <2> QED BY <1>10, <1>11, Chains!Induction
<1>13. \A n \in 0 .. N : n \in Nat /\ g[n] = Entry(n)
  BY <1>2
<1> QED
  <2> HIDE DEF g, Entry
  <2>1. \A n \in 0 .. N : Nth(l, q)[n] = Entry(n)
    BY <1>12, <1>13
  <2> QED BY <2>1 DEF Entry

\* What the operators of GreenPreempt find in lists that thread s.
LEMMA ListsAre ==
  ASSUME NEW l, NEW s, Threaded(l, s), NEW q \in Queues
  PROVE  /\ ~Endless(l, q)
         /\ Members(l, q) = ThreadsOf(s[q])
         /\ EndOf(l, q) = IF s[q] = <<>> THEN NULL ELSE s[q][Len(s[q])]
         /\ ItemsOf(l, q) = s[q]
<1> DEFINE N == Cardinality(Threads)
           Entry(n) == IF n < Len(s[q]) THEN s[q][n + 1] ELSE NULL
<1>1. s[q] \in Seq(Threads) /\ Len(s[q]) \in Nat
  BY DEF Threaded
<1>2. \A i, j \in 1 .. Len(s[q]) : s[q][i] = s[q][j] => i = j
  BY DEF Threaded, EachOnce
<1>3. /\ Len(s[q]) <= N /\ N \in Nat
      /\ Cardinality(ThreadsOf(s[q])) = Len(s[q])
  BY <1>1, <1>2, OnceCounted
<1>4. \A i \in 1 .. Len(s[q]) : s[q][i] \in Threads /\ s[q][i] # NULL
  BY <1>1, PreemptAssumption DEF PreemptAssumption
<1>5. \A n \in 0 .. N : Nth(l, q)[n] = Entry(n)
  BY WalkIs
<1>6. ~Endless(l, q)
  BY <1>1, <1>3, <1>5 DEF Endless
<1>7. Members(l, q) = ThreadsOf(s[q])
  <2>1. ASSUME NEW t \in Members(l, q) PROVE t \in ThreadsOf(s[q])
    <3>1. PICK n \in 0 .. N : t = Nth(l, q)[n] /\ t # NULL
      BY DEF Members
    <3>2. t = Entry(n) /\ n < Len(s[q])
      BY <1>5, <3>1
    <3> QED BY <1>1, <3>2 DEF ThreadsOf
  <2>2. ASSUME NEW i \in 1 .. Len(s[q]) PROVE s[q][i] \in Members(l, q)
    <3>1. i - 1 \in 0 .. N /\ Entry(i - 1) = s[q][i]
      BY <1>1, <1>3
    <3>2. Nth(l, q)[i - 1] = s[q][i]
      BY <1>5, <3>1
    <3> QED BY <1>4, <3>1, <3>2 DEF Members
  <2> QED BY <2>1, <2>2 DEF ThreadsOf
<1>8. EndOf(l, q) = IF s[q] = <<>> THEN NULL ELSE s[q][Len(s[q])]
  <2>1. CASE s[q] = <<>>
    BY <2>1 DEF Threaded, HeadsOf, EndOf
  <2>2. CASE s[q] # <<>>
    <3> DEFINE e == s[q][Len(s[q])]
    <3>1. Len(s[q]) \in 1 .. Len(s[q]) /\ 1 \in 1 .. Len(s[q])
      BY <1>1, <2>2
    <3>2. l.head[q] = s[q][1] /\ l.head[q] # NULL
      BY <1>4, <2>2, <3>1 DEF Threaded, HeadsOf
    <3>3. e \in Members(l, q) /\ l.next[e] = NULL
      BY <1>7, <3>1 DEF Threaded, NextsOf, ThreadsOf
    <3>4. \A t \in Members(l, q) : l.next[t] = NULL => t = e
      <4> SUFFICES ASSUME NEW i \in 1 .. Len(s[q]), l.next[s[q][i]] = NULL
                   PROVE  s[q][i] = e
        BY <1>7 DEF ThreadsOf
      <4>1. l.next[s[q][i]] = IF i = Len(s[q]) THEN NULL ELSE s[q][i + 1]
        BY DEF Threaded, NextsOf
      <4>2. i # Len(s[q]) => i + 1 \in 1 .. Len(s[q])
        BY <1>1
      <4> QED BY <1>4, <4>1, <4>2
    <3>5. EndOf(l, q) = CHOOSE t \in Members(l, q) : l.next[t] = NULL
      BY <3>2 DEF EndOf
    <3>6. EndOf(l, q) = e
      <4> HIDE DEF e
      <4> QED BY <3>3, <3>4, <3>5
    <3> QED BY <2>2, <3>6
  <2> QED BY <2>1, <2>2
<1>9. ItemsOf(l, q) = s[q]
  <2>1. ItemsOf(l, q) = [n \in 1 .. Len(s[q]) |-> Nth(l, q)[n - 1]]
    BY <1>3, <1>7 DEF ItemsOf
  <2>2. \A n \in 1 .. Len(s[q]) : Nth(l, q)[n - 1] = s[q][n]
    <3> SUFFICES ASSUME NEW n \in 1 .. Len(s[q]) PROVE Nth(l, q)[n - 1] = s[q][n]
      OBVIOUS
    <3>1. n - 1 \in 0 .. N /\ Entry(n - 1) = s[q][n]
      BY <1>1, <1>3
    <3> QED BY <1>5, <3>1
  <2>3. s[q] = [n \in 1 .. Len(s[q]) |-> s[q][n]]
    BY <1>1
  <2> QED BY <2>1, <2>2, <2>3
<1> QED
  BY <1>6, <1>7, <1>8, <1>9

\* The sequences, read off the lists.
Queued(l) == [q \in Queues |-> ItemsOf(l, q)]

Listed(l) == Threaded(l, Queued(l))

LEMMA ThreadedOnce ==
  ASSUME NEW l, NEW s, Threaded(l, s)
  PROVE  Queued(l) = s /\ Listed(l)
<1>1. \A q \in Queues : ItemsOf(l, q) = s[q]
  BY ListsAre
<1>2. s = [q \in Queues |-> s[q]]
  BY DEF Threaded
<1>3. Queued(l) = s
  BY <1>1, <1>2 DEF Queued
<1> QED
  BY <1>3 DEF Listed

-----------------------------------------------------------------------------
(* What the operations do to the lists.                                    *)

\* enq() of a thread that is in no list and has no next.
LEMMA EnqThreads ==
  ASSUME NEW l, NEW s, Threaded(l, s), NEW q \in Queues, NEW t \in Threads,
         \A p \in Queues : t \notin Members(l, p), l.next[t] = NULL
  PROVE  Threaded(Enq(l, q, t), [s EXCEPT ![q] = Append(@, t)])
<1> DEFINE n == Len(s[q])
           e == s[q][n]
           s2 == [s EXCEPT ![q] = Append(@, t)]
           l2 == Enq(l, q, t)
<1>1. s \in [Queues -> Seq(Threads)] /\ n \in Nat /\ s[q] \in Seq(Threads)
  BY DEF Threaded
<1>2. \A p \in Queues : \A i \in 1 .. Len(s[p]) : s[p][i] \in Threads /\ s[p][i] # t
  BY <1>1, ListsAre DEF ThreadsOf
<1>3. /\ \A p \in Queues : p # q => s2[p] = s[p]
      /\ s2[q] = Append(s[q], t)
  BY <1>1
<1>4. /\ Len(s2[q]) = n + 1 /\ s2[q][n + 1] = t /\ s2[q] # <<>>
      /\ \A i \in 1 .. n : s2[q][i] = s[q][i]
  <2>1. /\ Len(Append(s[q], t)) = n + 1 /\ Append(s[q], t)[n + 1] = t
        /\ \A i \in 1 .. n : Append(s[q], t)[i] = s[q][i]
    BY <1>1
  <2>2. Append(s[q], t) # <<>>
    BY <1>1
  <2> HIDE DEF s2
  <2> QED BY <1>3, <2>1, <2>2
<1>5. s2 \in [Queues -> Seq(Threads)]
  BY <1>1
<1>6. l2 = IF n = 0 THEN [l EXCEPT !.head[q] = t] ELSE [l EXCEPT !.next[e] = t]
  <2>1. n = 0 <=> s[q] = <<>>
    BY <1>1
  <2>2. n # 0 => n \in 1 .. n
    BY <1>1
  <2>3. n # 0 => e \in Threads /\ e # NULL
    BY <1>2, <2>2, PreemptAssumption DEF PreemptAssumption
  <2>4. EndOf(l, q) = IF s[q] = <<>> THEN NULL ELSE e
    BY ListsAre
  <2> QED BY <2>1, <2>3, <2>4 DEF Enq, Link
<1>7. n # 0 => e \in Threads
  BY <1>1, <1>2
<1>8. LinksTyped(l)
  BY DEF Threaded
<1>9. /\ LinksTyped(l2)
      /\ \A p \in Queues : l2.head[p] = IF n = 0 /\ p = q THEN t ELSE l.head[p]
      /\ \A u \in Threads : l2.next[u] = IF n # 0 /\ u = e THEN t ELSE l.next[u]
  BY <1>6, <1>7, <1>8 DEF LinksTyped
<1> HIDE DEF s2, l2
<1>10. EachOnce(s2)
  <2> SUFFICES ASSUME NEW p1 \in Queues, NEW p2 \in Queues,
                      NEW i \in 1 .. Len(s2[p1]), NEW j \in 1 .. Len(s2[p2]),
                      s2[p1][i] = s2[p2][j]
               PROVE  p1 = p2 /\ i = j
    BY DEF EachOnce
  <2>1. EachOnce(s)
    BY DEF Threaded
  <2>2. ASSUME NEW p \in Queues, NEW k \in 1 .. Len(s2[p])
        PROVE  \/ p = q /\ k = n + 1 /\ s2[p][k] = t
               \/ k \in 1 .. Len(s[p]) /\ s2[p][k] = s[p][k]
    <3>1. CASE p # q
      BY <1>3, <3>1
    <3>2. CASE p = q
      <4>1. k \in 1 .. n \/ k = n + 1
        BY <1>1, <1>4, <3>2
      <4> QED BY <1>4, <3>2, <4>1
    <3> QED BY <3>1, <3>2
  <2>3. \/ p1 = q /\ i = n + 1 /\ s2[p1][i] = t
        \/ i \in 1 .. Len(s[p1]) /\ s2[p1][i] = s[p1][i]
    BY <2>2
  <2>4. \/ p2 = q /\ j = n + 1 /\ s2[p2][j] = t
        \/ j \in 1 .. Len(s[p2]) /\ s2[p2][j] = s[p2][j]
    BY <2>2
  <2> QED BY <1>2, <2>1, <2>3, <2>4 DEF EachOnce
<1>11. HeadsOf(l2, s2)
  <2> SUFFICES ASSUME NEW p \in Queues
               PROVE  l2.head[p] = IF s2[p] = <<>> THEN NULL ELSE s2[p][1]
    BY DEF HeadsOf
  <2>1. l.head[p] = IF s[p] = <<>> THEN NULL ELSE s[p][1]
    BY DEF Threaded, HeadsOf
  <2>2. CASE p # q
    BY <1>3, <1>9, <2>1, <2>2
  <2>3. CASE p = q
    <3>1. n = 0 <=> s[q] = <<>>
      BY <1>1
    <3>2. n # 0 => 1 \in 1 .. n
      BY <1>1
    <3> QED BY <1>4, <1>9, <2>1, <2>3, <3>1, <3>2
  <2> QED BY <2>2, <2>3
<1>12. NextsOf(l2, s2)
  <2> SUFFICES ASSUME NEW p \in Queues, NEW i \in 1 .. Len(s2[p])
               PROVE  l2.next[s2[p][i]] = IF i = Len(s2[p]) THEN NULL ELSE s2[p][i + 1]
    BY DEF NextsOf
  <2>1. NextsOf(l, s) /\ EachOnce(s)
    BY DEF Threaded
  <2>2. CASE p = q /\ i = n + 1
    <3>1. s2[p][i] = t /\ i = Len(s2[p])
      BY <1>4, <2>2
    <3>2. n # 0 => t # e
      BY <1>1, <1>2
    <3> QED BY <1>9, <3>1, <3>2
  <2>3. CASE ~(p = q /\ i = n + 1)
    <3>1. i \in 1 .. Len(s[p]) /\ s2[p][i] = s[p][i]
      BY <1>1, <1>3, <1>4, <2>3
    <3>2. s[p][i] \in Threads
      BY <1>2, <3>1
    <3>3. l.next[s[p][i]] = IF i = Len(s[p]) THEN NULL ELSE s[p][i + 1]
      BY <2>1, <3>1 DEF NextsOf
    <3>4. CASE p = q /\ i = n
      <4>1. n # 0 /\ s2[p][i] = e /\ Len(s2[p]) = i + 1 /\ s2[p][i + 1] = t
        BY <1>1, <1>4, <3>1, <3>4
      <4> QED BY <1>1, <1>7, <1>9, <4>1
    <3>5. CASE ~(p = q /\ i = n)
      <4>1. n # 0 => n \in 1 .. Len(s[q])
        BY <1>1
      <4>2. n # 0 => s[p][i] # e
        BY <2>1, <3>1, <3>5, <4>1 DEF EachOnce
      <4>3. l2.next[s2[p][i]] = l.next[s[p][i]]
        BY <1>9, <3>1, <3>2, <4>2
      <4>4. CASE p # q
        BY <1>3, <3>3, <4>3, <4>4
      <4>5. CASE p = q
        <5>1. i # n /\ i + 1 \in 1 .. n /\ i # Len(s2[p])
          BY <1>1, <1>4, <3>1, <3>5, <4>5
        <5>2. s2[p][i + 1] = s[p][i + 1]
          BY <1>4, <4>5, <5>1
        <5> QED BY <3>3, <4>3, <4>5, <5>1, <5>2
      <4> QED BY <4>4, <4>5
    <3> QED BY <3>4, <3>5
  <2> QED BY <2>2, <2>3
<1>13. Threaded(l2, s2)
  BY <1>5, <1>9, <1>10, <1>11, <1>12 DEF Threaded
<1> QED
  BY <1>13 DEF s2, l2

\* The first store of deq().
Popped1(l, q) == [l EXCEPT !.head[q] = l.next[l.head[q]]]

LEMMA PopThreads ==
  ASSUME NEW l, NEW s, Threaded(l, s), NEW q \in Queues, l.head[q] # NULL
  PROVE  /\ Threaded(Popped1(l, q), [s EXCEPT ![q] = Tail(@)])
         /\ s[q] # <<>> /\ l.head[q] = Head(s[q]) /\ l.head[q] \in Threads
         /\ \A i \in 1 .. Len(Tail(s[q])) : Tail(s[q])[i] # l.head[q]
         /\ \A p \in Queues : p # q => \A i \in 1 .. Len(s[p]) : s[p][i] # l.head[q]
<1> DEFINE h == l.head[q]
           s2 == [s EXCEPT ![q] = Tail(@)]
           l2 == Popped1(l, q)
<1>1. s \in [Queues -> Seq(Threads)] /\ s[q] \in Seq(Threads)
  BY DEF Threaded
<1>2. s[q] # <<>> /\ h = s[q][1]
  BY DEF Threaded, HeadsOf
<1>3. Len(s[q]) \in Nat \ {0} /\ 1 \in 1 .. Len(s[q]) /\ h \in Threads
  BY <1>1, <1>2
<1>4. /\ \A p \in Queues : p # q => s2[p] = s[p]
      /\ s2[q] = Tail(s[q])
  BY <1>1
<1>5. /\ Len(s2[q]) = Len(s[q]) - 1
      /\ \A i \in 1 .. Len(s2[q]) : s2[q][i] = s[q][i + 1] /\ i + 1 \in 1 .. Len(s[q])
  BY <1>1, <1>2, <1>4
<1>6. s2 \in [Queues -> Seq(Threads)]
  BY <1>1, <1>2
<1>7. EachOnce(s) /\ NextsOf(l, s) /\ LinksTyped(l) /\ HeadsOf(l, s)
  BY DEF Threaded
<1>8. /\ LinksTyped(l2)
      /\ \A p \in Queues : l2.head[p] = IF p = q THEN l.next[h] ELSE l.head[p]
      /\ l2.next = l.next
  BY <1>3, <1>7 DEF LinksTyped, Popped1
<1> HIDE DEF s2, l2
<1>9. ASSUME NEW p \in Queues, NEW i \in 1 .. Len(s2[p])
      PROVE  LET j == IF p = q THEN i + 1 ELSE i
             IN  j \in 1 .. Len(s[p]) /\ s2[p][i] = s[p][j]
  BY <1>4, <1>5
<1>10. EachOnce(s2)
  <2> SUFFICES ASSUME NEW p1 \in Queues, NEW p2 \in Queues,
                      NEW i \in 1 .. Len(s2[p1]), NEW j \in 1 .. Len(s2[p2]),
                      s2[p1][i] = s2[p2][j]
               PROVE  p1 = p2 /\ i = j
    BY DEF EachOnce
  <2> DEFINE i1 == IF p1 = q THEN i + 1 ELSE i
             j1 == IF p2 = q THEN j + 1 ELSE j
  <2>1. i1 \in 1 .. Len(s[p1]) /\ s2[p1][i] = s[p1][i1]
    BY <1>9
  <2>2. j1 \in 1 .. Len(s[p2]) /\ s2[p2][j] = s[p2][j1]
    BY <1>9
  <2>3. p1 = p2 /\ i1 = j1
    <3> HIDE DEF i1, j1
    <3>1. s[p1][i1] = s[p2][j1]
      BY <2>1, <2>2
    <3>2. \A x \in 1 .. Len(s[p1]), y \in 1 .. Len(s[p2]) :
            s[p1][x] = s[p2][y] => p1 = p2 /\ x = y
      BY <1>7 DEF EachOnce
    <3> QED BY <2>1, <2>2, <3>1, <3>2
  <2>4. p1 = p2 /\ i + 0 = i /\ j + 0 = j
    BY <2>3
  <2> QED BY <2>3, <2>4
<1>11. HeadsOf(l2, s2)
  <2> SUFFICES ASSUME NEW p \in Queues
               PROVE  l2.head[p] = IF s2[p] = <<>> THEN NULL ELSE s2[p][1]
    BY DEF HeadsOf
  <2>1. CASE p # q
    BY <1>4, <1>7, <1>8, <2>1 DEF HeadsOf
  <2>2. CASE p = q
    <3>1. l.next[h] = IF 1 = Len(s[q]) THEN NULL ELSE s[q][1 + 1]
      BY <1>2, <1>3, <1>7 DEF NextsOf
    <3>2. s2[q] = <<>> <=> Len(s2[q]) = 0
      BY <1>6
    <3>3. 1 # Len(s[q]) => 1 \in 1 .. Len(s2[q])
      <4>1. PICK n \in Nat \ {0} : n = Len(s[q])
        BY <1>3
      <4>2. Len(s2[q]) = n - 1
        BY <1>5, <4>1
      <4>3. n # 1 => 1 \in 1 .. (n - 1)
        OBVIOUS
      <4> QED BY <4>1, <4>2, <4>3
    <3>4. 1 # Len(s[q]) => s2[q][1] = s[q][1 + 1] /\ s2[q] # <<>>
      BY <1>5, <3>2, <3>3
    <3>5. l2.head[p] = l.next[h] /\ (1 = Len(s[q]) => s2[p] = <<>>)
      BY <1>5, <1>8, <2>2, <3>2
    <3> HIDE DEF h
    <3> QED BY <2>2, <3>1, <3>4, <3>5
  <2> QED BY <2>1, <2>2
<1>12. NextsOf(l2, s2)
  <2> SUFFICES ASSUME NEW p \in Queues, NEW i \in 1 .. Len(s2[p])
               PROVE  l2.next[s2[p][i]] = IF i = Len(s2[p]) THEN NULL ELSE s2[p][i + 1]
    BY DEF NextsOf
  <2>1. CASE p # q
    BY <1>4, <1>7, <1>8, <2>1 DEF NextsOf
  <2>2. CASE p = q
    <3>1. i + 1 \in 1 .. Len(s[q]) /\ s2[q][i] = s[q][i + 1]
      BY <1>5, <2>2
    <3>2. l.next[s[q][i + 1]] = IF i + 1 = Len(s[q]) THEN NULL ELSE s[q][i + 1 + 1]
      BY <1>7, <3>1 DEF NextsOf
    <3>3. i # Len(s2[q]) => i + 1 \in 1 .. Len(s2[q])
      BY <1>3, <1>5, <2>2
    <3>4. i = Len(s2[q]) <=> i + 1 = Len(s[q])
      BY <1>3, <1>5, <2>2
    <3> QED BY <1>5, <1>8, <2>2, <3>1, <3>2, <3>3, <3>4
  <2> QED BY <2>1, <2>2
<1>13. Threaded(l2, s2)
  BY <1>6, <1>8, <1>10, <1>11, <1>12 DEF Threaded
<1>14. \A i \in 1 .. Len(s2[q]) : s2[q][i] # h
  <2> SUFFICES ASSUME NEW i \in 1 .. Len(s2[q]) PROVE s2[q][i] # h
    OBVIOUS
  <2>1. i + 1 \in 1 .. Len(s[q]) /\ s2[q][i] = s[q][i + 1] /\ i + 1 # 1
    BY <1>5
  <2> QED BY <1>2, <1>3, <1>7, <2>1 DEF EachOnce
<1>15. \A p \in Queues : p # q => \A i \in 1 .. Len(s[p]) : s[p][i] # h
  BY <1>2, <1>3, <1>7 DEF EachOnce
<1>16. h = Head(s[q])
  BY <1>1, <1>2
<1> QED
  <2>1. s2[q] = Tail(s[q])
    BY <1>4
  <2> HIDE DEF h
  <2>2. Threaded(Popped1(l, q), [s EXCEPT ![q] = Tail(@)])
    BY <1>13 DEF s2, l2
  <2>3. s[q] # <<>> /\ h = Head(s[q]) /\ h \in Threads
    BY <1>2, <1>3, <1>16
  <2>4. \A i \in 1 .. Len(Tail(s[q])) : Tail(s[q])[i] # h
    BY <1>14, <2>1
  <2> QED BY <1>15, <2>2, <2>3, <2>4 DEF h

\* The second store of deq(), of a thread that is in no list.
LEMMA CutThreads ==
  ASSUME NEW l, NEW s, Threaded(l, s), NEW t \in Threads,
         \A p \in Queues : t \notin Members(l, p)
  PROVE  Threaded([l EXCEPT !.next[t] = NULL], s)
<1> DEFINE l2 == [l EXCEPT !.next[t] = NULL]
<1>1. \A p \in Queues : \A i \in 1 .. Len(s[p]) : s[p][i] # t
  BY ListsAre DEF ThreadsOf
<1>2. /\ LinksTyped(l2) /\ l2.head = l.head
      /\ \A u \in Threads : u # t => l2.next[u] = l.next[u]
  BY DEF Threaded, LinksTyped
<1>3. \A p \in Queues : \A i \in 1 .. Len(s[p]) : s[p][i] \in Threads
  BY DEF Threaded
<1> HIDE DEF l2
<1>4. HeadsOf(l2, s)
  BY <1>2 DEF Threaded, HeadsOf
<1>5. NextsOf(l2, s)
  BY <1>1, <1>2, <1>3 DEF Threaded, NextsOf
<1>6. Threaded(l2, s)
  BY <1>2, <1>4, <1>5 DEF Threaded
<1> QED BY <1>6 DEF l2

-----------------------------------------------------------------------------
(* The same in terms of who is in which list.                              *)

\* A thread that is in no list has no next.
Clean(l, t) == l.next[t] = NULL \/ \E q \in Queues : t \in Members(l, q)

LEMMA ListFacts ==
  ASSUME NEW l, Listed(l)
  PROVE  /\ LinksTyped(l)
         /\ \A q \in Queues : ~Endless(l, q) /\ Members(l, q) \subseteq Threads
         /\ \A q \in Queues : l.head[q] = NULL <=> Members(l, q) = {}
         /\ \A q \in Queues : l.head[q] # NULL => l.head[q] \in Members(l, q)
         /\ \A p, q \in Queues : p # q => Members(l, p) \cap Members(l, q) = {}
         /\ \A q \in Queues : EndOf(l, q) \in Threads \cup {NULL}
         /\ \A q \in Queues : EndOf(l, q) # NULL => l.next[EndOf(l, q)] = NULL
         /\ \A q \in Queues : EndOf(l, q) = NULL <=> l.head[q] = NULL
<1> DEFINE s == Queued(l)
<1>1. Threaded(l, s)
  BY DEF Listed
<1> HIDE DEF s
<1>2. LinksTyped(l) /\ EachOnce(s) /\ HeadsOf(l, s) /\ NextsOf(l, s)
  BY <1>1 DEF Threaded
<1>3. ASSUME NEW q \in Queues
      PROVE  /\ Members(l, q) = ThreadsOf(s[q]) /\ ~Endless(l, q)
             /\ EndOf(l, q) = IF s[q] = <<>> THEN NULL ELSE s[q][Len(s[q])]
  BY <1>1, ListsAre
<1>4. ASSUME NEW q \in Queues
      PROVE  /\ s[q] \in Seq(Threads) /\ Len(s[q]) \in Nat
             /\ s[q] = <<>> => ThreadsOf(s[q]) = {}
             /\ s[q] # <<>> => 1 \in 1 .. Len(s[q]) /\ Len(s[q]) \in 1 .. Len(s[q])
             /\ \A i \in 1 .. Len(s[q]) : s[q][i] \in Threads /\ s[q][i] # NULL
  BY <1>1, PreemptAssumption DEF Threaded, ThreadsOf, PreemptAssumption
<1>5. ASSUME NEW q \in Queues PROVE Members(l, q) \subseteq Threads
  BY <1>3, <1>4 DEF ThreadsOf
<1>6. ASSUME NEW q \in Queues
      PROVE  /\ l.head[q] = NULL <=> s[q] = <<>>
             /\ l.head[q] # NULL => l.head[q] \in Members(l, q)
  BY <1>2, <1>3, <1>4 DEF HeadsOf, ThreadsOf
<1>7. ASSUME NEW q \in Queues PROVE l.head[q] = NULL <=> Members(l, q) = {}
  BY <1>3, <1>4, <1>6
<1>8. ASSUME NEW p \in Queues, NEW q \in Queues, p # q
      PROVE  Members(l, p) \cap Members(l, q) = {}
  BY <1>2, <1>3, <1>8 DEF EachOnce, ThreadsOf
<1>9. ASSUME NEW q \in Queues
      PROVE  /\ EndOf(l, q) \in Threads \cup {NULL}
             /\ EndOf(l, q) # NULL => l.next[EndOf(l, q)] = NULL
             /\ EndOf(l, q) = NULL <=> l.head[q] = NULL
  BY <1>2, <1>3, <1>4, <1>6 DEF NextsOf
<1> QED
  BY <1>2, <1>3, <1>5, <1>6, <1>7, <1>8, <1>9

LEMMA EnqLists ==
  ASSUME NEW l, Listed(l), NEW q \in Queues, NEW t \in Threads,
         \A p \in Queues : t \notin Members(l, p), l.next[t] = NULL
  PROVE  /\ Listed(Enq(l, q, t))
         /\ Queued(Enq(l, q, t)) = [Queued(l) EXCEPT ![q] = Append(@, t)]
         /\ \A p \in Queues : p # q => Members(Enq(l, q, t), p) = Members(l, p)
         /\ Members(Enq(l, q, t), q) = Members(l, q) \cup {t}
         /\ \A u \in Threads : Clean(l, u) => Clean(Enq(l, q, t), u)
<1> DEFINE s == Queued(l)
           l2 == Enq(l, q, t)
           s2 == [s EXCEPT ![q] = Append(@, t)]
<1>1. Threaded(l, s)
  BY DEF Listed
<1>2. Threaded(l2, s2)
  <2> HIDE DEF s
  <2> QED BY <1>1, EnqThreads
<1>3. Queued(l2) = s2 /\ Listed(l2)
  <2> HIDE DEF s, s2, l2
  <2> QED BY <1>2, ThreadedOnce
<1>4. s \in [Queues -> Seq(Threads)]
  BY <1>1 DEF Threaded
<1>5. \A p \in Queues : Members(l, p) = ThreadsOf(s[p]) /\ Members(l2, p) = ThreadsOf(s2[p])
  <2> HIDE DEF s, s2, l2
  <2> QED BY <1>1, <1>2, ListsAre
<1>6. /\ \A p \in Queues : p # q => s2[p] = s[p]
      /\ s2[q] = Append(s[q], t)
  <2> HIDE DEF s
  <2> QED BY <1>4
<1>7. ThreadsOf(Append(s[q], t)) = ThreadsOf(s[q]) \cup {t}
  <2> HIDE DEF s
  <2> DEFINE a == Append(s[q], t)
             n == Len(s[q])
  <2>1. n \in Nat /\ Len(a) = n + 1 /\ a[n + 1] = t /\ \A i \in 1 .. n : a[i] = s[q][i]
    BY <1>4
  <2>2. \A i \in 1 .. n + 1 : i \in 1 .. n \/ i = n + 1
    BY <2>1
  <2>3. 1 .. n \subseteq 1 .. n + 1 /\ n + 1 \in 1 .. n + 1
    BY <2>1
  <2> HIDE DEF a, n
  <2>4. ThreadsOf(a) \subseteq ThreadsOf(s[q]) \cup {t}
    BY <2>1, <2>2 DEF ThreadsOf, n
  <2>5. ThreadsOf(s[q]) \cup {t} \subseteq ThreadsOf(a)
    BY <2>1, <2>3 DEF ThreadsOf, n
  <2> QED BY <2>4, <2>5 DEF a
<1>8. /\ \A p \in Queues : p # q => Members(l2, p) = Members(l, p)
      /\ Members(l2, q) = Members(l, q) \cup {t}
  <2> HIDE DEF s, s2, l2
  <2> QED BY <1>5, <1>6, <1>7
<1>9. ASSUME NEW u \in Threads, Clean(l, u) PROVE Clean(l2, u)
  <2>1. CASE \E p \in Queues : u \in Members(l, p)
    BY <1>8, <2>1 DEF Clean
  <2>2. CASE \A p \in Queues : u \notin Members(l, p)
    <3>1. l.next[u] = NULL
      BY <1>9, <2>2 DEF Clean
    <3>2. EndOf(l, q) # NULL => EndOf(l, q) \in Members(l, q)
      <4>1. s[q] # <<>> => Len(s[q]) \in 1 .. Len(s[q])
        <5> HIDE DEF s
        <5> QED BY <1>4
      <4>2. EndOf(l, q) = IF s[q] = <<>> THEN NULL ELSE s[q][Len(s[q])]
        <5> HIDE DEF s
        <5> QED BY <1>1, ListsAre
      <4> HIDE DEF s
      <4> QED BY <1>5, <4>1, <4>2 DEF ThreadsOf
    <3>3. LinksTyped(l)
      BY <1>1 DEF Threaded
    <3>4. l2.next[u] = NULL
      BY <2>2, <3>1, <3>2, <3>3 DEF Enq, Link, LinksTyped
    <3> QED BY <3>4 DEF Clean
  <2> QED BY <2>1, <2>2
<1> QED
  BY <1>3, <1>8, <1>9

LEMMA PopLists ==
  ASSUME NEW l, Listed(l), NEW q \in Queues, l.head[q] # NULL
  PROVE  /\ Listed(Popped1(l, q))
         /\ Queued(Popped1(l, q)) = [Queued(l) EXCEPT ![q] = Tail(@)]
         /\ Queued(l)[q] # <<>> /\ l.head[q] = Head(Queued(l)[q])
         /\ \A p \in Queues : p # q => Members(Popped1(l, q), p) = Members(l, p)
         /\ Members(Popped1(l, q), q) = Members(l, q) \ {l.head[q]}
         /\ \A p \in Queues : l.head[q] \notin Members(Popped1(l, q), p)
         /\ l.head[q] \in Members(l, q) /\ l.head[q] \in Threads
         /\ \A u \in Threads : Clean(l, u) /\ u # l.head[q] => Clean(Popped1(l, q), u)
<1> DEFINE s == Queued(l)
           l2 == Popped1(l, q)
           s2 == [s EXCEPT ![q] = Tail(@)]
           h == l.head[q]
<1>1. Threaded(l, s)
  BY DEF Listed
<1>2. /\ Threaded(l2, s2) /\ s[q] # <<>> /\ h = Head(s[q]) /\ h \in Threads
      /\ \A i \in 1 .. Len(Tail(s[q])) : Tail(s[q])[i] # h
      /\ \A p \in Queues : p # q => \A i \in 1 .. Len(s[p]) : s[p][i] # h
  <2> HIDE DEF s
  <2> QED BY <1>1, PopThreads
<1>3. Queued(l2) = s2 /\ Listed(l2)
  <2> HIDE DEF s, s2, l2
  <2> QED BY <1>2, ThreadedOnce
<1>4. s \in [Queues -> Seq(Threads)]
  BY <1>1 DEF Threaded
<1>5. \A p \in Queues : Members(l, p) = ThreadsOf(s[p]) /\ Members(l2, p) = ThreadsOf(s2[p])
  <2> HIDE DEF s, s2, l2
  <2> QED BY <1>1, <1>2, ListsAre
<1>6. /\ \A p \in Queues : p # q => s2[p] = s[p]
      /\ s2[q] = Tail(s[q])
  <2> HIDE DEF s
  <2> QED BY <1>4
<1>7. ThreadsOf(Tail(s[q])) = ThreadsOf(s[q]) \ {h}
  <2> HIDE DEF s, h
  <2> DEFINE a == Tail(s[q])
             n == Len(s[q])
  <2>1. /\ n \in Nat \ {0} /\ Len(a) = n - 1 /\ h = s[q][1]
        /\ \A i \in 1 .. (n - 1) : a[i] = s[q][i + 1]
    BY <1>2, <1>4
  <2>2. \A i \in 1 .. n : i = 1 \/ (i - 1 \in 1 .. (n - 1) /\ (i - 1) + 1 = i)
    BY <2>1
  <2>3. \A i \in 1 .. (n - 1) : i + 1 \in 1 .. n
    BY <2>1
  <2>4. \A i \in 1 .. (n - 1) : a[i] # h
    BY <1>2, <2>1
  <2> HIDE DEF a, n
  <2>5. ThreadsOf(a) \subseteq ThreadsOf(s[q]) \ {h}
    BY <2>1, <2>3, <2>4 DEF ThreadsOf, n
  <2>6. ThreadsOf(s[q]) \ {h} \subseteq ThreadsOf(a)
    <3> SUFFICES ASSUME NEW i \in 1 .. n, s[q][i] # h PROVE s[q][i] \in ThreadsOf(a)
      BY DEF ThreadsOf, n
    <3>1. i - 1 \in 1 .. (n - 1) /\ (i - 1) + 1 = i
      BY <2>1, <2>2
    <3>2. s[q][i] = a[i - 1]
      BY <2>1, <3>1
    <3> QED BY <2>1, <3>1, <3>2 DEF ThreadsOf
  <2> QED BY <2>5, <2>6 DEF a
<1>8. /\ \A p \in Queues : p # q => Members(l2, p) = Members(l, p)
      /\ Members(l2, q) = Members(l, q) \ {h}
  <2> HIDE DEF s, s2, l2, h
  <2> QED BY <1>5, <1>6, <1>7
<1>9. \A p \in Queues : h \notin Members(l2, p)
  <2> HIDE DEF s, s2, l2, h
  <2>1. \A p \in Queues : p # q => h \notin ThreadsOf(s[p])
    BY <1>2 DEF ThreadsOf
  <2> QED BY <1>5, <1>8, <2>1
<1>10. h \in Members(l, q)
  BY ListFacts
<1>11. ASSUME NEW u \in Threads, Clean(l, u), u # h PROVE Clean(l2, u)
  <2>1. l2.next = l.next
    BY <1>1 DEF Threaded, LinksTyped, Popped1
  <2>2. \A p \in Queues : u \in Members(l, p) => u \in Members(l2, p)
    <3> HIDE DEF s, s2, l2, h
    <3> QED BY <1>8, <1>11
  <2> HIDE DEF l2
  <2> QED BY <1>11, <2>1, <2>2 DEF Clean
<1> QED
  <2>1. Listed(Popped1(l, q)) /\ Queued(Popped1(l, q)) = [Queued(l) EXCEPT ![q] = Tail(@)]
    BY <1>3
  <2>2. Queued(l)[q] # <<>> /\ h = Head(Queued(l)[q]) /\ h \in Threads
    BY <1>2
  <2> HIDE DEF h, s, s2
  <2> QED BY <1>8, <1>9, <1>10, <1>11, <2>1, <2>2 DEF h

LEMMA CutLists ==
  ASSUME NEW l, Listed(l), NEW t \in Threads, \A p \in Queues : t \notin Members(l, p)
  PROVE  LET l2 == [l EXCEPT !.next[t] = NULL]
         IN  /\ Listed(l2) /\ Queued(l2) = Queued(l)
             /\ \A p \in Queues : Members(l2, p) = Members(l, p)
             /\ Clean(l2, t)
             /\ \A u \in Threads : Clean(l, u) => Clean(l2, u)
<1> DEFINE s == Queued(l)
           l2 == [l EXCEPT !.next[t] = NULL]
<1>1. Threaded(l, s)
  BY DEF Listed
<1>2. Threaded(l2, s)
  <2> HIDE DEF s
  <2> QED BY <1>1, CutThreads
<1>3. Queued(l2) = s /\ Listed(l2)
  <2> HIDE DEF s, l2
  <2> QED BY <1>2, ThreadedOnce
<1>4. \A p \in Queues : Members(l2, p) = Members(l, p)
  <2> HIDE DEF s, l2
  <2> QED BY <1>1, <1>2, ListsAre
<1>5. \A u \in Threads : l2.next[u] = IF u = t THEN NULL ELSE l.next[u]
  BY <1>1 DEF Threaded, LinksTyped
<1> HIDE DEF l2
<1>6. Clean(l2, t) /\ \A u \in Threads : Clean(l, u) => Clean(l2, u)
  BY <1>4, <1>5 DEF Clean
<1> QED
  BY <1>3, <1>4, <1>6 DEF l2

\* Both stores of deq().
LEMMA DeqLists ==
  ASSUME NEW l, Listed(l), NEW q \in Queues, l.head[q] # NULL,
         \A u \in Threads : Clean(l, u)
  PROVE  /\ Listed(Deq(l, q))
         /\ Queued(Deq(l, q)) = [Queued(l) EXCEPT ![q] = Tail(@)]
         /\ Queued(l)[q] # <<>> /\ l.head[q] = Head(Queued(l)[q])
         /\ \A p \in Queues : p # q => Members(Deq(l, q), p) = Members(l, p)
         /\ Members(Deq(l, q), q) = Members(l, q) \ {l.head[q]}
         /\ \A p \in Queues : l.head[q] \notin Members(Deq(l, q), p)
         /\ l.head[q] \in Members(l, q) /\ l.head[q] \in Threads
         /\ \A u \in Threads : Clean(Deq(l, q), u)
<1> DEFINE h == l.head[q]
           l1 == Popped1(l, q)
           l2 == [l1 EXCEPT !.next[h] = NULL]
<1>1. /\ Listed(l1) /\ Queued(l1) = [Queued(l) EXCEPT ![q] = Tail(@)]
      /\ Queued(l)[q] # <<>> /\ h = Head(Queued(l)[q])
      /\ \A p \in Queues : p # q => Members(l1, p) = Members(l, p)
      /\ Members(l1, q) = Members(l, q) \ {h}
      /\ \A p \in Queues : h \notin Members(l1, p)
      /\ h \in Members(l, q) /\ h \in Threads
      /\ \A u \in Threads : Clean(l, u) /\ u # h => Clean(l1, u)
  BY PopLists
<1>2. /\ Listed(l2) /\ Queued(l2) = Queued(l1)
      /\ \A p \in Queues : Members(l2, p) = Members(l1, p)
      /\ Clean(l2, h)
      /\ \A u \in Threads : Clean(l1, u) => Clean(l2, u)
  <2> HIDE DEF h, l1
  <2> QED BY <1>1, CutLists
<1>3. LinksTyped(l)
  BY ListFacts
<1>4. Deq(l, q) = l2
  BY <1>3 DEF Deq, Popped1, LinksTyped
<1> HIDE DEF l1, l2
<1> QED
  BY <1>1, <1>2, <1>4

-----------------------------------------------------------------------------
(***************************************************************************)
(* The invariant.  While the process runs, each thread is where the        *)
(* function it is in has put it.                                           *)
(***************************************************************************)

\* The steps at which the timer does no harm: outside those that use what the
\* threads share, or before the first of them.
SafeWindows == Windows \subseteq {"user", "new", "walk", "test", "swapped", "free"}

Steps == {"none", "new", "user", "walk", "wake", "link", "zombie", "pop", "take", "cut", "run",
          "switch", "swapped", "test", "note", "free", "lock", "done"}

Typed ==
  /\ cpu \in Threads /\ running \in Threads
  /\ at \in [Threads -> Steps]
  /\ call \in [Threads -> {"none", "yield", "join", "end"}]
  /\ handler \in [Threads -> BOOLEAN]
  /\ masked \in [Threads -> BOOLEAN]
  /\ item \in [Threads -> Threads \cup {NULL}]
  /\ last \in [Threads -> Threads \cup {NULL}]
  /\ nxt \in [Threads -> Threads \cup {NULL}]
  /\ target \in [Threads -> Threads \cup Mutexes \cup {NULL}]
  /\ join \in [Threads -> Threads \cup {NULL}]
  /\ zombie \in [Threads -> BOOLEAN]
  /\ freed \in [Threads -> BOOLEAN]
  /\ taken \in [Mutexes -> BOOLEAN]
  /\ holds \in [Threads -> SUBSET Mutexes]

\* Which steps each function has, and what a thread brings to them.
Errand(t) ==
  /\ handler[t] => at[t] \in Windows
  /\ at[t] \in {"none", "new", "user", "lock"} <=> call[t] = "none"
  /\ at[t] = "walk" => call[t] = "yield"
  /\ at[t] = "link" => call[t] \in {"yield", "end"}
  /\ at[t] \in {"wake", "zombie", "done"} => call[t] = "end"
  /\ at[t] = "swapped" => call[t] \in {"yield", "join"}
  /\ at[t] \in {"test", "note", "free"} => call[t] = "join"
  /\ call[t] = "join" => t = Main /\ target[t] \in Threads \ {Main}
  /\ call[t] = "end" => t # Main
  /\ at[t] = "lock" => target[t] \in Mutexes
  /\ call[t] \in {"join", "end"} \/ at[t] \in {"none", "new", "lock"} => holds[t] = {}
  /\ at[t] = "walk" /\ call[t] = "yield" => item[t] = t

Errands == \A t \in Threads : Errand(t)

\* Only the thread with the processor is inside a step of a function that
\* others can see, and what it has in its local variables is up to date.
Processor ==
  /\ at[cpu] \notin {"none", "done"}
  /\ \A t \in Threads \ {cpu} :
       at[t] \in {"none", "new", "swapped", "lock", "done"} \/ handler[t]
  /\ running = IF at[cpu] = "switch" THEN nxt[cpu] ELSE cpu
  /\ at[cpu] \in {"link", "pop", "take", "cut", "run", "switch"} /\ call[cpu] = "yield"
       => item[cpu] = cpu
  /\ at[cpu] \in {"wake", "link", "zombie", "pop", "take", "cut", "run", "switch"}
       /\ call[cpu] = "end" => item[cpu] = join[cpu]
  /\ at[cpu] = "link" => last[cpu] = EndOf(links, "ready")
  /\ at[cpu] \in {"take", "cut", "run", "switch"} => nxt[cpu] # NULL
  /\ at[cpu] = "take" => nxt[cpu] = links.head["ready"]

\* The threads that will have the processor, without anybody's help.
CanRun(t) == t \in Members(links, "ready") \/ (Popped /\ t = nxt[cpu])

\* Thread u has ended, or at least made ready who waits for that.
Over(u) == at[u] = "done" \/ (u = cpu /\ Midway /\ call[u] = "end")

JoinWaits(t) == t = Main /\ at[t] = "swapped" /\ call[t] = "join" /\ ~Over(target[t])

\* The steps that can be a thread's without its being in a queue.
Idle(t) == at[t] \in {"none", "done"}
Occupied(t) == t = cpu /\ ~(Midway /\ call[t] = "yield")

\* A thread is in the queue in which it belongs, and no thread is lost.
Places ==
  /\ Listed(links)
  /\ \A t \in Threads : Clean(links, t) \/ (at[cpu] = "cut" /\ t = nxt[cpu])
  /\ Popped => \A q \in Queues : nxt[cpu] \notin Members(links, q)
  /\ \A t \in Threads : CanRun(t) => ~Idle(t) /\ ~Occupied(t) /\ ~JoinWaits(t)
  /\ \A m \in Mutexes : \A t \in Members(links, m) :
       t # cpu /\ at[t] = "lock" /\ target[t] = m
  /\ \A t \in Threads :
       \/ Idle(t)
       \/ Occupied(t)
       \/ CanRun(t)
       \/ at[t] = "lock" /\ t \in Members(links, target[t])
       \/ t # cpu /\ JoinWaits(t)

\* Main joins a thread once, which knows it until it has made Main ready, and
\* whose context is freed only when it has ended.
Joins ==
  /\ ~Idle(Main)
  /\ \A u \in Threads :
       /\ freed[u] => at[u] = "done"
       /\ zombie[u] <=>
            \/ at[u] = "done"
            \/ u = cpu /\ call[u] = "end" /\ at[u] \in {"pop", "take", "cut", "run", "switch"}
       /\ join[u] # NULL => at[u] # "none"
       /\ join[u] # NULL /\ ~Over(u) =>
            /\ join[u] = Main /\ call[Main] = "join" /\ target[Main] = u
            /\ at[Main] \in {"pop", "take", "cut", "run", "switch", "swapped"}
  /\ call[Main] = "join" =>
       LET u == target[Main]
       IN  /\ at[u] # "none"
           /\ at[Main] = "free" => at[u] = "done"
           /\ at[Main] \in {"note", "pop", "take", "cut", "run", "switch"} => ~Over(u)
           /\ at[Main] \in {"pop", "take", "cut", "run", "switch", "swapped"} => join[u] = Main
           /\ at[Main] = "swapped" /\ cpu = Main => Over(u)

\* Thread t has mutex m, or has been handed it and has not run yet.
Owns(t, m) ==
  \/ m \in holds[t]
  \/ at[t] = "lock" /\ target[t] = m /\ t \notin Members(links, m)

\* A mutex that is taken is somebody's, and only such a one has waiters.
Locks ==
  \A m \in Mutexes :
    /\ taken[m] => \E t \in Threads : Owns(t, m)
    /\ Members(links, m) # {} => taken[m]

Sound == Typed /\ Errands /\ Processor /\ Places /\ Joins /\ Locks

PreemptInv == process \in {"runs", "exit"} /\ (process = "runs" => Sound)

LEMMA StartStep ==
  ASSUME SafeWindows, Sound, process = "runs", NEW t \in Threads, Start(t)
  PROVE  Sound' /\ process' = "runs"
<1>1. /\ cpu = t /\ ~handler[t] /\ at[t] = "new"
      /\ at' = [at EXCEPT ![t] = "user"]
      /\ masked' = [masked EXCEPT ![t] = TRUE]
      /\ UNCHANGED <<cpu, running, links, call, handler, item, last, nxt, target, join, zombie, freed, taken, holds, process>>
  BY DEF Start, Executes, GoesTo, Enter, Leaves, Takes, locals, fields, mutexes
<1>2. Typed'
  BY <1>1 DEF Typed, Sound, Steps
<1>3. Errands'
  BY <1>1 DEF Errands, Errand, Typed, Sound
<1>4. Processor'
  BY <1>1 DEF Processor, Errands, Errand, Typed, Sound
<1>5. Places'
  BY <1>1 DEF Places, Processor, Errands, Errand, Joins, Typed, Sound, CanRun, Popped, Midway, Over, JoinWaits, Idle, Occupied
<1>6. Joins'
  BY <1>1 DEF Joins, Places, Processor, Errands, Errand, Typed, Sound, CanRun, Popped, Over, JoinWaits, Midway, Idle, Occupied
<1>7. Locks'
  BY <1>1 DEF Locks, Owns, Errands, Errand, Typed, Sound
<1> QED
  BY <1>1, <1>2, <1>3, <1>4, <1>5, <1>6, <1>7 DEF Sound


LEMMA YieldStep ==
  ASSUME SafeWindows, Sound, process = "runs", NEW t \in Threads, Yield(t)
  PROVE  Sound' /\ process' = "runs"
<1>1. /\ cpu = t /\ ~handler[t] /\ at[t] = "user"
      /\ call' = [call EXCEPT ![t] = "yield"]
      /\ at' = [at EXCEPT ![t] = "walk"]
      /\ item' = [item EXCEPT ![t] = running]
      /\ UNCHANGED <<cpu, running, links, handler, masked, last, nxt, target, join, zombie, freed, taken, holds, process>>
  BY DEF Yield, Executes, GoesTo, Enter, Leaves, Takes, locals, fields, mutexes
<1>2. Typed'
  BY <1>1 DEF Typed, Sound, Steps
<1>3. Errands'
  BY <1>1 DEF Errands, Errand, Processor, Typed, Sound
<1>4. Processor'
  BY <1>1 DEF Processor, Errands, Errand, Typed, Sound
<1>5. Places'
  BY <1>1 DEF Places, Processor, Errands, Errand, Joins, Typed, Sound, CanRun, Popped, Midway, Over, JoinWaits, Idle, Occupied
<1>6. Joins'
  BY <1>1 DEF Joins, Places, Processor, Errands, Errand, Typed, Sound, CanRun, Popped, Over, JoinWaits, Midway, Idle, Occupied
<1>7. Locks'
  BY <1>1 DEF Locks, Owns, Errands, Errand, Typed, Sound
<1> QED
  BY <1>1, <1>2, <1>3, <1>4, <1>5, <1>6, <1>7 DEF Sound


LEMMA ExitStep ==
  ASSUME SafeWindows, Sound, process = "runs", NEW t \in Threads, Exit(t)
  PROVE  Sound' /\ process' = "runs"
<1>1. /\ cpu = t /\ ~handler[t] /\ at[t] = "user" /\ t # Main /\ holds[t] = {}
      /\ call' = [call EXCEPT ![t] = "end"]
      /\ at' = [at EXCEPT ![t] = "wake"]
      /\ item' = [item EXCEPT ![t] = join[t]]
      /\ UNCHANGED <<cpu, running, links, handler, masked, last, nxt, target, join, zombie, freed, taken, holds, process>>
  BY DEF Exit, Executes, GoesTo, Enter, Leaves, Takes, locals, fields, mutexes
<1>2. Typed'
  BY <1>1 DEF Typed, Sound, Steps
<1>3. Errands'
  BY <1>1 DEF Errands, Errand, Typed, Sound
<1>4. Processor'
  BY <1>1 DEF Processor, Errands, Errand, Typed, Sound
<1>5. Places'
  BY <1>1 DEF Places, Processor, Errands, Errand, Joins, Typed, Sound, CanRun, Popped, Midway, Over, JoinWaits, Idle, Occupied
<1>6. Joins'
  BY <1>1 DEF Joins, Places, Processor, Errands, Errand, Typed, Sound, CanRun, Popped, Over, JoinWaits, Midway, Idle, Occupied
<1>7. Locks'
  BY <1>1 DEF Locks, Owns, Errands, Errand, Typed, Sound
<1> QED
  BY <1>1, <1>2, <1>3, <1>4, <1>5, <1>6, <1>7 DEF Sound


LEMMA JoinStep ==
  ASSUME SafeWindows, Sound, process = "runs", NEW u \in Threads, Join(u)
  PROVE  Sound' /\ process' = "runs"
<1>1. /\ cpu = Main /\ ~handler[Main] /\ at[Main] = "user" /\ holds[Main] = {}
      /\ u # Main /\ at[u] # "none" /\ ~freed[u] /\ Main \in Threads
      /\ call' = [call EXCEPT ![Main] = "join"]
      /\ at' = [at EXCEPT ![Main] = "test"]
      /\ target' = [target EXCEPT ![Main] = u]
      /\ UNCHANGED <<cpu, running, links, handler, masked, item, last, nxt, join, zombie, freed, taken, holds, process>>
  BY PreemptAssumption DEF Join, PreemptAssumption, Executes, GoesTo, Enter, Leaves, Takes, locals, fields, mutexes
<1>2. Typed'
  BY <1>1 DEF Typed, Sound, Steps
<1>3. Errands'
  BY <1>1 DEF Errands, Errand, Typed, Sound
<1>4. Processor'
  BY <1>1 DEF Processor, Errands, Errand, Typed, Sound
<1>5. Places'
  BY <1>1 DEF Places, Processor, Errands, Errand, Joins, Typed, Sound, CanRun, Popped, Midway, Over, JoinWaits, Idle, Occupied
<1>6. Joins'
  BY <1>1 DEF Joins, Places, Processor, Errands, Errand, Typed, Sound, CanRun, Popped, Over, JoinWaits, Midway, Idle, Occupied
<1>7. Locks'
  BY <1>1 DEF Locks, Owns, Errands, Errand, Typed, Sound
<1> QED
  BY <1>1, <1>2, <1>3, <1>4, <1>5, <1>6, <1>7 DEF Sound


LEMMA TestStep ==
  ASSUME SafeWindows, Sound, process = "runs", NEW t \in Threads, Test(t)
  PROVE  Sound' /\ process' = "runs"
<1>1. /\ cpu = t /\ ~handler[t] /\ at[t] = "test"
      /\ at' = [at EXCEPT ![t] = IF zombie[target[t]] THEN "free" ELSE "note"]
      /\ UNCHANGED <<cpu, running, links, call, handler, masked, item, last, nxt, target, join, zombie, freed, taken, holds, process>>
  BY DEF Test, Executes, GoesTo, Enter, Leaves, Takes, locals, fields, mutexes
<1>2. Typed'
  BY <1>1 DEF Typed, Sound, Steps
<1>3. Errands'
  BY <1>1 DEF Errands, Errand, Typed, Sound
<1>4. Processor'
  BY <1>1 DEF Processor, Errands, Errand, Typed, Sound
<1>5. Places'
  BY <1>1 DEF Places, Processor, Errands, Errand, Joins, Typed, Sound, CanRun, Popped, Midway, Over, JoinWaits, Idle, Occupied
<1>6. Joins'
  BY <1>1 DEF Joins, Places, Processor, Errands, Errand, Typed, Sound, CanRun, Popped, Over, JoinWaits, Midway, Idle, Occupied
<1>7. Locks'
  BY <1>1 DEF Locks, Owns, Errands, Errand, Typed, Sound
<1> QED
  BY <1>1, <1>2, <1>3, <1>4, <1>5, <1>6, <1>7 DEF Sound


LEMMA SwapReturnsStep ==
  ASSUME SafeWindows, Sound, process = "runs", NEW t \in Threads, SwapReturns(t)
  PROVE  Sound' /\ process' = "runs"
<1>1. /\ cpu = t /\ ~handler[t] /\ at[t] = "swapped"
      /\ at' = [at EXCEPT ![t] = IF call[t] = "join" THEN "free" ELSE "user"]
      /\ call' = IF call[t] = "join" THEN call ELSE [call EXCEPT ![t] = "none"]
      /\ target' = IF call[t] = "join" THEN target ELSE [target EXCEPT ![t] = NULL]
      /\ UNCHANGED <<cpu, running, links, handler, masked, item, last, nxt, join, zombie, freed, taken, holds, process>>
  BY DEF SwapReturns, Executes, GoesTo, Enter, Leaves, Takes, locals, fields, mutexes
<1>2. Typed'
  BY <1>1 DEF Typed, Sound, Steps
<1>3. Errands'
  BY <1>1 DEF Errands, Errand, Typed, Sound
<1>4. Processor'
  BY <1>1 DEF Processor, Errands, Errand, Typed, Sound
<1>5. Places'
  BY <1>1 DEF Places, Processor, Errands, Errand, Joins, Typed, Sound, CanRun, Popped, Midway, Over, JoinWaits, Idle, Occupied
<1>6. Joins'
  BY <1>1 DEF Joins, Places, Processor, Errands, Errand, Typed, Sound, CanRun, Popped, Over, JoinWaits, Midway, Idle, Occupied
<1>7. Locks'
  BY <1>1 DEF Locks, Owns, Errands, Errand, Typed, Sound
<1> QED
  BY <1>1, <1>2, <1>3, <1>4, <1>5, <1>6, <1>7 DEF Sound


LEMMA FreeStep ==
  ASSUME SafeWindows, Sound, process = "runs", NEW t \in Threads, Free(t)
  PROVE  Sound' /\ process' = "runs"
<1>1. /\ cpu = t /\ ~handler[t] /\ at[t] = "free"
      /\ at' = [at EXCEPT ![t] = "user"]
      /\ call' = [call EXCEPT ![t] = "none"]
      /\ target' = [target EXCEPT ![t] = NULL]
      /\ freed' = [freed EXCEPT ![target[t]] = TRUE]
      /\ UNCHANGED <<cpu, running, links, handler, masked, item, last, nxt, join, zombie, taken, holds, process>>
  BY DEF Free, Executes, GoesTo, Enter, Leaves, Takes, locals, fields, mutexes
<1>2. Typed'
  BY <1>1 DEF Typed, Sound, Steps
<1>3. Errands'
  BY <1>1 DEF Errands, Errand, Typed, Sound
<1>4. Processor'
  BY <1>1 DEF Processor, Errands, Errand, Typed, Sound
<1>5. Places'
  BY <1>1 DEF Places, Processor, Errands, Errand, Joins, Typed, Sound, CanRun, Popped, Midway, Over, JoinWaits, Idle, Occupied
<1>6. Joins'
  BY <1>1 DEF Joins, Places, Processor, Errands, Errand, Typed, Sound, CanRun, Popped, Over, JoinWaits, Midway, Idle, Occupied
<1>7. Locks'
  BY <1>1 DEF Locks, Owns, Errands, Errand, Typed, Sound
<1> QED
  BY <1>1, <1>2, <1>3, <1>4, <1>5, <1>6, <1>7 DEF Sound


LEMMA TickReturnsStep ==
  ASSUME SafeWindows, Sound, process = "runs", NEW t \in Threads, TickReturns(t)
  PROVE  Sound' /\ process' = "runs"
<1>1. /\ cpu = t /\ handler[t]
      /\ handler' = [handler EXCEPT ![t] = FALSE]
      /\ masked' = [masked EXCEPT ![t] = FALSE]
      /\ UNCHANGED <<cpu, running, links, at, call, item, last, nxt, target, join, zombie, freed, taken, holds, process>>
  BY DEF TickReturns, Executes, GoesTo, Enter, Leaves, Takes, locals, fields, mutexes
<1>2. Typed'
  BY <1>1 DEF Typed, Sound, Steps
<1>3. Errands'
  BY <1>1 DEF Errands, Errand, Typed, Sound
<1>4. Processor'
  BY <1>1 DEF Processor, Errands, Errand, Typed, Sound
<1>5. Places'
  BY <1>1 DEF Places, Processor, Errands, Errand, Joins, Typed, Sound, CanRun, Popped, Midway, Over, JoinWaits, Idle, Occupied
<1>6. Joins'
  BY <1>1 DEF Joins, Places, Processor, Errands, Errand, Typed, Sound, CanRun, Popped, Over, JoinWaits, Midway, Idle, Occupied
<1>7. Locks'
  BY <1>1 DEF Locks, Owns, Errands, Errand, Typed, Sound
<1> QED
  BY <1>1, <1>2, <1>3, <1>4, <1>5, <1>6, <1>7 DEF Sound


LEMMA LockFreeStep ==
  ASSUME SafeWindows, Sound, process = "runs", NEW t \in Threads, NEW m \in Mutexes, LockFree(t, m)
  PROVE  Sound' /\ process' = "runs"
<1>1. /\ cpu = t /\ ~handler[t] /\ at[t] = "user" /\ holds[t] = {} /\ ~taken[m]
      /\ taken' = [taken EXCEPT ![m] = TRUE]
      /\ holds' = [holds EXCEPT ![t] = @ \cup {m}]
      /\ masked' = [masked EXCEPT ![t] = FALSE]
      /\ UNCHANGED <<cpu, running, links, at, call, handler, item, last, nxt, target, join, zombie, freed, process>>
  BY DEF LockFree, Executes, GoesTo, Enter, Leaves, Takes, locals, fields, mutexes
<1>2. Typed'
  BY <1>1 DEF Typed, Sound, Steps
<1>3. Errands'
  BY <1>1 DEF Errands, Errand, Typed, Sound
<1>4. Processor'
  BY <1>1 DEF Processor, Errands, Errand, Typed, Sound
<1>5. Places'
  BY <1>1 DEF Places, Processor, Errands, Errand, Joins, Typed, Sound, CanRun, Popped, Midway, Over, JoinWaits, Idle, Occupied
<1>6. Joins'
  BY <1>1 DEF Joins, Places, Processor, Errands, Errand, Typed, Sound, CanRun, Popped, Over, JoinWaits, Midway, Idle, Occupied
<1>7. Locks'
  BY <1>1 DEF Locks, Owns, Errands, Errand, Typed, Sound
<1> QED
  BY <1>1, <1>2, <1>3, <1>4, <1>5, <1>6, <1>7 DEF Sound


LEMMA LockReturnsStep ==
  ASSUME SafeWindows, Sound, process = "runs", NEW t \in Threads, LockReturns(t)
  PROVE  Sound' /\ process' = "runs"
<1>1. /\ cpu = t /\ ~handler[t] /\ at[t] = "lock"
      /\ at' = [at EXCEPT ![t] = "user"]
      /\ call' = [call EXCEPT ![t] = "none"]
      /\ target' = [target EXCEPT ![t] = NULL]
      /\ holds' = [holds EXCEPT ![t] = @ \cup {target[t]}]
      /\ masked' = [masked EXCEPT ![t] = FALSE]
      /\ UNCHANGED <<cpu, running, links, handler, item, last, nxt, join, zombie, freed, taken, process>>
  BY DEF LockReturns, Executes, GoesTo, Enter, Leaves, Takes, locals, fields, mutexes
<1>2. Typed'
  BY <1>1 DEF Errands, Errand, Typed, Sound, Steps
<1>3. Errands'
  BY <1>1 DEF Errands, Errand, Typed, Sound
<1>4. Processor'
  BY <1>1 DEF Processor, Errands, Errand, Typed, Sound
<1>5. Places'
  BY <1>1 DEF Places, Processor, Errands, Errand, Joins, Typed, Sound, CanRun, Popped, Midway, Over, JoinWaits, Idle, Occupied
<1>6. Joins'
  BY <1>1 DEF Joins, Places, Processor, Errands, Errand, Typed, Sound, CanRun, Popped, Over, JoinWaits, Midway, Idle, Occupied
<1>7. Locks'
  BY <1>1 DEF Locks, Owns, Errands, Errand, Typed, Sound
<1> QED
  BY <1>1, <1>2, <1>3, <1>4, <1>5, <1>6, <1>7 DEF Sound


LEMMA NoteStep ==
  ASSUME SafeWindows, Sound, process = "runs", NEW t \in Threads, Note(t)
  PROVE  Sound' /\ process' = "runs"
<1>1. /\ cpu = t /\ ~handler[t] /\ at[t] = "note"
      /\ join' = [join EXCEPT ![target[t]] = running]
      /\ at' = [at EXCEPT ![t] = "pop"]
      /\ UNCHANGED <<cpu, running, links, call, handler, masked, item, last, nxt, target, zombie, freed, taken, holds, process>>
  BY DEF Note, Executes, GoesTo, Enter, Leaves, Takes, locals, fields, mutexes
<1>2. Typed'
  BY <1>1 DEF Typed, Sound, Steps
<1>3. Errands'
  BY <1>1 DEF Errands, Errand, Typed, Sound
<1>4. Processor'
  BY <1>1 DEF Processor, Errands, Errand, Typed, Sound
<1>5. Places'
  BY <1>1 DEF Places, Processor, Errands, Errand, Joins, Typed, Sound, CanRun, Popped, Midway, Over, JoinWaits, Idle, Occupied
<1>6. Joins'
  BY <1>1 DEF Joins, Places, Processor, Errands, Errand, Typed, Sound, CanRun, Popped, Over, JoinWaits, Midway, Idle, Occupied
<1>7. Locks'
  BY <1>1 DEF Locks, Owns, Errands, Errand, Typed, Sound
<1> QED
  BY <1>1, <1>2, <1>3, <1>4, <1>5, <1>6, <1>7 DEF Sound


LEMMA BecomesZombieStep ==
  ASSUME SafeWindows, Sound, process = "runs", NEW t \in Threads, BecomesZombie(t)
  PROVE  Sound' /\ process' = "runs"
<1>1. /\ cpu = t /\ ~handler[t] /\ at[t] = "zombie"
      /\ zombie' = [zombie EXCEPT ![t] = TRUE]
      /\ at' = [at EXCEPT ![t] = "pop"]
      /\ UNCHANGED <<cpu, running, links, call, handler, masked, item, last, nxt, target, join, freed, taken, holds, process>>
  BY DEF BecomesZombie, Executes, GoesTo, Enter, Leaves, Takes, locals, fields, mutexes
<1>2. Typed'
  BY <1>1 DEF Typed, Sound, Steps
<1>3. Errands'
  BY <1>1 DEF Errands, Errand, Typed, Sound
<1>4. Processor'
  BY <1>1 DEF Processor, Errands, Errand, Typed, Sound
<1>5. Places'
  BY <1>1 DEF Places, Processor, Errands, Errand, Joins, Typed, Sound, CanRun, Popped, Midway, Over, JoinWaits, Idle, Occupied
<1>6. Joins'
  BY <1>1 DEF Joins, Places, Processor, Errands, Errand, Typed, Sound, CanRun, Popped, Over, JoinWaits, Midway, Idle, Occupied
<1>7. Locks'
  BY <1>1 DEF Locks, Owns, Errands, Errand, Typed, Sound
<1> QED
  BY <1>1, <1>2, <1>3, <1>4, <1>5, <1>6, <1>7 DEF Sound


LEMMA RunStep ==
  ASSUME SafeWindows, Sound, process = "runs", NEW t \in Threads, Run(t)
  PROVE  Sound' /\ process' = "runs"
<1>1. /\ cpu = t /\ ~handler[t] /\ at[t] = "run"
      /\ running' = nxt[t]
      /\ at' = [at EXCEPT ![t] = "switch"]
      /\ UNCHANGED <<cpu, links, call, handler, masked, item, last, nxt, target, join, zombie, freed, taken, holds, process>>
  BY DEF Run, Executes, GoesTo, Enter, Leaves, Takes, locals, fields, mutexes
<1>2. Typed'
  BY <1>1 DEF Processor, Typed, Sound, Steps
<1>3. Errands'
  BY <1>1 DEF Errands, Errand, Typed, Sound
<1>4. Processor'
  BY <1>1 DEF Processor, Errands, Errand, Typed, Sound
<1>5. Places'
  BY <1>1 DEF Places, Processor, Errands, Errand, Joins, Typed, Sound, CanRun, Popped, Midway, Over, JoinWaits, Idle, Occupied
<1>6. Joins'
  BY <1>1 DEF Joins, Places, Processor, Errands, Errand, Typed, Sound, CanRun, Popped, Over, JoinWaits, Midway, Idle, Occupied
<1>7. Locks'
  BY <1>1 DEF Locks, Owns, Errands, Errand, Typed, Sound
<1> QED
  BY <1>1, <1>2, <1>3, <1>4, <1>5, <1>6, <1>7 DEF Sound

-----------------------------------------------------------------------------
(* Somebody can always run: what a thread waits for is another's to give.  *)

LEMMA HolderRuns ==
  ASSUME Sound, holds[cpu] = {}, at[cpu] # "lock", NEW m \in Mutexes, taken[m]
  PROVE  \E t \in Threads : CanRun(t)
<1>1. PICK t \in Threads : Owns(t, m)
  BY DEF Sound, Locks
<1>2. t # cpu /\ ~(at[t] = "lock" /\ t \in Members(links, target[t]))
  BY <1>1 DEF Owns, Sound, Errands, Errand
<1>3. ~Idle(t) /\ ~JoinWaits(t)
  BY <1>1 DEF Owns, Idle, JoinWaits, Sound, Errands, Errand
<1> QED
  BY <1>2, <1>3 DEF Occupied, Sound, Places

LEMMA WaiterRuns ==
  ASSUME Sound, holds[cpu] = {}, at[cpu] # "lock",
         NEW w \in Threads, w # cpu, ~Idle(w), ~JoinWaits(w)
  PROVE  \E t \in Threads : CanRun(t)
<1>1. CanRun(w) \/ (at[w] = "lock" /\ w \in Members(links, target[w]))
  BY DEF Occupied, Sound, Places
<1>2. CASE at[w] = "lock" /\ w \in Members(links, target[w])
  <2>1. target[w] \in Mutexes
    BY <1>2 DEF Sound, Errands, Errand
  <2>2. taken[target[w]]
    BY <1>2, <2>1 DEF Sound, Locks
  <2> QED
    BY <2>1, <2>2, HolderRuns
<1> QED
  BY <1>1, <1>2

\* deq() finds a thread, whoever has called it.
LEMMA PopFinds ==
  ASSUME Sound, at[cpu] = "pop"
  PROVE  links.head["ready"] # NULL
<1>1. /\ cpu \in Threads /\ Main \in Threads /\ "ready" \in Queues
      /\ call[cpu] \in {"yield", "join", "end"}
      /\ Midway /\ ~Popped
  BY PreemptAssumption DEF PreemptAssumption, Queues, Sound, Typed, Errands, Errand, Midway, Popped
<1>2. \E t \in Threads : CanRun(t)
  <2>1. CASE call[cpu] = "yield"
    BY <1>1, <2>1 DEF Sound, Places, Idle, Occupied
  <2>2. CASE call[cpu] = "join"
    <3> DEFINE u == target[Main]
    <3>1. /\ cpu = Main /\ u \in Threads \ {Main} /\ at[u] # "none" /\ ~Over(u)
          /\ holds[cpu] = {}
      BY <1>1, <2>2 DEF Sound, Errands, Errand, Joins
    <3>2. ~Idle(u) /\ ~JoinWaits(u)
      BY <3>1 DEF Idle, Over, JoinWaits
    <3> QED BY <3>1, <3>2, WaiterRuns
  <2>3. CASE call[cpu] = "end"
    <3>1. cpu # Main /\ ~Idle(Main) /\ holds[cpu] = {} /\ Over(cpu)
      BY <1>1, <2>3 DEF Sound, Errands, Errand, Joins, Over
    <3>2. CASE JoinWaits(Main)
      <4> DEFINE u == target[Main]
      <4>1. u \in Threads \ {Main} /\ at[u] # "none" /\ ~Over(u)
        BY <1>1, <3>2 DEF JoinWaits, Sound, Errands, Errand, Joins
      <4>2. u # cpu /\ ~Idle(u) /\ ~JoinWaits(u)
        BY <3>1, <4>1 DEF Idle, Over, JoinWaits
      <4> QED BY <3>1, <4>1, <4>2, WaiterRuns
    <3>3. CASE ~JoinWaits(Main)
      BY <1>1, <3>1, <3>3, WaiterRuns
    <3> QED BY <3>2, <3>3
  <2> QED BY <1>1, <2>1, <2>2, <2>3
<1>3. Members(links, "ready") # {}
  BY <1>1, <1>2 DEF CanRun
<1>4. Listed(links)
  BY DEF Sound, Places
<1> QED
  BY <1>1, <1>3, <1>4, ListFacts

-----------------------------------------------------------------------------
(* The steps that change the lists.                                        *)

LEMMA WalkStep ==
  ASSUME SafeWindows, Sound, process = "runs", NEW t \in Threads, Walk(t)
  PROVE  Sound' /\ process' = "runs"
<1>1. Listed(links) /\ "ready" \in Queues
  BY DEF Sound, Places, Queues
<1>2. ~Endless(links, "ready") /\ EndOf(links, "ready") \in Threads \cup {NULL}
  BY <1>1, ListFacts
<1>3. /\ cpu = t /\ ~handler[t] /\ at[t] \in {"walk", "wake"}
      /\ last' = [last EXCEPT ![t] = EndOf(links, "ready")]
      /\ at' = [at EXCEPT ![t] = "link"]
      /\ UNCHANGED <<cpu, running, links, call, handler, masked, item, nxt, target, join, zombie, freed, taken, holds, process>>
  BY <1>2 DEF Walk, Executes, GoesTo, fields, mutexes, Sound, Typed
<1>4. Typed'
  BY <1>2, <1>3 DEF Typed, Sound, Steps
<1>5. Errands'
  BY <1>3 DEF SafeWindows, Errands, Errand, Typed, Sound
<1>6. Processor'
  BY <1>3 DEF Processor, Errands, Errand, Typed, Sound
<1>7. Places'
  BY <1>3 DEF Places, Processor, Errands, Errand, Joins, Typed, Sound, CanRun, Popped, Midway, Over, JoinWaits, Idle, Occupied
<1>8. Joins'
  BY <1>3 DEF Joins, Places, Processor, Errands, Errand, Typed, Sound, CanRun, Popped, Over, JoinWaits, Midway, Idle, Occupied
<1>9. Locks'
  BY <1>3 DEF Locks, Owns, Errands, Errand, Typed, Sound
<1> QED
  BY <1>3, <1>4, <1>5, <1>6, <1>7, <1>8, <1>9 DEF Sound

\* What enq() adds is in no list, and nobody has come in between.
LEMMA StoreAdds ==
  ASSUME SafeWindows, Sound, process = "runs", NEW t \in Threads, Store(t)
  PROVE  /\ last[t] = EndOf(links, "ready")
         /\ \/ call[t] = "yield" /\ item[t] = t
            \/ call[t] = "end" /\ item[t] = join[t]
         /\ item[t] # NULL =>
              /\ item[t] \in Threads /\ ~Idle(item[t])
              /\ item[t] # t => item[t] = Main /\ at[item[t]] = "swapped"
         /\ Listed(links')
         /\ Queued(links') = IF item[t] = NULL THEN Queued(links)
                             ELSE [Queued(links) EXCEPT !["ready"] = Append(@, item[t])]
         /\ Members(links', "ready") = Members(links, "ready") \cup ({item[t]} \ {NULL})
         /\ \A m \in Mutexes : Members(links', m) = Members(links, m)
         /\ \A u \in Threads : Clean(links, u) => Clean(links', u)
<1>1. Listed(links) /\ "ready" \in Queues /\ \A m \in Mutexes : m \in Queues /\ m # "ready"
  BY PreemptAssumption DEF PreemptAssumption, Sound, Places, Queues
<1>2. /\ cpu = t /\ ~handler[t] /\ at[t] = "link"
      /\ links' = Link(links, "ready", last[t], item[t])
      /\ at' = [at EXCEPT ![t] = IF call[t] = "end" THEN "zombie" ELSE "pop"]
      /\ UNCHANGED <<cpu, running, call, handler, masked, item, last, nxt, target, join, zombie, freed, taken, holds, process>>
  BY DEF Store, Executes, GoesTo, locals, fields, mutexes
<1>3. /\ last[t] = EndOf(links, "ready")
      /\ \/ call[t] = "yield" /\ item[t] = t
         \/ call[t] = "end" /\ item[t] = join[t]
      /\ item[t] \in Threads \cup {NULL}
  BY <1>2 DEF Sound, Processor, Errands, Errand, Typed
<1> DEFINE w == item[t]
<1>4. w # NULL =>
        /\ w \in Threads /\ links.next[w] = NULL
        /\ \A q \in Queues : w \notin Members(links, q)
        /\ w # t => w = Main /\ at[w] = "swapped"
        /\ ~Idle(w)
  <2> SUFFICES ASSUME w # NULL
               PROVE  /\ w \in Threads /\ links.next[w] = NULL
                      /\ \A q \in Queues : w \notin Members(links, q)
                      /\ w # t => w = Main /\ at[w] = "swapped"
                      /\ ~Idle(w)
    OBVIOUS
  <2>1. ~Midway /\ ~Popped /\ w \in Threads
    BY <1>2, <1>3 DEF Midway, Popped
  <2>2. ~CanRun(w) /\ at[w] # "lock" /\ ~Idle(w) /\ (w # t => w = Main /\ at[w] = "swapped")
    <3>1. CASE call[t] = "yield" /\ item[t] = t
      BY <1>2, <2>1, <3>1 DEF Sound, Places, Processor, Occupied, Idle
    <3>2. CASE call[t] = "end" /\ item[t] = join[t]
      <4>1. ~Over(t) /\ t # Main
        BY <1>2, <2>1, <3>2 DEF Over, Sound, Errands, Errand
      <4>2. /\ w = Main /\ call[Main] = "join" /\ target[Main] = t
            /\ at[Main] \in {"pop", "take", "cut", "run", "switch", "swapped"}
        BY <2>1, <3>2, <4>1 DEF Sound, Joins
      <4>3. at[Main] = "swapped"
        BY <1>2, <2>1, <4>1, <4>2 DEF SafeWindows, Sound, Processor, Errands, Errand
      <4>4. JoinWaits(Main)
        BY <4>1, <4>2, <4>3 DEF JoinWaits
      <4> QED BY <2>1, <4>2, <4>3, <4>4 DEF Sound, Places, Idle
    <3> QED BY <1>3, <3>1, <3>2
  <2>3. \A q \in Queues : w \notin Members(links, q)
    BY <2>2 DEF CanRun, Queues, Sound, Places
  <2>4. links.next[w] = NULL
    BY <1>2, <2>1, <2>3 DEF Sound, Places, Clean
  <2> QED BY <2>1, <2>2, <2>3, <2>4
<1>5. /\ Listed(links')
      /\ Queued(links') = IF item[t] = NULL THEN Queued(links)
                          ELSE [Queued(links) EXCEPT !["ready"] = Append(@, item[t])]
      /\ Members(links', "ready") = Members(links, "ready") \cup ({item[t]} \ {NULL})
      /\ \A m \in Mutexes : Members(links', m) = Members(links, m)
      /\ \A u \in Threads : Clean(links, u) => Clean(links', u)
  <2>1. CASE item[t] = NULL
    <3>1. LinksTyped(links) /\ (last[t] = NULL <=> links.head["ready"] = NULL)
          /\ (last[t] # NULL => links.next[last[t]] = NULL)
      BY <1>1, <1>3, ListFacts
    <3>2. links' = links
      BY <1>1, <1>2, <1>3, <2>1, <3>1 DEF Link, LinksTyped
    <3>3. \A q : Members(links, q) \ {NULL} = Members(links, q)
      BY DEF Members
    <3> QED BY <1>1, <2>1, <3>2
  <2>2. CASE item[t] # NULL
    <3>1. links' = Enq(links, "ready", item[t])
      BY <1>2, <1>3 DEF Enq
    <3>2. PICK u \in Threads : u = item[t]
      BY <1>4, <2>2
    <3>3. links.next[u] = NULL /\ \A q \in Queues : u \notin Members(links, q)
      BY <1>4, <2>2, <3>2
    <3>4. links' = Enq(links, "ready", u)
      BY <3>1, <3>2
    <3> QED BY <1>1, <2>2, <3>2, <3>3, <3>4, EnqLists
  <2> QED BY <2>1, <2>2
<1> QED
  BY <1>3, <1>4, <1>5

LEMMA StoreStep ==
  ASSUME SafeWindows, Sound, process = "runs", NEW t \in Threads, Store(t)
  PROVE  Sound' /\ process' = "runs"
<1> DEFINE w == item[t]
<1>1. Listed(links) /\ "ready" \in Queues /\ \A m \in Mutexes : m \in Queues /\ m # "ready"
  BY PreemptAssumption DEF PreemptAssumption, Sound, Places, Queues
<1>2. /\ cpu = t /\ ~handler[t] /\ at[t] = "link"
      /\ at' = [at EXCEPT ![t] = IF call[t] = "end" THEN "zombie" ELSE "pop"]
      /\ UNCHANGED <<cpu, running, call, handler, masked, item, last, nxt, target, join, zombie, freed, taken, holds, process>>
  BY DEF Store, Executes, GoesTo, locals, fields, mutexes
<1>3. /\ last[t] = EndOf(links, "ready")
      /\ \/ call[t] = "yield" /\ item[t] = t
         \/ call[t] = "end" /\ item[t] = join[t]
      /\ item[t] \in Threads \cup {NULL}
  BY StoreAdds DEF Sound, Typed
<1>4. w # NULL =>
        /\ w \in Threads
        /\ w # t => w = Main /\ at[w] = "swapped"
        /\ ~Idle(w)
  BY StoreAdds
<1>5. /\ Listed(links')
      /\ Members(links', "ready") = Members(links, "ready") \cup ({item[t]} \ {NULL})
      /\ \A m \in Mutexes : Members(links', m) = Members(links, m)
      /\ \A u \in Threads : Clean(links, u) => Clean(links', u)
  BY StoreAdds
<1>6. Typed'
  BY <1>2 DEF Typed, Sound, Steps
<1>7. Errands'
  BY <1>2, <1>3 DEF SafeWindows, Errands, Errand, Typed, Sound
<1>8. Processor'
  BY <1>2, <1>3 DEF Processor, Errands, Errand, Typed, Sound
<1>9. Places'
  <2>1. ~Popped /\ ~Popped' /\ ~Midway /\ Midway'
    BY <1>2 DEF Popped, Midway, Sound, Typed
  <2>2. \A u \in Threads : CanRun(u)' <=> CanRun(u) \/ (w # NULL /\ u = w)
    BY <1>4, <1>5, <2>1 DEF CanRun
  <2>3. \A u : Over(u)' <=> Over(u) \/ (u = t /\ call[t] = "end")
    BY <1>2, <2>1 DEF Over, Sound, Typed
  <2>4. \A u \in Threads : JoinWaits(u)' <=> JoinWaits(u) /\ ~(call[t] = "end" /\ target[u] = t)
    BY <1>2, <2>3 DEF JoinWaits, Sound, Typed
  <2>5. \A u \in Threads :
          /\ Idle(u)' <=> Idle(u)
          /\ Occupied(u)' <=> (u = t /\ call[t] # "yield")
          /\ Occupied(u) <=> u = t
    BY <1>2, <2>1 DEF Idle, Occupied, Sound, Typed
  <2>6. \A u \in Threads : Clean(links', u)
    BY <1>2, <1>5 DEF Sound, Places
  <2>7. \A u \in Threads : CanRun(u)' => ~Idle(u)' /\ ~Occupied(u)' /\ ~JoinWaits(u)'
    <3> SUFFICES ASSUME NEW u \in Threads, CanRun(u)'
                 PROVE  ~Idle(u)' /\ ~Occupied(u)' /\ ~JoinWaits(u)'
      OBVIOUS
    <3>1. CASE CanRun(u)
      BY <2>4, <2>5, <3>1 DEF Sound, Places
    <3>2. CASE w # NULL /\ u = w
      <4>1. call[t] = "yield" => u = t /\ ~JoinWaits(u)
        BY <1>2, <1>3, <3>2 DEF JoinWaits
      <4>2. call[t] = "end" => u # t /\ (JoinWaits(u) => target[u] = t)
        BY <1>2, <1>3, <1>4, <3>2, <2>1 DEF JoinWaits, Over, Sound, Joins, Errands, Errand
      <4> QED BY <1>3, <1>4, <2>4, <2>5, <3>2, <4>1, <4>2
    <3> QED BY <2>2, <3>1, <3>2
  <2>8. \A m \in Mutexes : \A u \in Members(links', m) :
          u # cpu' /\ at'[u] = "lock" /\ target'[u] = m
    BY <1>2, <1>5 DEF Sound, Places, Typed
  <2>9. ASSUME NEW u \in Threads
        PROVE  \/ Idle(u)'
               \/ Occupied(u)'
               \/ CanRun(u)'
               \/ at'[u] = "lock" /\ u \in Members(links', target'[u])
               \/ u # cpu' /\ JoinWaits(u)'
    <3>1. CASE u = t
      BY <1>2, <1>3, <1>4, <2>2, <2>5, <3>1, PreemptAssumption DEF PreemptAssumption
    <3>2. CASE u # t /\ at[u] = "lock" /\ u \in Members(links, target[u])
      BY <1>2, <1>5, <3>2 DEF Sound, Errands, Errand
    <3>3. CASE u # t /\ JoinWaits(u)
      <4>1. target[u] = t => w = u \/ call[t] # "end"
        BY <1>2, <1>3, <3>3 DEF JoinWaits, Sound, Joins
      <4> QED BY <1>2, <1>4, <2>2, <2>4, <3>3, <4>1, PreemptAssumption DEF PreemptAssumption
    <3> QED BY <2>2, <2>5, <3>1, <3>2, <3>3 DEF Sound, Places
  <2> QED BY <1>5, <2>1, <2>6, <2>7, <2>8, <2>9 DEF Places
<1>10. Joins'
  <2>1. ~Popped /\ ~Popped' /\ ~Midway /\ Midway'
    BY <1>2 DEF Popped, Midway, Sound, Typed
  <2>2. \A u : Over(u)' <=> Over(u) \/ (u = t /\ call[t] = "end")
    BY <1>2, <2>1 DEF Over, Sound, Typed
  <2>3. call[Main] = "join" => cpu # Main
    BY <1>2, <1>3
  <2>4. call[Main] = "join" => at[Main] \notin {"note", "pop", "take", "cut", "run", "switch"}
    BY <2>3, PreemptAssumption DEF PreemptAssumption, SafeWindows, Sound, Processor, Errands, Errand
  <2> QED
    BY <1>2, <1>3, <2>2, <2>3, <2>4, PreemptAssumption DEF PreemptAssumption, Joins, Errands, Errand, Typed, Sound, Idle
<1>11. Locks'
  BY <1>2, <1>5 DEF Locks, Owns, Errands, Errand, Typed, Sound
<1> QED
  BY <1>2, <1>6, <1>7, <1>8, <1>9, <1>10, <1>11 DEF Sound

LEMMA PopStep ==
  ASSUME SafeWindows, Sound, process = "runs", NEW t \in Threads, Pop(t)
  PROVE  Sound' /\ process' = "runs"
<1> DEFINE h == links.head["ready"]
<1>1. cpu = t /\ ~handler[t] /\ at[t] = "pop" /\ h # NULL
  BY PopFinds DEF Pop, Executes
<1>2. h \in Threads
  BY <1>1, ListFacts DEF Sound, Places, Queues
<1> HIDE DEF h
<1>3. /\ nxt' = [nxt EXCEPT ![t] = h]
      /\ at' = [at EXCEPT ![t] = "take"]
      /\ UNCHANGED <<cpu, running, links, call, handler, masked, item, last, target, join, zombie, freed, taken, holds, process>>
  BY <1>1 DEF h, Pop, GoesTo, fields, mutexes, Sound, Typed
<1>4. Typed'
  BY <1>2, <1>3 DEF Typed, Sound, Steps
<1>5. Errands'
  BY <1>1, <1>3 DEF SafeWindows, Errands, Errand, Typed, Sound
<1>6. Processor'
  BY <1>1, <1>2, <1>3 DEF h, Processor, Errands, Errand, Typed, Sound
<1>7. Places'
  BY <1>1, <1>3 DEF Places, Processor, Errands, Errand, Joins, Typed, Sound, CanRun, Popped, Midway, Over, JoinWaits, Idle, Occupied
<1>8. Joins'
  BY <1>1, <1>3 DEF Joins, Places, Processor, Errands, Errand, Typed, Sound, CanRun, Popped, Over, JoinWaits, Midway, Idle, Occupied
<1>9. Locks'
  BY <1>1, <1>3 DEF Locks, Owns, Errands, Errand, Typed, Sound
<1> QED
  BY <1>3, <1>4, <1>5, <1>6, <1>7, <1>8, <1>9 DEF Sound

\* The first store of deq(), of a list that has a head.
LEMMA HeadTaken ==
  ASSUME NEW l, LinksTyped(l), NEW q \in Queues
  PROVE  [l EXCEPT !.head[q] = l.next[@]] = Popped1(l, q)
BY DEF LinksTyped, Popped1

LEMMA TakeStep ==
  ASSUME SafeWindows, Sound, process = "runs", NEW t \in Threads, Take(t)
  PROVE  Sound' /\ process' = "runs"
<1> DEFINE h == links.head["ready"]
<1>1. Listed(links) /\ "ready" \in Queues /\ \A m \in Mutexes : m \in Queues /\ m # "ready"
  BY PreemptAssumption DEF PreemptAssumption, Sound, Places, Queues
<1>2. cpu = t /\ ~handler[t] /\ at[t] = "take" /\ h # NULL /\ nxt[t] = h
  BY DEF Take, Executes, Sound, Processor
<1>3. /\ links' = Popped1(links, "ready")
      /\ at' = [at EXCEPT ![t] = "cut"]
      /\ UNCHANGED <<cpu, running, call, handler, masked, item, last, nxt, target, join, zombie, freed, taken, holds, process>>
  BY <1>1, <1>2, HeadTaken, ListFacts DEF Take, GoesTo, locals, fields, mutexes
<1>4. /\ Listed(links')
      /\ Members(links', "ready") = Members(links, "ready") \ {h}
      /\ \A m \in Mutexes : Members(links', m) = Members(links, m)
      /\ \A q \in Queues : h \notin Members(links', q)
      /\ h \in Members(links, "ready") /\ h \in Threads
      /\ \A u \in Threads : Clean(links, u) /\ u # h => Clean(links', u)
  BY <1>1, <1>2, <1>3, PopLists
<1> HIDE DEF h
<1>5. Typed'
  BY <1>3, <1>4 DEF Typed, Sound, Steps
<1>6. Errands'
  BY <1>2, <1>3 DEF SafeWindows, Errands, Errand, Typed, Sound
<1>7. Processor'
  BY <1>2, <1>3 DEF Processor, Errands, Errand, Typed, Sound
<1>8. Places'
  BY <1>1, <1>2, <1>3, <1>4 DEF Places, Processor, Errands, Errand, Joins, Typed, Sound, CanRun, Popped, Midway, Over, JoinWaits, Idle, Occupied
<1>9. Joins'
  BY <1>2, <1>3 DEF Joins, Places, Processor, Errands, Errand, Typed, Sound, CanRun, Popped, Over, JoinWaits, Midway, Idle, Occupied
<1>10. Locks'
  BY <1>2, <1>3, <1>4 DEF Locks, Owns, Errands, Errand, Typed, Sound
<1> QED
  BY <1>3, <1>5, <1>6, <1>7, <1>8, <1>9, <1>10 DEF Sound

LEMMA CutStep ==
  ASSUME SafeWindows, Sound, process = "runs", NEW t \in Threads, Cut(t)
  PROVE  Sound' /\ process' = "runs"
<1>1. Listed(links) /\ "ready" \in Queues /\ \A m \in Mutexes : m \in Queues /\ m # "ready"
  BY PreemptAssumption DEF PreemptAssumption, Sound, Places, Queues
<1>2. /\ cpu = t /\ ~handler[t] /\ at[t] = "cut"
      /\ links' = [links EXCEPT !.next[nxt[t]] = NULL]
      /\ at' = [at EXCEPT ![t] = "run"]
      /\ UNCHANGED <<cpu, running, call, handler, masked, item, last, nxt, target, join, zombie, freed, taken, holds, process>>
  BY DEF Cut, Executes, GoesTo, locals, fields, mutexes
<1>3. nxt[t] \in Threads /\ \A q \in Queues : nxt[t] \notin Members(links, q)
  BY <1>2 DEF Sound, Processor, Places, Popped, Typed
<1>4. /\ Listed(links')
      /\ \A q \in Queues : Members(links', q) = Members(links, q)
      /\ Clean(links', nxt[t])
      /\ \A u \in Threads : Clean(links, u) => Clean(links', u)
  BY <1>1, <1>2, <1>3, CutLists
<1>5. Typed'
  BY <1>2 DEF Typed, Sound, Steps
<1>6. Errands'
  BY <1>2 DEF SafeWindows, Errands, Errand, Typed, Sound
<1>7. Processor'
  BY <1>2 DEF Processor, Errands, Errand, Typed, Sound
<1>8. Places'
  <2>1. Popped /\ Popped' /\ Midway /\ Midway'
    BY <1>2 DEF Popped, Midway, Sound, Typed, Processor
  <2>2. \A u \in Threads : CanRun(u)' <=> CanRun(u)
    BY <1>1, <1>2, <1>4, <2>1 DEF CanRun
  <2>3. \A u \in Threads : JoinWaits(u)' <=> JoinWaits(u)
    BY <1>2, <2>1 DEF JoinWaits, Over, Sound, Typed
  <2>4. \A u \in Threads : (Idle(u)' <=> Idle(u)) /\ (Occupied(u)' <=> Occupied(u))
    BY <1>2, <2>1 DEF Idle, Occupied, Sound, Typed
  <2>5. \A u \in Threads : Clean(links', u)
    BY <1>2, <1>4 DEF Sound, Places
  <2>6. \A m \in Mutexes : \A u \in Members(links', m) :
          u # cpu' /\ at'[u] = "lock" /\ target'[u] = m
    <3> SUFFICES ASSUME NEW m \in Mutexes, NEW u \in Members(links', m)
                 PROVE  u # cpu' /\ at'[u] = "lock" /\ target'[u] = m
      OBVIOUS
    <3>1. u \in Members(links, m)
      BY <1>1, <1>4
    <3>2. u # t /\ at[u] = "lock" /\ target[u] = m
      BY <1>2, <3>1 DEF Sound, Places
    <3> QED BY <1>2, <3>2 DEF Sound, Typed
  <2>7. \A u \in Threads : at[u] = "lock" /\ u \in Members(links, target[u])
          => at'[u] = "lock" /\ u \in Members(links', target'[u])
    BY <1>1, <1>2, <1>4 DEF Sound, Typed, Errands, Errand
  <2>8. \A q \in Queues : nxt'[cpu'] \notin Members(links', q)
    BY <1>2, <1>3, <1>4
  <2> QED
    BY <1>2, <1>4, <2>2, <2>3, <2>4, <2>5, <2>6, <2>7, <2>8 DEF Sound, Places
<1>9. Joins'
  BY <1>2 DEF Joins, Places, Processor, Errands, Errand, Typed, Sound, CanRun, Popped, Over, JoinWaits, Midway, Idle, Occupied
<1>10. Locks'
  BY <1>1, <1>2, <1>4 DEF Locks, Owns, Errands, Errand, Typed, Sound
<1> QED
  BY <1>2, <1>5, <1>6, <1>7, <1>8, <1>9, <1>10 DEF Sound

\* A thread that has left the processor is not inside a step that others see.
LEMMA AwayFrom ==
  ASSUME SafeWindows, Sound, NEW u \in Threads, u # cpu
  PROVE  at[u] \in {"none", "new", "swapped", "lock", "done", "user", "walk", "test", "free"}
BY DEF SafeWindows, Sound, Processor, Errands, Errand

LEMMA SwitchStep ==
  ASSUME SafeWindows, Sound, process = "runs", NEW t \in Threads, Switch(t)
  PROVE  Sound' /\ process' = "runs"
<1> DEFINE n == nxt[t]
<1>1. Listed(links) /\ "ready" \in Queues /\ \A m \in Mutexes : m \in Queues /\ m # "ready"
  BY PreemptAssumption DEF PreemptAssumption, Sound, Places, Queues
<1>2. /\ cpu = t /\ ~handler[t] /\ at[t] = "switch"
      /\ at' = [at EXCEPT ![t] = IF call[t] = "end" THEN "done" ELSE "swapped"]
      /\ item' = [item EXCEPT ![t] = NULL]
      /\ last' = [last EXCEPT ![t] = NULL]
      /\ nxt' = [nxt EXCEPT ![t] = NULL]
      /\ SwitchTo(nxt[t])
      /\ UNCHANGED <<running, links, call, handler, masked, target, join, zombie, freed, taken, holds>>
  BY DEF Switch, Executes, GoesTo, fields, mutexes
<1>3. Popped /\ Midway /\ n \in Threads /\ n # NULL /\ CanRun(n)
  BY <1>2 DEF Popped, Midway, CanRun, Sound, Processor, Typed
<1>4. ~Idle(n) /\ ~Occupied(n) /\ ~JoinWaits(n) /\ (n = t => call[t] = "yield")
  BY <1>2, <1>3 DEF Sound, Places, Occupied
<1>5. ~freed[n] /\ at'[n] # "done" /\ at'[n] # "none"
  BY <1>2, <1>3, <1>4 DEF Idle, Sound, Joins, Typed
<1>6. cpu' = n /\ process' = process
  BY <1>2, <1>3, <1>5 DEF SwitchTo
<1>7. at'[n] \in {"new", "swapped", "lock", "user", "walk", "test", "free"}
  BY <1>2, <1>4, <1>5, AwayFrom, <1>3 DEF Sound, Typed
<1>8. Typed'
  BY <1>2, <1>3, <1>6 DEF Typed, Sound, Steps
<1>9. Errands'
  BY <1>2 DEF SafeWindows, Errands, Errand, Typed, Sound
<1>10. Processor'
  <2>1. running' = cpu'
    BY <1>2, <1>6 DEF Sound, Processor
  <2>2. \A u \in Threads \ {n} :
          at'[u] \in {"none", "new", "swapped", "lock", "done"} \/ handler'[u]
    BY <1>2 DEF Sound, Processor, Typed
  <2> HIDE DEF n
  <2> QED BY <1>6, <1>7, <2>1, <2>2 DEF Processor
<1>11. ~Popped' /\ ~Midway'
  BY <1>6, <1>7 DEF Popped, Midway
<1>12. \A u \in Threads : Over(u)' <=> Over(u)
  BY <1>2, <1>3, <1>11 DEF Over, Sound, Typed, Errands, Errand
<1>13. \A u \in Threads : JoinWaits(u)' <=> (JoinWaits(u) \/ (u = t /\ call[t] = "join"))
  <2>1. ASSUME NEW u \in Threads, u # t PROVE JoinWaits(u)' <=> JoinWaits(u)
    <3>1. call[u] = "join" => target[u] \in Threads
      BY DEF Sound, Errands, Errand
    <3> QED BY <1>2, <1>12, <2>1, <3>1 DEF JoinWaits
  <2>2. JoinWaits(t)' <=> call[t] = "join"
    <3>1. call[t] = "join" => t = Main /\ target[t] \in Threads /\ ~Over(target[t])
      BY <1>2 DEF Sound, Errands, Errand, Joins
    <3>2. call[t] = "join" => at'[t] = "swapped"
      BY <1>2 DEF Sound, Typed
    <3> QED BY <1>2, <1>12, <3>1, <3>2 DEF JoinWaits
  <2>3. ~JoinWaits(t)
    BY <1>2 DEF JoinWaits
  <2> QED BY <2>1, <2>2, <2>3
<1>14. \A u \in Threads : CanRun(u)' <=> (CanRun(u) /\ u # n)
  BY <1>1, <1>2, <1>3, <1>6, <1>11 DEF CanRun, Sound, Places
<1>15. \A u \in Threads :
         /\ Idle(u)' <=> (Idle(u) \/ (u = t /\ call[t] = "end"))
         /\ Occupied(u)' <=> u = n
         /\ Occupied(u) <=> (u = t /\ call[t] # "yield")
  BY <1>2, <1>3, <1>6, <1>11 DEF Idle, Occupied, Sound, Typed
<1> HIDE DEF n
<1>16. Places'
  <2>1. \A u \in Threads : Clean(links', u)
    BY <1>2 DEF Sound, Places
  <2>2. \A u \in Threads : CanRun(u)' => ~Idle(u)' /\ ~Occupied(u)' /\ ~JoinWaits(u)'
    <3> SUFFICES ASSUME NEW u \in Threads, CanRun(u)'
                 PROVE  ~Idle(u)' /\ ~Occupied(u)' /\ ~JoinWaits(u)'
      OBVIOUS
    <3>1. CanRun(u) /\ u # n /\ ~Idle(u) /\ ~Occupied(u) /\ ~JoinWaits(u)
      BY <1>14 DEF Sound, Places
    <3> QED BY <1>13, <1>15, <3>1
  <2>3. \A m \in Mutexes : \A u \in Members(links', m) :
          u # cpu' /\ at'[u] = "lock" /\ target'[u] = m
    <3> SUFFICES ASSUME NEW m \in Mutexes, NEW u \in Members(links, m)
                 PROVE  u # n /\ at'[u] = "lock" /\ target'[u] = m
      BY <1>2, <1>6
    <3>1. u # t /\ at[u] = "lock" /\ target[u] = m /\ u # n
      BY <1>1, <1>2, <1>3 DEF n, Sound, Places
    <3> QED BY <1>2, <3>1 DEF Sound, Typed
  <2>4. ASSUME NEW u \in Threads
        PROVE  \/ Idle(u)'
               \/ Occupied(u)'
               \/ CanRun(u)'
               \/ at'[u] = "lock" /\ u \in Members(links', target'[u])
               \/ u # cpu' /\ JoinWaits(u)'
    <3>1. CASE u = t
      <4>1. call[t] = "yield" => CanRun(t)
        BY <1>2, <1>15 DEF Sound, Places, Idle
      <4>2. call[t] \in {"yield", "join", "end"}
        BY <1>2 DEF Sound, Errands, Errand, Typed
      <4> QED BY <1>4, <1>6, <1>13, <1>14, <1>15, <3>1, <4>1, <4>2
    <3>2. CASE u # t /\ at[u] = "lock" /\ u \in Members(links, target[u])
      BY <1>2, <3>2 DEF Sound, Typed
    <3>3. CASE u # t /\ JoinWaits(u)
      BY <1>4, <1>6, <1>13, <3>3
    <3> QED BY <1>14, <1>15, <3>1, <3>2, <3>3 DEF Sound, Places
  <2> QED BY <1>1, <1>2, <1>11, <2>1, <2>2, <2>3, <2>4 DEF Places
<1>17. Joins'
  <2>1. Main \in Threads /\ (call[Main] = "join" => target[Main] \in Threads \ {Main})
    BY PreemptAssumption DEF PreemptAssumption, Sound, Errands, Errand
  <2>2. Main = n /\ at'[Main] = "swapped" /\ call[Main] = "join" => Over(target[Main])
    <3> SUFFICES ASSUME Main = n, at'[Main] = "swapped", call[Main] = "join"
                 PROVE  Over(target[Main])
      OBVIOUS
    <3>1. Main # t /\ at[Main] = "swapped"
      BY <1>2, <1>4 DEF Sound, Typed
    <3> QED BY <1>4, <3>1 DEF JoinWaits
  <2>3. ~Idle(Main)'
    BY <1>15, <2>1 DEF Sound, Joins, Errands, Errand
  <2>4. \A u \in Threads :
         /\ freed'[u] => at'[u] = "done"
         /\ zombie'[u] <=>
              \/ at'[u] = "done"
              \/ u = cpu' /\ call'[u] = "end" /\ at'[u] \in {"pop", "take", "cut", "run", "switch"}
         /\ join'[u] # NULL => at'[u] # "none"
    BY <1>2, <1>6, <1>7 DEF Sound, Joins, Typed, Errands, Errand
  <2>5. \A u \in Threads : join'[u] # NULL /\ ~Over(u)' =>
            /\ join'[u] = Main /\ call'[Main] = "join" /\ target'[Main] = u
            /\ at'[Main] \in {"pop", "take", "cut", "run", "switch", "swapped"}
    BY <1>2, <1>12, <2>1 DEF Sound, Joins, Typed
  <2>6. ASSUME call[Main] = "join", NEW u, u = target[Main]
        PROVE  /\ at'[u] # "none"
               /\ at'[Main] = "free" => at'[u] = "done"
               /\ at'[Main] \in {"note", "pop", "take", "cut", "run", "switch"} => ~Over(u)'
               /\ at'[Main] \in {"pop", "take", "cut", "run", "switch", "swapped"} => join[u] = Main
               /\ at'[Main] = "swapped" /\ cpu' = Main => Over(u)'
    <3>1. at'[Main] \in {"note", "pop", "take", "cut", "run", "switch"} => at'[Main] = at[Main]
      BY <1>2, <2>1 DEF Sound, Typed
    <3>2. at'[Main] = "free" => at'[Main] = at[Main]
      BY <1>2, <2>1 DEF Sound, Typed
    <3>3. u \in Threads /\ (Over(u)' <=> Over(u)) /\ at'[u] # "none"
      BY <1>2, <1>12, <2>1, <2>6 DEF Sound, Joins, Typed
    <3>4. at'[Main] = "free" => at'[u] = "done"
      BY <1>2, <2>6, <3>2, <3>3 DEF Sound, Joins, Typed
    <3>5. at'[Main] \in {"pop", "take", "cut", "run", "switch", "swapped"}
            => at[Main] \in {"pop", "take", "cut", "run", "switch", "swapped"}
      BY <1>2, <2>1 DEF Sound, Typed
    <3> QED BY <1>6, <2>2, <2>6, <3>1, <3>3, <3>4, <3>5 DEF Sound, Joins
  <2> QED BY <1>2, <2>3, <2>4, <2>5, <2>6 DEF Joins
<1>18. Locks'
  BY <1>2 DEF Locks, Owns, Errands, Errand, Typed, Sound
<1> QED
  BY <1>6, <1>8, <1>9, <1>10, <1>16, <1>17, <1>18 DEF Sound

LEMMA CreateLists ==
  ASSUME SafeWindows, Sound, process = "runs", NEW t \in Threads, NEW new \in Threads,
         Create(t, new)
  PROVE  /\ cpu = t /\ ~handler[t] /\ at[t] = "user" /\ at[new] = "none"
         /\ at' = [at EXCEPT ![new] = "new"]
         /\ masked' = [masked EXCEPT ![new] = masked[t], ![t] = FALSE]
         /\ links' = Enq(links, "ready", new)
         /\ UNCHANGED <<cpu, running, call, handler, item, last, nxt, target, join, zombie, freed, taken, holds, process>>
         /\ links.next[new] = NULL /\ \A q \in Queues : new \notin Members(links, q)
         /\ Listed(links')
         /\ Members(links', "ready") = Members(links, "ready") \cup {new}
         /\ \A m \in Mutexes : Members(links', m) = Members(links, m)
         /\ \A u \in Threads : Clean(links, u) => Clean(links', u)
         /\ Queued(links') = [Queued(links) EXCEPT !["ready"] = Append(@, new)]
<1>1. Listed(links) /\ "ready" \in Queues /\ \A m \in Mutexes : m \in Queues /\ m # "ready"
  BY PreemptAssumption DEF PreemptAssumption, Sound, Places, Queues
<1>2. ~Endless(links, "ready")
  BY <1>1, ListFacts
<1>3. /\ cpu = t /\ ~handler[t] /\ at[t] = "user" /\ at[new] = "none"
      /\ at' = [at EXCEPT ![new] = "new"]
      /\ masked' = [masked EXCEPT ![new] = masked[t], ![t] = FALSE]
      /\ links' = Enq(links, "ready", new)
      /\ UNCHANGED <<cpu, running, call, handler, item, last, nxt, target, join, zombie, freed, taken, holds, process>>
  BY <1>2 DEF Create, Executes, GoesTo, locals, fields, mutexes
<1>4. ~Midway /\ ~Popped /\ ~Midway' /\ ~Popped' /\ new # t
  BY <1>3 DEF Midway, Popped, Sound, Typed
<1>5. links.next[new] = NULL /\ \A q \in Queues : new \notin Members(links, q)
  <2>1. \A q \in Queues : new \notin Members(links, q)
    BY <1>3 DEF Queues, CanRun, Idle, Sound, Places
  <2> QED BY <1>3, <2>1 DEF Clean, Sound, Places
<1>6. /\ Listed(links')
      /\ Members(links', "ready") = Members(links, "ready") \cup {new}
      /\ \A m \in Mutexes : Members(links', m) = Members(links, m)
      /\ \A u \in Threads : Clean(links, u) => Clean(links', u)
      /\ Queued(links') = [Queued(links) EXCEPT !["ready"] = Append(@, new)]
  BY <1>1, <1>3, <1>5, EnqLists
<1> QED
  BY <1>3, <1>5, <1>6

LEMMA CreateStep ==
  ASSUME SafeWindows, Sound, process = "runs", NEW t \in Threads, NEW new \in Threads,
         Create(t, new)
  PROVE  Sound' /\ process' = "runs"
<1>1. Listed(links) /\ "ready" \in Queues /\ \A m \in Mutexes : m \in Queues /\ m # "ready"
  BY PreemptAssumption DEF PreemptAssumption, Sound, Places, Queues
<1>3. /\ cpu = t /\ ~handler[t] /\ at[t] = "user" /\ at[new] = "none"
      /\ at' = [at EXCEPT ![new] = "new"]
      /\ masked' = [masked EXCEPT ![new] = masked[t], ![t] = FALSE]
      /\ links' = Enq(links, "ready", new)
      /\ UNCHANGED <<cpu, running, call, handler, item, last, nxt, target, join, zombie, freed, taken, holds, process>>
  BY CreateLists
<1>4. ~Midway /\ ~Popped /\ ~Midway' /\ ~Popped' /\ new # t
  BY <1>3 DEF Midway, Popped, Sound, Typed
<1>5. links.next[new] = NULL /\ \A q \in Queues : new \notin Members(links, q)
  BY CreateLists
<1>6. /\ Listed(links')
      /\ Members(links', "ready") = Members(links, "ready") \cup {new}
      /\ \A m \in Mutexes : Members(links', m) = Members(links, m)
      /\ \A u \in Threads : Clean(links, u) => Clean(links', u)
  BY CreateLists
<1>7. Typed'
  BY <1>3 DEF Typed, Sound, Steps
<1>8. Errands'
  BY <1>3 DEF SafeWindows, Errands, Errand, Typed, Sound
<1>9. Processor'
  BY <1>3, <1>4 DEF Processor, Errands, Errand, Typed, Sound
<1>10. Places'
  BY <1>1, <1>3, <1>4, <1>5, <1>6 DEF Places, Processor, Errands, Errand, Typed, Sound, CanRun, Over, JoinWaits, Idle, Occupied
<1>11. Joins'
  BY <1>3, <1>4 DEF Joins, Errands, Errand, Typed, Sound, Over, Idle
<1>12. Locks'
  BY <1>3, <1>6 DEF Locks, Owns, Errands, Errand, Typed, Sound
<1> QED
  BY <1>3, <1>7, <1>8, <1>9, <1>10, <1>11, <1>12 DEF Sound

LEMMA UnlockLists ==
  ASSUME SafeWindows, Sound, process = "runs", NEW t \in Threads, NEW m \in Mutexes,
         Unlock(t, m)
  PROVE  LET w == links.head[m]
         IN  /\ cpu = t /\ ~handler[t] /\ at[t] = "user" /\ m \in holds[t]
             /\ holds' = [holds EXCEPT ![t] = @ \ {m}]
             /\ taken' = [taken EXCEPT ![m] = w # NULL]
             /\ masked' = [masked EXCEPT ![t] = FALSE]
             /\ links' = IF w = NULL THEN links ELSE Enq(Deq(links, m), "ready", w)
             /\ UNCHANGED <<cpu, running, at, call, handler, item, last, nxt, target, join, zombie, freed, process>>
             /\ Listed(links')
             /\ \A u \in Threads : Clean(links', u)
             /\ Members(links', "ready") = Members(links, "ready") \cup ({w} \ {NULL})
             /\ Members(links', m) = Members(links, m) \ {w}
             /\ \A x \in Mutexes : x # m => Members(links', x) = Members(links, x)
             /\ w # NULL => w \in Members(links, m) /\ w \in Threads
             /\ w = IF Queued(links)[m] = <<>> THEN NULL ELSE Head(Queued(links)[m])
             /\ Queued(links') =
                  IF w = NULL THEN Queued(links)
                  ELSE [Queued(links) EXCEPT ![m] = Tail(@), !["ready"] = Append(@, w)]
<1> DEFINE w == links.head[m]
<1>1. Listed(links) /\ "ready" \in Queues /\ m \in Queues /\ \A x \in Mutexes : x \in Queues /\ x # "ready"
  BY PreemptAssumption DEF PreemptAssumption, Sound, Places, Queues
<1>2. ~Endless(links, "ready") /\ (w = NULL <=> Members(links, m) = {})
  BY <1>1, ListFacts
<1>3. /\ cpu = t /\ ~handler[t] /\ at[t] = "user" /\ m \in holds[t]
      /\ holds' = [holds EXCEPT ![t] = @ \ {m}]
      /\ taken' = [taken EXCEPT ![m] = w # NULL]
      /\ masked' = [masked EXCEPT ![t] = FALSE]
      /\ links' = IF w = NULL THEN links ELSE Enq(Deq(links, m), "ready", w)
      /\ UNCHANGED <<cpu, running, at, call, handler, item, last, nxt, target, join, zombie, freed, process>>
  BY <1>2 DEF Unlock, Executes, locals, fields, mutexes
<1>4. ~Midway /\ ~Popped /\ ~Midway' /\ ~Popped'
  BY <1>3 DEF Midway, Popped, Sound, Typed
<1>5. \A u \in Threads : Clean(links, u)
  BY <1>3 DEF Sound, Places
<1>6. /\ Listed(links')
      /\ \A u \in Threads : Clean(links', u)
      /\ Members(links', "ready") = Members(links, "ready") \cup ({w} \ {NULL})
      /\ Members(links', m) = Members(links, m) \ {w}
      /\ \A x \in Mutexes : x # m => Members(links', x) = Members(links, x)
      /\ w # NULL => w \in Members(links, m) /\ w \in Threads
      /\ w = IF Queued(links)[m] = <<>> THEN NULL ELSE Head(Queued(links)[m])
      /\ Queued(links') =
           IF w = NULL THEN Queued(links)
           ELSE [Queued(links) EXCEPT ![m] = Tail(@), !["ready"] = Append(@, w)]
  <2> DEFINE s == Queued(links)
  <2>3. /\ s \in [Queues -> Seq(Threads)]
        /\ w = IF s[m] = <<>> THEN NULL ELSE s[m][1]
    BY <1>1 DEF Listed, Threaded, HeadsOf
  <2>4. w = IF s[m] = <<>> THEN NULL ELSE Head(s[m])
    <3> HIDE DEF s, w
    <3> QED BY <1>1, <2>3
  <2>1. CASE w = NULL
    BY <1>1, <1>2, <1>3, <1>5, <2>1, <2>4
  <2>2. CASE w # NULL
    <3> DEFINE l1 == Deq(links, m)
    <3>1. /\ Listed(l1) /\ Queued(l1) = [s EXCEPT ![m] = Tail(@)]
          /\ \A p \in Queues : p # m => Members(l1, p) = Members(links, p)
          /\ Members(l1, m) = Members(links, m) \ {w}
          /\ \A p \in Queues : w \notin Members(l1, p)
          /\ w \in Members(links, m) /\ w \in Threads
          /\ \A u \in Threads : Clean(l1, u)
      BY <1>1, <1>5, <2>2, DeqLists
    <3> HIDE DEF l1, w, s
    <3>2. l1.next[w] = NULL
      BY <3>1 DEF Clean
    <3>3. /\ Listed(Enq(l1, "ready", w))
          /\ Queued(Enq(l1, "ready", w)) = [Queued(l1) EXCEPT !["ready"] = Append(@, w)]
          /\ \A p \in Queues : p # "ready" => Members(Enq(l1, "ready", w), p) = Members(l1, p)
          /\ Members(Enq(l1, "ready", w), "ready") = Members(l1, "ready") \cup {w}
          /\ \A u \in Threads : Clean(l1, u) => Clean(Enq(l1, "ready", w), u)
      BY <1>1, <3>1, <3>2, EnqLists
    <3>4. links' = Enq(l1, "ready", w)
      BY <1>3, <2>2 DEF l1, w
    <3>5. Queued(links') = [s EXCEPT ![m] = Tail(@), !["ready"] = Append(@, w)]
      BY <3>1, <3>3, <3>4
    <3> QED BY <1>1, <2>2, <2>4, <3>1, <3>3, <3>4, <3>5 DEF s
  <2> QED BY <2>1, <2>2
<1> QED
  BY <1>3, <1>6

LEMMA UnlockStep ==
  ASSUME SafeWindows, Sound, process = "runs", NEW t \in Threads, NEW m \in Mutexes,
         Unlock(t, m)
  PROVE  Sound' /\ process' = "runs"
<1> DEFINE w == links.head[m]
<1>1. Listed(links) /\ "ready" \in Queues /\ m \in Queues /\ \A x \in Mutexes : x \in Queues /\ x # "ready"
  BY PreemptAssumption DEF PreemptAssumption, Sound, Places, Queues
<1>2. w = NULL <=> Members(links, m) = {}
  BY <1>1, ListFacts
<1>3. /\ cpu = t /\ ~handler[t] /\ at[t] = "user" /\ m \in holds[t]
      /\ holds' = [holds EXCEPT ![t] = @ \ {m}]
      /\ taken' = [taken EXCEPT ![m] = w # NULL]
      /\ masked' = [masked EXCEPT ![t] = FALSE]
      /\ links' = IF w = NULL THEN links ELSE Enq(Deq(links, m), "ready", w)
      /\ UNCHANGED <<cpu, running, at, call, handler, item, last, nxt, target, join, zombie, freed, process>>
  BY UnlockLists
<1>4. ~Midway /\ ~Popped /\ ~Midway' /\ ~Popped'
  BY <1>3 DEF Midway, Popped, Sound, Typed
<1>6. /\ Listed(links')
      /\ \A u \in Threads : Clean(links', u)
      /\ Members(links', "ready") = Members(links, "ready") \cup ({w} \ {NULL})
      /\ Members(links', m) = Members(links, m) \ {w}
      /\ \A x \in Mutexes : x # m => Members(links', x) = Members(links, x)
      /\ w # NULL => w \in Members(links, m) /\ w \in Threads
  BY UnlockLists
<1>7. w # NULL => at[w] = "lock" /\ target[w] = m /\ w # t
  BY <1>3, <1>6 DEF Sound, Places
<1> HIDE DEF w
<1>8. Typed'
  BY <1>3 DEF Typed, Sound, Steps
<1>9. Errands'
  BY <1>3 DEF SafeWindows, Errands, Errand, Typed, Sound
<1>10. Processor'
  BY <1>3, <1>4 DEF Processor, Errands, Errand, Typed, Sound
<1>11. Places'
  BY <1>1, <1>3, <1>4, <1>6, <1>7 DEF Places, Processor, Errands, Errand, Typed, Sound, CanRun, Over, JoinWaits, Idle, Occupied
<1>12. Joins'
  BY <1>3, <1>4 DEF Joins, Errands, Errand, Typed, Sound, Over, Idle
<1>13. Locks'
  <2> SUFFICES ASSUME NEW x \in Mutexes
               PROVE  /\ taken'[x] => \E u \in Threads : Owns(u, x)'
                      /\ Members(links', x) # {} => taken'[x]
    BY DEF Locks
  <2>1. CASE x = m
    BY <1>2, <1>3, <1>6, <1>7, <2>1 DEF w, Owns, Sound, Typed
  <2>2. CASE x # m
    <3>1. taken'[x] = taken[x] /\ Members(links', x) = Members(links, x)
      BY <1>3, <1>6, <2>2 DEF Sound, Typed
    <3>2. \A u \in Threads : Owns(u, x) => Owns(u, x)'
      BY <1>3, <2>2, <3>1 DEF Owns, Sound, Typed
    <3> QED BY <3>1, <3>2 DEF Sound, Locks
  <2> QED BY <2>1, <2>2
<1> QED
  BY <1>3, <1>8, <1>9, <1>10, <1>11, <1>12, <1>13 DEF Sound

LEMMA TickLists ==
  ASSUME SafeWindows, Sound, process = "runs", NEW t \in Threads, Tick(t)
  PROVE  \E h \in Threads :
           /\ cpu = t /\ ~handler[t] /\ at[t] \in {"user", "new", "walk", "test", "swapped", "free"}
           /\ running = t /\ ~Midway /\ ~Popped /\ Occupied(t)
           /\ running' = h
           /\ handler' = [handler EXCEPT ![t] = TRUE]
           /\ masked' = [masked EXCEPT ![t] = TRUE]
           /\ at[t] \in Windows
           /\ UNCHANGED <<at, call, item, last, nxt, target, join, zombie, freed, taken, holds>>
           /\ Listed(links')
           /\ Members(links', "ready") = (Members(links, "ready") \cup {t}) \ {h}
           /\ \A m \in Mutexes : Members(links', m) = Members(links, m)
           /\ \A u \in Threads : Clean(links', u)
           /\ h \in Threads /\ (h = t \/ h \in Members(links, "ready"))
           /\ (h = t \/ (CanRun(h) /\ ~Idle(h) /\ ~Occupied(h) /\ ~JoinWaits(h)))
           /\ at[h] \in {"new", "swapped", "lock", "user", "walk", "test", "free"}
           /\ cpu' = h /\ process' = process
           /\ h = Head(Append(Queued(links)["ready"], t))
           /\ Queued(links') = [Queued(links) EXCEPT !["ready"] = Tail(Append(@, t))]
<1> DEFINE queue == Enq(links, "ready", t)
           h == queue.head["ready"]
<1>1. Listed(links) /\ "ready" \in Queues /\ \A m \in Mutexes : m \in Queues /\ m # "ready"
  BY PreemptAssumption DEF PreemptAssumption, Sound, Places, Queues
<1>2. ~Endless(links, "ready")
  BY <1>1, ListFacts
<1>3. cpu = t /\ ~handler[t] /\ at[t] \in {"user", "new", "walk", "test", "swapped", "free"}
  BY DEF Tick, SafeWindows
<1>4. running = t /\ ~Midway /\ ~Popped /\ Occupied(t)
  BY <1>3 DEF Midway, Popped, Occupied, Sound, Processor
<1>5. links.next[t] = NULL /\ \A q \in Queues : t \notin Members(links, q)
  <2>1. \A q \in Queues : t \notin Members(links, q)
    BY <1>3, <1>4 DEF Queues, CanRun, Sound, Places
  <2> QED BY <1>3, <2>1 DEF Clean, Sound, Places
<1>6. \A u \in Threads : Clean(links, u)
  BY <1>3 DEF Sound, Places
<1>7. /\ Listed(queue) /\ Queued(queue) = [Queued(links) EXCEPT !["ready"] = Append(@, t)]
      /\ \A q \in Queues : q # "ready" => Members(queue, q) = Members(links, q)
      /\ Members(queue, "ready") = Members(links, "ready") \cup {t}
      /\ \A u \in Threads : Clean(queue, u)
  BY <1>1, <1>5, <1>6, EnqLists
<1>8. h # NULL
  <2> HIDE DEF queue
  <2> QED BY <1>1, <1>7, ListFacts
<1>9. /\ Listed(Deq(queue, "ready"))
      /\ Queued(Deq(queue, "ready")) = [Queued(queue) EXCEPT !["ready"] = Tail(@)]
      /\ h = Head(Queued(queue)["ready"])
      /\ \A q \in Queues : q # "ready" => Members(Deq(queue, "ready"), q) = Members(queue, q)
      /\ Members(Deq(queue, "ready"), "ready") = Members(queue, "ready") \ {h}
      /\ h \in Members(queue, "ready") /\ h \in Threads
      /\ \A u \in Threads : Clean(Deq(queue, "ready"), u)
  <2> HIDE DEF queue
  <2> QED BY <1>1, <1>7, <1>8, DeqLists
<1>10. /\ links' = Deq(queue, "ready")
       /\ running' = h
       /\ handler' = [handler EXCEPT ![t] = TRUE]
       /\ masked' = [masked EXCEPT ![t] = TRUE]
       /\ SwitchTo(running')
       /\ at[t] \in Windows
       /\ UNCHANGED <<at, call, item, last, nxt, target, join, zombie, freed, taken, holds>>
  BY <1>2, <1>4 DEF Tick, locals, fields, mutexes
<1>11. /\ Listed(links')
       /\ Members(links', "ready") = (Members(links, "ready") \cup {t}) \ {h}
       /\ \A m \in Mutexes : Members(links', m) = Members(links, m)
       /\ \A u \in Threads : Clean(links', u)
       /\ h \in Threads /\ (h = t \/ h \in Members(links, "ready"))
  <2> HIDE DEF queue, h
  <2> QED BY <1>1, <1>7, <1>9, <1>10
<1>12. /\ h = Head(Append(Queued(links)["ready"], t))
       /\ Queued(links') = [Queued(links) EXCEPT !["ready"] = Tail(Append(@, t))]
  <2> HIDE DEF queue
  <2>1. Queued(links) \in [Queues -> Seq(Threads)]
    BY <1>1 DEF Listed, Threaded
  <2>2. Queued(queue)["ready"] = Append(Queued(links)["ready"], t)
    BY <1>1, <1>7, <2>1
  <2>3. h = Head(Append(Queued(links)["ready"], t))
    BY <1>9, <2>2
  <2>4. Queued(links') = [Queued(links) EXCEPT !["ready"] = Tail(Append(@, t))]
    <3> HIDE DEF h
    <3> QED BY <1>1, <1>7, <1>9, <1>10, <2>1, <2>2
  <2> QED BY <2>3, <2>4
<1> HIDE DEF h
<1>13. h = t \/ (CanRun(h) /\ ~Idle(h) /\ ~Occupied(h) /\ ~JoinWaits(h))
  BY <1>11 DEF CanRun, Sound, Places
<1>14. at[h] \in {"new", "swapped", "lock", "user", "walk", "test", "free"}
  BY <1>3, <1>11, <1>13, AwayFrom DEF Idle
<1>15. cpu' = h /\ process' = process
  <2>1. h # NULL /\ ~freed[h]
    BY <1>8, <1>11, <1>14, PreemptAssumption DEF PreemptAssumption, Sound, Joins
  <2> QED BY <1>10, <1>14, <2>1 DEF SwitchTo
<1>16. h \in Threads
  BY <1>11
<1> QED
  BY <1>3, <1>4, <1>10, <1>11, <1>13, <1>14, <1>15, <1>12, <1>16

LEMMA TickStep ==
  ASSUME SafeWindows, Sound, process = "runs", NEW t \in Threads, Tick(t)
  PROVE  Sound' /\ process' = "runs"
<1>1. Listed(links) /\ "ready" \in Queues /\ \A m \in Mutexes : m \in Queues /\ m # "ready"
  BY PreemptAssumption DEF PreemptAssumption, Sound, Places, Queues
<1>2. PICK h \in Threads :
        /\ cpu = t /\ ~handler[t] /\ at[t] \in {"user", "new", "walk", "test", "swapped", "free"}
        /\ running = t /\ ~Midway /\ ~Popped /\ Occupied(t)
        /\ running' = h
        /\ handler' = [handler EXCEPT ![t] = TRUE]
        /\ masked' = [masked EXCEPT ![t] = TRUE]
        /\ at[t] \in Windows
        /\ UNCHANGED <<at, call, item, last, nxt, target, join, zombie, freed, taken, holds>>
        /\ Listed(links')
        /\ Members(links', "ready") = (Members(links, "ready") \cup {t}) \ {h}
        /\ \A m \in Mutexes : Members(links', m) = Members(links, m)
        /\ \A u \in Threads : Clean(links', u)
        /\ h \in Threads /\ (h = t \/ h \in Members(links, "ready"))
        /\ (h = t \/ (CanRun(h) /\ ~Idle(h) /\ ~Occupied(h) /\ ~JoinWaits(h)))
        /\ at[h] \in {"new", "swapped", "lock", "user", "walk", "test", "free"}
        /\ cpu' = h /\ process' = process
  BY TickLists
<1>15. ~Popped' /\ ~Midway'
  BY <1>2 DEF Popped, Midway
<1>16. Typed'
  BY <1>2 DEF Typed, Sound, Steps
<1>17. Errands'
  BY <1>2 DEF Errands, Errand, Typed, Sound
<1>18. Processor'
  BY <1>2 DEF Processor, Typed, Sound
<1>19. \A u : Over(u)' <=> Over(u)
  BY <1>2, <1>15 DEF Over
<1>20. \A u : JoinWaits(u)' <=> JoinWaits(u)
  BY <1>2, <1>19 DEF JoinWaits
<1>21. ~JoinWaits(t)
  BY <1>2 DEF JoinWaits, Sound, Joins
<1>22. \A u \in Threads : CanRun(u)' <=> (CanRun(u) \/ u = t) /\ u # h
  BY <1>2, <1>15 DEF CanRun
<1>23. \A u \in Threads : (Idle(u)' <=> Idle(u)) /\ (Occupied(u)' <=> u = h) /\ (Occupied(u) <=> u = t)
  BY <1>2, <1>15 DEF Idle, Occupied
<1>24. Places'
  <2>1. \A u \in Threads : CanRun(u)' => ~Idle(u)' /\ ~Occupied(u)' /\ ~JoinWaits(u)'
    BY <1>2, <1>20, <1>21, <1>22, <1>23 DEF Sound, Places, Idle
  <2>2. \A m \in Mutexes : \A u \in Members(links', m) :
          u # cpu' /\ at'[u] = "lock" /\ target'[u] = m
    <3> SUFFICES ASSUME NEW m \in Mutexes, NEW u \in Members(links, m)
                 PROVE  u # h /\ at[u] = "lock" /\ target[u] = m
      BY <1>2
    <3>1. u # t /\ at[u] = "lock" /\ target[u] = m
      BY <1>2 DEF Sound, Places
    <3>2. u \notin Members(links, "ready")
      BY <1>1, ListFacts
    <3> QED BY <1>2, <3>1, <3>2
  <2>3. ASSUME NEW u \in Threads
        PROVE  \/ Idle(u)'
               \/ Occupied(u)'
               \/ CanRun(u)'
               \/ at'[u] = "lock" /\ u \in Members(links', target'[u])
               \/ u # cpu' /\ JoinWaits(u)'
    <3>1. CASE at[u] = "lock" /\ u \in Members(links, target[u])
      BY <1>2, <3>1 DEF Sound, Errands, Errand
    <3> QED BY <1>2, <1>20, <1>22, <1>23, <3>1 DEF Sound, Places
  <2> QED BY <1>2, <1>15, <2>1, <2>2, <2>3 DEF Places
<1>25. Joins'
  <2>1. Main \in Threads /\ (call[Main] = "join" => target[Main] \in Threads)
    BY PreemptAssumption DEF PreemptAssumption, Sound, Errands, Errand
  <2>2. Main = h /\ at[Main] = "swapped" /\ call[Main] = "join" => Over(target[Main])
    BY <1>2, <1>21 DEF JoinWaits
  <2>3. ~Idle(Main)'
    BY <1>2 DEF Sound, Joins, Idle
  <2>4. \A u \in Threads :
         /\ freed'[u] => at'[u] = "done"
         /\ zombie'[u] <=>
              \/ at'[u] = "done"
              \/ u = cpu' /\ call'[u] = "end" /\ at'[u] \in {"pop", "take", "cut", "run", "switch"}
         /\ join'[u] # NULL => at'[u] # "none"
    BY <1>2 DEF Sound, Joins
  <2>5. \A u \in Threads : join'[u] # NULL /\ ~Over(u)' =>
            /\ join'[u] = Main /\ call'[Main] = "join" /\ target'[Main] = u
            /\ at'[Main] \in {"pop", "take", "cut", "run", "switch", "swapped"}
    BY <1>2, <1>19 DEF Sound, Joins
  <2>6. ASSUME call[Main] = "join", NEW u, u = target[Main]
        PROVE  /\ at'[u] # "none"
               /\ at'[Main] = "free" => at'[u] = "done"
               /\ at'[Main] \in {"note", "pop", "take", "cut", "run", "switch"} => ~Over(u)'
               /\ at'[Main] \in {"pop", "take", "cut", "run", "switch", "swapped"} => join[u] = Main
               /\ at'[Main] = "swapped" /\ cpu' = Main => Over(u)'
    BY <1>2, <1>19, <2>2, <2>6 DEF Sound, Joins
  <2> QED BY <1>2, <2>3, <2>4, <2>5, <2>6 DEF Joins
<1>26. Locks'
  BY <1>2 DEF Locks, Owns, Sound
<1> QED
  BY <1>2, <1>16, <1>17, <1>18, <1>24, <1>25, <1>26 DEF Sound

LEMMA LockTakenLists ==
  ASSUME SafeWindows, Sound, process = "runs", NEW t \in Threads, NEW m \in Mutexes,
         LockTaken(t, m)
  PROVE  \E h \in Threads :
           /\ cpu = t /\ ~handler[t] /\ at[t] = "user" /\ holds[t] = {} /\ taken[m]
           /\ call[t] = "none"
           /\ running = t /\ ~Midway /\ ~Popped /\ Occupied(t)
           /\ \A q \in Queues : t \notin Members(links, q)
           /\ running' = h
           /\ at' = [at EXCEPT ![t] = "lock"]
           /\ target' = [target EXCEPT ![t] = m]
           /\ masked' = [masked EXCEPT ![t] = TRUE]
           /\ UNCHANGED <<call, handler, item, last, nxt, join, zombie, freed, taken, holds>>
           /\ Listed(links')
           /\ Members(links', "ready") = Members(links, "ready") \ {h}
           /\ Members(links', m) = Members(links, m) \cup {t}
           /\ \A x \in Mutexes : x # m => Members(links', x) = Members(links, x)
           /\ \A u \in Threads : Clean(links', u)
           /\ h \in Threads /\ h \in Members(links, "ready") /\ h # t
           /\ CanRun(h) /\ ~Idle(h) /\ ~Occupied(h) /\ ~JoinWaits(h)
           /\ at'[h] = at[h] /\ at[h] \in {"new", "swapped", "lock", "user", "walk", "test", "free"}
           /\ cpu' = h /\ process' = process
           /\ Queued(links)["ready"] # <<>> /\ h = Head(Queued(links)["ready"])
           /\ Queued(links') = [Queued(links) EXCEPT ![m] = Append(@, t), !["ready"] = Tail(@)]
<1> DEFINE queue == Enq(links, m, t)
           h == queue.head["ready"]
<1>1. /\ Listed(links) /\ "ready" \in Queues /\ m \in Queues
      /\ \A x \in Mutexes : x \in Queues /\ x # "ready"
  BY PreemptAssumption DEF PreemptAssumption, Sound, Places, Queues
<1>2. /\ cpu = t /\ ~handler[t] /\ at[t] = "user" /\ holds[t] = {} /\ taken[m]
      /\ call[t] = "none"
  BY DEF LockTaken, Executes, Sound, Errands, Errand
<1>3. running = t /\ ~Midway /\ ~Popped /\ Occupied(t)
  BY <1>2 DEF Midway, Popped, Occupied, Sound, Processor
<1>4. Members(links, "ready") # {}
  <2>1. \E u \in Threads : CanRun(u)
    BY <1>2, HolderRuns
  <2> QED BY <1>3, <2>1 DEF CanRun
<1>5. ~Endless(links, m) /\ links.head["ready"] # NULL
  BY <1>1, <1>4, ListFacts
<1>6. links.next[t] = NULL /\ \A q \in Queues : t \notin Members(links, q)
  <2>1. \A q \in Queues : t \notin Members(links, q)
    BY <1>2, <1>3 DEF Queues, CanRun, Sound, Places
  <2> QED BY <1>2, <2>1 DEF Clean, Sound, Places
<1>7. \A u \in Threads : Clean(links, u)
  BY <1>2 DEF Sound, Places
<1>8. /\ Listed(queue) /\ Queued(queue) = [Queued(links) EXCEPT ![m] = Append(@, t)]
      /\ \A q \in Queues : q # m => Members(queue, q) = Members(links, q)
      /\ Members(queue, m) = Members(links, m) \cup {t}
      /\ \A u \in Threads : Clean(queue, u)
  BY <1>1, <1>6, <1>7, EnqLists
<1>9. h # NULL
  <2> HIDE DEF queue
  <2> QED BY <1>1, <1>4, <1>8, ListFacts
<1>10. /\ Listed(Deq(queue, "ready"))
       /\ Queued(Deq(queue, "ready")) = [Queued(queue) EXCEPT !["ready"] = Tail(@)]
       /\ Queued(queue)["ready"] # <<>> /\ h = Head(Queued(queue)["ready"])
       /\ \A q \in Queues : q # "ready" => Members(Deq(queue, "ready"), q) = Members(queue, q)
       /\ Members(Deq(queue, "ready"), "ready") = Members(queue, "ready") \ {h}
       /\ h \in Members(queue, "ready") /\ h \in Threads
       /\ \A u \in Threads : Clean(Deq(queue, "ready"), u)
  <2> HIDE DEF queue
  <2>1. "ready" \in Queues /\ Listed(queue) /\ \A u \in Threads : Clean(queue, u)
    BY <1>1, <1>8
  <2> QED BY <1>9, <2>1, DeqLists
<1>11. /\ links' = Deq(queue, "ready")
       /\ running' = h
       /\ at' = [at EXCEPT ![t] = "lock"]
       /\ target' = [target EXCEPT ![t] = m]
       /\ masked' = [masked EXCEPT ![t] = TRUE]
       /\ SwitchTo(running')
       /\ UNCHANGED <<call, handler, item, last, nxt, join, zombie, freed, taken, holds>>
  BY <1>3, <1>5 DEF LockTaken, GoesTo, fields, mutexes
<1>12. /\ Listed(links')
       /\ Members(links', "ready") = Members(links, "ready") \ {h}
       /\ Members(links', m) = Members(links, m) \cup {t}
       /\ \A x \in Mutexes : x # m => Members(links', x) = Members(links, x)
       /\ \A u \in Threads : Clean(links', u)
       /\ h \in Threads /\ h \in Members(links, "ready") /\ h # t
  <2> HIDE DEF queue, h
  <2> QED BY <1>1, <1>6, <1>8, <1>10, <1>11
<1>13. /\ Queued(links)["ready"] # <<>> /\ h = Head(Queued(links)["ready"])
       /\ Queued(links') = [Queued(links) EXCEPT ![m] = Append(@, t), !["ready"] = Tail(@)]
  <2> HIDE DEF queue
  <2>1. Queued(links) \in [Queues -> Seq(Threads)] /\ m # "ready"
    BY <1>1 DEF Listed, Threaded
  <2>2. Queued(queue)["ready"] = Queued(links)["ready"]
    BY <1>1, <1>8, <2>1
  <2>3. Queued(links)["ready"] # <<>> /\ h = Head(Queued(links)["ready"])
    BY <1>10, <2>2
  <2>4. Queued(links') = [Queued(links) EXCEPT ![m] = Append(@, t), !["ready"] = Tail(@)]
    <3> HIDE DEF h
    <3> QED BY <1>1, <1>8, <1>10, <1>11, <2>1, <2>2
  <2> QED BY <2>3, <2>4
<1> HIDE DEF h
<1>14. CanRun(h) /\ ~Idle(h) /\ ~Occupied(h) /\ ~JoinWaits(h)
  BY <1>12 DEF CanRun, Sound, Places
<1>15. at'[h] = at[h] /\ at[h] \in {"new", "swapped", "lock", "user", "walk", "test", "free"}
  BY <1>2, <1>11, <1>12, <1>14, AwayFrom DEF Idle, Sound, Typed
<1>16. cpu' = h /\ process' = process
  <2>1. h # NULL /\ ~freed[h]
    BY <1>12, <1>15, PreemptAssumption DEF PreemptAssumption, Sound, Joins
  <2> QED BY <1>11, <1>15, <2>1 DEF SwitchTo
<1>17. h \in Threads
  BY <1>12
<1> QED
  BY <1>2, <1>3, <1>6, <1>11, <1>12, <1>13, <1>14, <1>15, <1>16, <1>17

LEMMA LockTakenStep ==
  ASSUME SafeWindows, Sound, process = "runs", NEW t \in Threads, NEW m \in Mutexes,
         LockTaken(t, m)
  PROVE  Sound' /\ process' = "runs"
<1>1. /\ Listed(links) /\ "ready" \in Queues /\ m \in Queues
      /\ \A x \in Mutexes : x \in Queues /\ x # "ready"
  BY PreemptAssumption DEF PreemptAssumption, Sound, Places, Queues
<1>2. PICK h \in Threads :
        /\ cpu = t /\ ~handler[t] /\ at[t] = "user" /\ holds[t] = {} /\ taken[m]
        /\ call[t] = "none"
        /\ running = t /\ ~Midway /\ ~Popped /\ Occupied(t)
        /\ \A q \in Queues : t \notin Members(links, q)
        /\ running' = h
        /\ at' = [at EXCEPT ![t] = "lock"]
        /\ target' = [target EXCEPT ![t] = m]
        /\ masked' = [masked EXCEPT ![t] = TRUE]
        /\ UNCHANGED <<call, handler, item, last, nxt, join, zombie, freed, taken, holds>>
        /\ Listed(links')
        /\ Members(links', "ready") = Members(links, "ready") \ {h}
        /\ Members(links', m) = Members(links, m) \cup {t}
        /\ \A x \in Mutexes : x # m => Members(links', x) = Members(links, x)
        /\ \A u \in Threads : Clean(links', u)
        /\ h \in Threads /\ h \in Members(links, "ready") /\ h # t
        /\ CanRun(h) /\ ~Idle(h) /\ ~Occupied(h) /\ ~JoinWaits(h)
        /\ at'[h] = at[h] /\ at[h] \in {"new", "swapped", "lock", "user", "walk", "test", "free"}
        /\ cpu' = h /\ process' = process
  BY LockTakenLists
<1>16. ~Popped' /\ ~Midway'
  BY <1>2 DEF Popped, Midway
<1>17. Typed'
  BY <1>2 DEF Typed, Sound, Steps
<1>18. Errands'
  BY <1>2 DEF SafeWindows, Errands, Errand, Typed, Sound
<1>19. Processor'
  BY <1>2 DEF Processor, Typed, Sound
<1>20. \A u : Over(u)' <=> Over(u)
  BY <1>2, <1>16 DEF Over, Sound, Typed
<1>21. \A u \in Threads : JoinWaits(u)' <=> JoinWaits(u)
  BY <1>2, <1>20 DEF JoinWaits, Sound, Typed
<1>22. \A u \in Threads : CanRun(u)' <=> CanRun(u) /\ u # h
  BY <1>2, <1>16 DEF CanRun
<1>23. \A u \in Threads : (Idle(u)' <=> Idle(u)) /\ (Occupied(u)' <=> u = h) /\ (Occupied(u) <=> u = t)
  BY <1>2, <1>16 DEF Idle, Occupied, Sound, Typed
<1>24. Places'
  <2>1. \A u \in Threads : CanRun(u)' => ~Idle(u)' /\ ~Occupied(u)' /\ ~JoinWaits(u)'
    BY <1>21, <1>22, <1>23 DEF Sound, Places
  <2>2. \A x \in Mutexes : \A u \in Members(links', x) :
          u # cpu' /\ at'[u] = "lock" /\ target'[u] = x
    <3> SUFFICES ASSUME NEW x \in Mutexes, NEW u \in Members(links', x)
                 PROVE  u # h /\ at'[u] = "lock" /\ target'[u] = x
      BY <1>2
    <3>1. CASE u = t
      <4>1. x = m
        BY <1>1, <1>2, <3>1
      <4> QED BY <1>2, <3>1, <4>1 DEF Sound, Typed
    <3>2. CASE u # t
      <4>1. u \in Members(links, x)
        BY <1>2, <3>2
      <4>2. u # t /\ at[u] = "lock" /\ target[u] = x /\ u \notin Members(links, "ready")
        BY <1>1, <3>2, <4>1, ListFacts DEF Sound, Places
      <4> QED BY <1>2, <4>2 DEF Sound, Typed
    <3> QED BY <3>1, <3>2
  <2>3. ASSUME NEW u \in Threads
        PROVE  \/ Idle(u)'
               \/ Occupied(u)'
               \/ CanRun(u)'
               \/ at'[u] = "lock" /\ u \in Members(links', target'[u])
               \/ u # cpu' /\ JoinWaits(u)'
    <3>1. CASE u # t /\ at[u] = "lock" /\ u \in Members(links, target[u])
      <4>1. at'[u] = "lock" /\ target'[u] = target[u] /\ target[u] \in Mutexes
        BY <1>2, <3>1 DEF Sound, Typed, Errands, Errand
      <4> QED BY <1>2, <3>1, <4>1
    <3>2. CASE u = t
      BY <1>2, <3>2 DEF Sound, Typed
    <3>3. CASE u # t /\ JoinWaits(u)
      BY <1>2, <1>21, <3>3
    <3> QED BY <1>22, <1>23, <3>1, <3>2, <3>3 DEF Sound, Places
  <2> QED BY <1>2, <1>16, <2>1, <2>2, <2>3 DEF Places
<1>25. Joins'
  <2>1. Main \in Threads /\ (call[Main] = "join" => target[Main] \in Threads)
    BY PreemptAssumption DEF PreemptAssumption, Sound, Errands, Errand
  <2>2. Main = h /\ at[Main] = "swapped" /\ call[Main] = "join" => Over(target[Main])
    BY <1>2 DEF JoinWaits
  <2>3. ~Idle(Main)'
    BY <1>23, <2>1 DEF Sound, Joins
  <2>4. \A u \in Threads :
         /\ freed'[u] => at'[u] = "done"
         /\ zombie'[u] <=>
              \/ at'[u] = "done"
              \/ u = cpu' /\ call'[u] = "end" /\ at'[u] \in {"pop", "take", "cut", "run", "switch"}
         /\ join'[u] # NULL => at'[u] # "none"
    BY <1>2 DEF Sound, Joins, Typed
  <2>5. \A u \in Threads : join'[u] # NULL /\ ~Over(u)' =>
            /\ join'[u] = Main /\ call'[Main] = "join" /\ target'[Main] = u
            /\ at'[Main] \in {"pop", "take", "cut", "run", "switch", "swapped"}
    BY <1>2, <1>20, <2>1 DEF Sound, Joins, Typed
  <2>6. ASSUME call[Main] = "join", NEW u, u = target[Main]
        PROVE  /\ at'[u] # "none"
               /\ at'[Main] = "free" => at'[u] = "done"
               /\ at'[Main] \in {"note", "pop", "take", "cut", "run", "switch"} => ~Over(u)'
               /\ at'[Main] \in {"pop", "take", "cut", "run", "switch", "swapped"} => join[u] = Main
               /\ at'[Main] = "swapped" /\ cpu' = Main => Over(u)'
    <3>1. Main # t /\ at'[Main] = at[Main]
      BY <1>2, <2>1, <2>6 DEF Sound, Typed
    <3> QED BY <1>2, <1>20, <2>1, <2>2, <2>6, <3>1 DEF Sound, Joins, Typed
  <2>7. call[Main] = "join" => target'[Main] = target[Main]
    BY <1>2, <2>1 DEF Sound, Typed
  <2> QED BY <1>2, <2>3, <2>4, <2>5, <2>6, <2>7 DEF Joins
<1>26. Locks'
  <2> SUFFICES ASSUME NEW x \in Mutexes
               PROVE  /\ taken'[x] => \E u \in Threads : Owns(u, x)'
                      /\ Members(links', x) # {} => taken'[x]
    BY DEF Locks
  <2>1. \A u \in Threads : Owns(u, x) => Owns(u, x)'
    BY <1>2 DEF Owns, Sound, Typed
  <2> QED BY <1>2, <2>1 DEF Sound, Locks
<1> QED
  BY <1>2, <1>17, <1>18, <1>19, <1>24, <1>25, <1>26 DEF Sound

-----------------------------------------------------------------------------
(* The theorems.                                                           *)

LEMMA EmptyLists ==
  ASSUME NEW l, l = [head |-> [q \in Queues |-> NULL], next |-> [t \in Threads |-> NULL]]
  PROVE  /\ Listed(l)
         /\ \A q \in Queues : Members(l, q) = {}
         /\ Queued(l) = [q \in Queues |-> <<>>]
<1> DEFINE s == [q \in Queues |-> <<>>]
<1>1. \A q \in Queues : s[q] = <<>> /\ Len(s[q]) = 0 /\ 1 .. Len(s[q]) = {}
  OBVIOUS
<1>2. s \in [Queues -> Seq(Threads)]
  OBVIOUS
<1> HIDE DEF s
<1>3. Threaded(l, s)
  BY <1>1, <1>2 DEF Threaded, LinksTyped, EachOnce, HeadsOf, NextsOf
<1>4. Listed(l) /\ Queued(l) = s
  BY <1>3, ThreadedOnce
<1>5. \A q \in Queues : Members(l, q) = {}
  BY <1>1, <1>3, ListsAre DEF ThreadsOf
<1> QED
  BY <1>4, <1>5 DEF s

LEMMA SoundInit == Init => Sound /\ process = "runs"
<1> SUFFICES ASSUME Init PROVE Sound /\ process = "runs"
  OBVIOUS
<1>1. Main \in Threads /\ NULL \notin Threads
  BY PreemptAssumption DEF PreemptAssumption
<1>2. /\ cpu = Main /\ running = Main /\ process = "runs"
      /\ links = [head |-> [q \in Queues |-> NULL], next |-> [t \in Threads |-> NULL]]
      /\ at = [t \in Threads |-> IF t = Main THEN "user" ELSE "none"]
      /\ call = [t \in Threads |-> "none"]
      /\ handler = [t \in Threads |-> FALSE]
      /\ masked = [t \in Threads |-> FALSE]
      /\ item = [t \in Threads |-> NULL]
      /\ last = [t \in Threads |-> NULL]
      /\ nxt = [t \in Threads |-> NULL]
      /\ target = [t \in Threads |-> NULL]
      /\ join = [t \in Threads |-> NULL]
      /\ zombie = [t \in Threads |-> FALSE]
      /\ freed = [t \in Threads |-> FALSE]
      /\ taken = [m \in Mutexes |-> FALSE]
      /\ holds = [t \in Threads |-> {}]
  BY DEF Init
<1>3. /\ Listed(links)
      /\ \A q \in Queues : Members(links, q) = {}
      /\ \A t \in Threads : links.next[t] = NULL
  BY <1>2, EmptyLists
<1>4. "ready" \in Queues /\ \A m \in Mutexes : m \in Queues
  BY DEF Queues
<1>5. Typed
  BY <1>1, <1>2 DEF Typed, Steps
<1>6. Errands
  BY <1>1, <1>2 DEF Errands, Errand
<1>7. Processor
  BY <1>1, <1>2 DEF Processor
<1>8. Places
  BY <1>1, <1>2, <1>3, <1>4 DEF Places, CanRun, Popped, Midway, JoinWaits, Idle, Occupied, Clean
<1>9. Joins
  BY <1>1, <1>2 DEF Joins, Idle
<1>10. Locks
  BY <1>2, <1>3, <1>4 DEF Locks
<1> QED
  BY <1>2, <1>5, <1>6, <1>7, <1>8, <1>9, <1>10 DEF Sound

LEMMA SoundUnchanged ==
  ASSUME Sound, UNCHANGED vars
  PROVE  Sound' /\ process' = process
<1>1. UNCHANGED <<cpu, running, links, at, call, handler, masked, item, last, nxt, target, join, zombie, freed, taken, holds, process>>
  BY DEF vars, locals, fields, mutexes
<1>2. Typed' /\ Errands' /\ Processor'
  BY <1>1 DEF Sound, Typed, Errands, Errand, Processor
<1>3. Places' /\ Joins' /\ Locks'
  BY <1>1 DEF Sound, Places, CanRun, Popped, Midway, Over, JoinWaits, Idle, Occupied, Joins, Locks, Owns
<1> QED
  BY <1>1, <1>2, <1>3 DEF Sound

\* Nothing runs when the process does not.
LEMMA OnlyRuns == Next => process = "runs"
<1>1. ASSUME NEW t, Call(t) PROVE process = "runs"
  BY <1>1 DEF Call, Create, Yield, Exit, LockFree, LockTaken, Unlock, Enter, Executes
<1>2. ASSUME NEW t, Continue(t) PROVE process = "runs"
  BY <1>2 DEF Continue, Start, Test, Note, Walk, Store, BecomesZombie, Pop, Take, Cut, Run,
              Switch, SwapReturns, Free, LockReturns, Executes
<1>3. ASSUME NEW t, Tick(t) \/ TickReturns(t) PROVE process = "runs"
  BY <1>3 DEF Tick, TickReturns
<1>4. ASSUME NEW u, Join(u) PROVE process = "runs"
  BY <1>4 DEF Join, Enter, Executes
<1>5. MainReturns => process = "runs"
  BY DEF MainReturns, Executes
<1> QED
  BY <1>1, <1>2, <1>3, <1>4, <1>5 DEF Next

LEMMA SoundStep ==
  ASSUME SafeWindows, Sound, process = "runs", Next, ~MainReturns
  PROVE  Sound' /\ process' = "runs"
<1>1. CASE \E u \in Threads : Join(u)
  BY <1>1, JoinStep
<1>2. ASSUME NEW t \in Threads, Call(t) PROVE Sound' /\ process' = "runs"
  BY <1>2, CreateStep, YieldStep, ExitStep, LockFreeStep, LockTakenStep, UnlockStep
     DEF Call
<1>3. ASSUME NEW t \in Threads, Continue(t) PROVE Sound' /\ process' = "runs"
  BY <1>3, StartStep, TestStep, NoteStep, WalkStep, StoreStep, BecomesZombieStep,
     PopStep, TakeStep, CutStep, RunStep, SwitchStep, SwapReturnsStep, FreeStep, LockReturnsStep
     DEF Continue
<1>4. ASSUME NEW t \in Threads, Tick(t) \/ TickReturns(t)
      PROVE  Sound' /\ process' = "runs"
  BY <1>4, TickStep, TickReturnsStep
<1> QED
  BY <1>1, <1>2, <1>3, <1>4 DEF Next

\* The invariant holds of every program, and the process ends when main() does.
THEOREM PreemptSound ==
  ASSUME SafeWindows
  PROVE  Spec => []PreemptInv
<1>1. Init => PreemptInv
  BY SoundInit DEF PreemptInv
<1>2. PreemptInv /\ [Next]_vars => PreemptInv'
  <2> SUFFICES ASSUME PreemptInv, [Next]_vars PROVE PreemptInv'
    OBVIOUS
  <2>1. CASE Next /\ ~MainReturns
    BY <2>1, OnlyRuns, SoundStep DEF PreemptInv
  <2>2. CASE MainReturns
    BY <2>2 DEF MainReturns, Dies, PreemptInv
  <2>3. CASE UNCHANGED vars
    <3>1. process' = process
      BY <2>3 DEF vars
    <3> QED BY <2>3, <3>1, SoundUnchanged DEF PreemptInv
  <2> QED BY <2>1, <2>2, <2>3
<1> QED
  BY <1>1, <1>2, PTL DEF Spec

\* The library never switches to nothing, to a thread that is over or on the
\* stack of another, and never loops in enq(): main() returns some time, or
\* never, but nothing else stops the program.
THEOREM PreemptNeverStuck ==
  ASSUME SafeWindows
  PROVE  Spec => []NeverStuck
<1>1. PreemptInv => NeverStuck
  BY DEF PreemptInv, NeverStuck
<1> QED
  BY <1>1, PreemptSound, PTL

\* The ready queue and the queues of the mutexes stay lists, which share no
\* thread, although the calls that change them are interrupted.
THEOREM PreemptListsSound ==
  ASSUME SafeWindows
  PROVE  Spec => []ListsSound
<1>1. PreemptInv => ListsSound
  <2> SUFFICES ASSUME Sound PROVE
                 /\ \A q \in Queues : ~Endless(links, q)
                 /\ \A p, q \in Queues : p # q => Members(links, p) \cap Members(links, q) = {}
                 /\ \A t \in Threads :
                      \/ links.next[t] = NULL
                      \/ \E q \in Queues : t \in Members(links, q)
                      \/ at[cpu] = "cut" /\ nxt[cpu] = t
    BY DEF PreemptInv, ListsSound
  <2>1. Listed(links)
    BY DEF Sound, Places
  <2>2. \A t \in Threads : Clean(links, t) \/ (at[cpu] = "cut" /\ t = nxt[cpu])
    BY DEF Sound, Places
  <2>3. /\ \A q \in Queues : ~Endless(links, q)
        /\ \A p, q \in Queues : p # q => Members(links, p) \cap Members(links, q) = {}
    BY <2>1, ListFacts
  <2>4. \A t \in Threads :
          \/ links.next[t] = NULL
          \/ \E q \in Queues : t \in Members(links, q)
          \/ at[cpu] = "cut" /\ nxt[cpu] = t
    BY <2>2 DEF Clean
  <2> QED BY <2>3, <2>4
<1> QED
  BY <1>1, PreemptSound, PTL

\* running is the thread whose stack is in use whenever the timer can fire, so
\* that timer_handler() saves its context where it belongs.
THEOREM PreemptRunningRuns ==
  ASSUME SafeWindows
  PROVE  Spec => []RunningRuns
<1>1. PreemptInv => RunningRuns
  BY DEF PreemptInv, Sound, Processor, RunningRuns
<1> QED
  BY <1>1, PreemptSound, PTL

\* Who waits for a thread that has ended is ready, or has the processor: the end
\* of green_thread() reads whom it has to make ready before the walk of enq(),
\* and green_join() notes itself, with no step of the other in between.
THEOREM PreemptJoinerIsReady ==
  ASSUME SafeWindows
  PROVE  Spec => []JoinerIsReady
<1>1. PreemptInv => JoinerIsReady
  <2> SUFFICES ASSUME Sound, NEW t \in Threads,
                      at[t] = "swapped", call[t] = "join", at[target[t]] = "done"
               PROVE  t = cpu \/ t \in Members(links, "ready") \/ (Popped /\ t = nxt[cpu])
    BY DEF PreemptInv, JoinerIsReady
  <2>1. ~Idle(t) /\ ~JoinWaits(t) /\ at[t] # "lock"
    BY DEF Idle, JoinWaits, Over
  <2> QED BY <2>1 DEF Sound, Places, Occupied, CanRun
<1> QED
  BY <1>1, PreemptSound, PTL

-----------------------------------------------------------------------------
(***************************************************************************)
(* The refinement of GreenClient.  A call counts as made when its context  *)
(* switch happens, so the steps before that must change nothing GreenClient*)
(* sees, and the switch must change all that the call changes there.  The  *)
(* steps at which the timer can fire must be those that GreenClient takes  *)
(* for the thread's own code.                                              *)
(***************************************************************************)
QuietWindows == Windows \subseteq {"user", "walk", "test", "free"}

\* What GreenClient sees.
PlaceOf    == [t \in Threads |-> Place(t)]
ArgumentOf == [t \in Threads |-> Argument(t)]
JoinOf     == [u \in Threads |->
                 IF Midway /\ call[cpu] = "join" /\ u = target[cpu] THEN NULL
                 ELSE join[u]]
ZombieOf   == [t \in Threads |-> zombie[t] /\ at[t] = "done"]
ContextsOf == [t \in Threads |-> ContextOf(t)]
MutexesOf  == [m \in Mutexes |-> [taken |-> taken[m], susp |-> ItemsOf(links, m)]]

view == <<cpu, Ready, PlaceOf, ArgumentOf, masked, JoinOf, ZombieOf, ContextsOf,
          MutexesOf, holds, process>>

LEMMA SameView == UNCHANGED view => UNCHANGED Library!vars
BY DEF view, PlaceOf, ArgumentOf, JoinOf, ZombieOf, ContextsOf, MutexesOf,
       Library!vars, Library!greenVars, Library!threadVars, Library!joinVars

\* The ready queue with nxt back in front; item is still at its end.
Full == (IF Popped THEN <<nxt[cpu]>> ELSE <<>>) \o ItemsOf(links, "ready")

Adds == Midway /\ call[cpu] # "join" /\ item[cpu] # NULL

\* Two facts that the refinement needs and the invariant does not: what the
\* call has added is the last of the queue, and Main joins a thread that it
\* has not joined before.
Trailing ==
  /\ Adds => Full # <<>> /\ Full[Len(Full)] = item[cpu]
  /\ call[Main] = "join" => ~freed[target[Main]]

LEMMA ReadyIs ==
  ASSUME Sound
  PROVE  /\ Full \in Seq(Threads)
         /\ Ready = IF Adds THEN SubSeq(Full, 1, Len(Full) - 1) ELSE Full
         /\ Queued(links) \in [Queues -> Seq(Threads)]
         /\ ItemsOf(links, "ready") = Queued(links)["ready"]
         /\ \A m \in Mutexes : ItemsOf(links, m) = Queued(links)[m]
<1>1. Queued(links) \in [Queues -> Seq(Threads)]
  BY DEF Sound, Places, Listed, Threaded
<1>2. "ready" \in Queues /\ \A m \in Mutexes : m \in Queues
  BY DEF Queues
<1>3. \A q \in Queues : ItemsOf(links, q) = Queued(links)[q]
  BY DEF Queued
<1>4. ItemsOf(links, "ready") \in Seq(Threads)
  BY <1>1, <1>2, <1>3
<1>5. Popped => nxt[cpu] \in Threads
  BY DEF Popped, Sound, Typed
<1> QED
  BY <1>1, <1>2, <1>3, <1>4, <1>5 DEF Full, Ready, Adds

\* Sequences of threads.
LEMMA LastEntry ==
  ASSUME NEW queue \in Seq(Threads), NEW t \in Threads
  PROVE  /\ Append(queue, t) # <<>>
         /\ Append(queue, t)[Len(Append(queue, t))] = t
         /\ SubSeq(Append(queue, t), 1, Len(Append(queue, t)) - 1) = queue
         /\ <<>> \o queue = queue
<1> DEFINE a == Append(queue, t)
           s == SubSeq(a, 1, Len(a) - 1)
<1>1. /\ Len(queue) \in Nat /\ a \in Seq(Threads)
      /\ Len(a) = Len(queue) + 1 /\ a[Len(queue) + 1] = t /\ a # <<>>
      /\ \A i \in 1 .. Len(queue) : a[i] = queue[i]
  OBVIOUS
<1>2. s = queue
  <2> HIDE DEF a
  <2>1. Len(a) - 1 = Len(queue)
    BY <1>1
  <2>2. s \in Seq(Threads) /\ Len(s) = Len(queue) /\ \A i \in 1 .. Len(queue) : s[i] = a[i]
    BY <1>1, <2>1
  <2> HIDE DEF s
  <2> QED BY <1>1, <2>2
<1>3. <<>> \o queue = queue
  OBVIOUS
<1> QED
  BY <1>1, <1>2, <1>3

LEMMA LastTaken ==
  ASSUME NEW queue \in Seq(Threads), queue # <<>>
  PROVE  /\ SubSeq(queue, 1, Len(queue) - 1) \in Seq(Threads)
         /\ Append(SubSeq(queue, 1, Len(queue) - 1), queue[Len(queue)]) = queue
<1> DEFINE n == Len(queue) - 1
           s == SubSeq(queue, 1, n)
           a == Append(s, queue[Len(queue)])
<1>1. n \in Nat /\ Len(queue) = n + 1 /\ \A i \in 1 .. n + 1 : queue[i] \in Threads
  OBVIOUS
<1> HIDE DEF n
<1>2. s \in Seq(Threads) /\ Len(s) = n /\ \A i \in 1 .. n : s[i] = queue[i]
  BY <1>1
<1>3. queue[n + 1] \in Threads
  BY <1>1
<1>4. a \in Seq(Threads) /\ Len(a) = n + 1 /\ \A i \in 1 .. n + 1 : a[i] = queue[i]
  <2> HIDE DEF s
  <2> QED BY <1>1, <1>2, <1>3
<1> HIDE DEF a
<1>5. a = queue
  BY <1>1, <1>4
<1> QED
  BY <1>2, <1>5 DEF a, n

LEMMA FirstBack ==
  ASSUME NEW queue \in Seq(Threads), queue # <<>>
  PROVE  /\ Tail(queue) \in Seq(Threads) /\ Head(queue) \in Threads
         /\ <<Head(queue)>> \o Tail(queue) = queue
         /\ \A t \in Threads : <<t>> \o Tail(queue) # <<>>
<1> DEFINE a == <<Head(queue)>> \o Tail(queue)
<1>1. Len(queue) \in Nat \ {0}
  OBVIOUS
<1>2. a \in Seq(Threads) /\ Len(a) = Len(queue) /\ \A i \in 1 .. Len(queue) : a[i] = queue[i]
  BY <1>1
<1> QED
  BY <1>1, <1>2

LEMMA FrontTaken ==
  ASSUME NEW queue \in Seq(Threads), NEW t \in Threads
  PROVE  /\ <<t>> \o queue \in Seq(Threads) /\ <<t>> \o queue # <<>>
         /\ Head(<<t>> \o queue) = t /\ Tail(<<t>> \o queue) = queue
<1> DEFINE a == <<t>> \o queue
<1>1. /\ a \in Seq(Threads) /\ Len(a) = Len(queue) + 1 /\ a[1] = t /\ Len(queue) \in Nat
      /\ \A i \in 1 .. Len(queue) : a[i + 1] = queue[i]
  OBVIOUS
<1> HIDE DEF a
<1>2. a # <<>> /\ Head(a) = t
  BY <1>1
<1>3. Tail(a) \in Seq(Threads) /\ Len(Tail(a)) = Len(queue) /\ \A i \in 1 .. Len(queue) : Tail(a)[i] = a[i + 1]
  BY <1>1, <1>2
<1>4. Tail(a) = queue
  BY <1>1, <1>3
<1> QED
  BY <1>1, <1>2, <1>4 DEF a

\* Steps that GreenClient does not see.
LEMMA YieldQuiet ==
  ASSUME QuietWindows, Sound, Trailing, process = "runs", NEW t \in Threads, Yield(t)
  PROVE  UNCHANGED view /\ Trailing'
<1>1. /\ cpu = t /\ ~handler[t] /\ at[t] = "user"
      /\ call' = [call EXCEPT ![t] = "yield"]
      /\ at' = [at EXCEPT ![t] = "walk"]
      /\ item' = [item EXCEPT ![t] = running]
      /\ UNCHANGED <<cpu, links, handler, masked, last, nxt, target, join, zombie, freed, taken, holds, process>>
  BY DEF Yield, Executes, GoesTo, Enter, Leaves, locals, fields, mutexes
<1>2. ~Midway /\ ~Popped /\ Popped' = Popped /\ Midway' = Midway
  BY <1>1 DEF Popped, Midway, Sound, Typed
<1>3. PlaceOf' = PlaceOf /\ ArgumentOf' = ArgumentOf
  BY <1>1 DEF PlaceOf, ArgumentOf, Argument, Place, Sound, Typed, Errands, Errand
<1>4. ContextsOf' = ContextsOf /\ ZombieOf' = ZombieOf
  BY <1>1 DEF ContextsOf, ContextOf, ZombieOf, Sound, Typed, Errands, Errand
<1>5. JoinOf' = JoinOf
  BY <1>1, <1>2 DEF JoinOf, Sound, Typed, Errands, Errand
<1>6. MutexesOf' = MutexesOf
  BY <1>1 DEF MutexesOf
<1>7. Ready' = Ready /\ Full' = Full /\ Adds' = Adds
  <2>1. Full' = Full
    BY <1>1, <1>2 DEF Full
  <2>2. Adds' = Adds
    BY <1>1, <1>2 DEF Adds, Sound, Typed
  <2> QED BY <1>1, <2>1, <2>2 DEF Ready, Full, Adds
<1>8. Trailing'
  BY <1>1, <1>2, <1>7 DEF Trailing, Adds, Sound, Typed, Errands, Errand
<1> QED
  BY <1>1, <1>3, <1>4, <1>5, <1>6, <1>7, <1>8 DEF view

LEMMA ExitQuiet ==
  ASSUME QuietWindows, Sound, Trailing, process = "runs", NEW t \in Threads, Exit(t)
  PROVE  UNCHANGED view /\ Trailing'
<1>1. /\ cpu = t /\ ~handler[t] /\ at[t] = "user" /\ t # Main
      /\ call' = [call EXCEPT ![t] = "end"]
      /\ at' = [at EXCEPT ![t] = "wake"]
      /\ item' = [item EXCEPT ![t] = join[t]]
      /\ UNCHANGED <<cpu, links, handler, masked, last, nxt, target, join, zombie, freed, taken, holds, process>>
  BY DEF Exit, Executes, GoesTo, Enter, Leaves, locals, fields, mutexes
<1>2. ~Midway /\ ~Popped /\ Popped' = Popped /\ Midway' = Midway
  BY <1>1 DEF Popped, Midway, Sound, Typed
<1>3. PlaceOf' = PlaceOf /\ ArgumentOf' = ArgumentOf
  BY <1>1 DEF PlaceOf, ArgumentOf, Argument, Place, Sound, Typed, Errands, Errand
<1>4. ContextsOf' = ContextsOf /\ ZombieOf' = ZombieOf
  BY <1>1 DEF ContextsOf, ContextOf, ZombieOf, Sound, Typed, Errands, Errand
<1>5. JoinOf' = JoinOf
  BY <1>1, <1>2 DEF JoinOf, Sound, Typed, Errands, Errand
<1>6. MutexesOf' = MutexesOf
  BY <1>1 DEF MutexesOf
<1>7. Ready' = Ready /\ Full' = Full /\ Adds' = Adds
  <2>1. Full' = Full
    BY <1>1, <1>2 DEF Full
  <2>2. Adds' = Adds
    BY <1>1, <1>2 DEF Adds, Sound, Typed
  <2> QED BY <1>1, <2>1, <2>2 DEF Ready, Full, Adds
<1>8. Trailing'
  BY <1>1, <1>2, <1>7 DEF Trailing, Adds, Sound, Typed, Errands, Errand
<1> QED
  BY <1>1, <1>3, <1>4, <1>5, <1>6, <1>7, <1>8 DEF view

LEMMA JoinQuiet ==
  ASSUME QuietWindows, Sound, Trailing, process = "runs", NEW u \in Threads, Join(u)
  PROVE  UNCHANGED view /\ Trailing'
<1>1. /\ cpu = Main /\ ~handler[Main] /\ at[Main] = "user" /\ ~freed[u]
      /\ call' = [call EXCEPT ![Main] = "join"]
      /\ at' = [at EXCEPT ![Main] = "test"]
      /\ target' = [target EXCEPT ![Main] = u]
      /\ UNCHANGED <<cpu, links, handler, masked, item, last, nxt, join, zombie, freed, taken, holds, process>>
  BY DEF Join, Executes, GoesTo, Enter, Leaves, locals, fields, mutexes
<1>2. ~Midway /\ ~Popped /\ Popped' = Popped /\ Midway' = Midway
  BY <1>1 DEF Popped, Midway, Sound, Typed
<1>3. PlaceOf' = PlaceOf /\ ArgumentOf' = ArgumentOf
  BY <1>1 DEF PlaceOf, ArgumentOf, Argument, Place, Sound, Typed, Errands, Errand
<1>4. ContextsOf' = ContextsOf /\ ZombieOf' = ZombieOf
  BY <1>1 DEF ContextsOf, ContextOf, ZombieOf, Sound, Typed, Errands, Errand
<1>5. JoinOf' = JoinOf
  BY <1>1, <1>2 DEF JoinOf, Sound, Typed, Errands, Errand
<1>6. MutexesOf' = MutexesOf
  BY <1>1 DEF MutexesOf
<1>7. Ready' = Ready /\ Full' = Full /\ Adds' = Adds
  <2>1. Full' = Full
    BY <1>1, <1>2 DEF Full
  <2>2. Adds' = Adds
    BY <1>1, <1>2 DEF Adds, Sound, Typed
  <2> QED BY <1>1, <2>1, <2>2 DEF Ready, Full, Adds
<1>8. Trailing'
  BY <1>1, <1>2, <1>7 DEF Trailing, Adds, Sound, Typed, Errands, Errand
<1> QED
  BY <1>1, <1>3, <1>4, <1>5, <1>6, <1>7, <1>8 DEF view

LEMMA BecomesZombieQuiet ==
  ASSUME QuietWindows, Sound, Trailing, process = "runs", NEW t \in Threads, BecomesZombie(t)
  PROVE  UNCHANGED view /\ Trailing'
<1>1. /\ cpu = t /\ ~handler[t] /\ at[t] = "zombie"
      /\ zombie' = [zombie EXCEPT ![t] = TRUE]
      /\ at' = [at EXCEPT ![t] = "pop"]
      /\ UNCHANGED <<cpu, links, call, handler, masked, item, last, nxt, target, join, freed, taken, holds, process>>
  BY DEF BecomesZombie, Executes, GoesTo, Enter, Leaves, locals, fields, mutexes
<1>2. Popped' = Popped /\ Midway' = Midway
  BY <1>1 DEF Popped, Midway, Sound, Typed
<1>3. PlaceOf' = PlaceOf /\ ArgumentOf' = ArgumentOf
  BY <1>1 DEF PlaceOf, ArgumentOf, Argument, Place, Sound, Typed, Errands, Errand
<1>4. ContextsOf' = ContextsOf /\ ZombieOf' = ZombieOf
  BY <1>1 DEF ContextsOf, ContextOf, ZombieOf, Sound, Typed, Errands, Errand
<1>5. JoinOf' = JoinOf
  BY <1>1, <1>2 DEF JoinOf, Sound, Typed, Errands, Errand
<1>6. MutexesOf' = MutexesOf
  BY <1>1 DEF MutexesOf
<1>7. Ready' = Ready /\ Full' = Full /\ Adds' = Adds
  <2>1. Full' = Full
    BY <1>1, <1>2 DEF Full
  <2>2. Adds' = Adds
    BY <1>1, <1>2 DEF Adds, Sound, Typed
  <2> QED BY <1>1, <2>1, <2>2 DEF Ready, Full, Adds
<1>8. Trailing'
  BY <1>1, <1>2, <1>7 DEF Trailing, Adds, Sound, Typed, Errands, Errand
<1> QED
  BY <1>1, <1>3, <1>4, <1>5, <1>6, <1>7, <1>8 DEF view

LEMMA RunQuiet ==
  ASSUME QuietWindows, Sound, Trailing, process = "runs", NEW t \in Threads, Run(t)
  PROVE  UNCHANGED view /\ Trailing'
<1>1. /\ cpu = t /\ ~handler[t] /\ at[t] = "run"
      /\ at' = [at EXCEPT ![t] = "switch"]
      /\ UNCHANGED <<cpu, links, call, handler, masked, item, last, nxt, target, join, zombie, freed, taken, holds, process>>
  BY DEF Run, Executes, GoesTo, Enter, Leaves, locals, fields, mutexes
<1>2. Popped' = Popped /\ Midway' = Midway
  BY <1>1 DEF Popped, Midway, Sound, Typed
<1>3. PlaceOf' = PlaceOf /\ ArgumentOf' = ArgumentOf
  BY <1>1 DEF PlaceOf, ArgumentOf, Argument, Place, Sound, Typed, Errands, Errand
<1>4. ContextsOf' = ContextsOf /\ ZombieOf' = ZombieOf
  BY <1>1 DEF ContextsOf, ContextOf, ZombieOf, Sound, Typed, Errands, Errand
<1>5. JoinOf' = JoinOf
  BY <1>1, <1>2 DEF JoinOf, Sound, Typed, Errands, Errand
<1>6. MutexesOf' = MutexesOf
  BY <1>1 DEF MutexesOf
<1>7. Ready' = Ready /\ Full' = Full /\ Adds' = Adds
  <2>1. Full' = Full
    BY <1>1, <1>2 DEF Full
  <2>2. Adds' = Adds
    BY <1>1, <1>2 DEF Adds, Sound, Typed
  <2> QED BY <1>1, <2>1, <2>2 DEF Ready, Full, Adds
<1>8. Trailing'
  BY <1>1, <1>2, <1>7 DEF Trailing, Adds, Sound, Typed, Errands, Errand
<1> QED
  BY <1>1, <1>3, <1>4, <1>5, <1>6, <1>7, <1>8 DEF view

LEMMA FreeQuiet ==
  ASSUME QuietWindows, Sound, Trailing, process = "runs", NEW t \in Threads, Free(t)
  PROVE  UNCHANGED view /\ Trailing'
<1>1. /\ cpu = t /\ ~handler[t] /\ at[t] = "free"
      /\ freed' = [freed EXCEPT ![target[t]] = TRUE]
      /\ at' = [at EXCEPT ![t] = "user"]
      /\ call' = [call EXCEPT ![t] = "none"]
      /\ target' = [target EXCEPT ![t] = NULL]
      /\ UNCHANGED <<cpu, links, handler, masked, item, last, nxt, join, zombie, taken, holds, process>>
  BY DEF Free, Executes, GoesTo, Enter, Leaves, locals, fields, mutexes
<1>2. ~Midway /\ ~Popped /\ Popped' = Popped /\ Midway' = Midway
  BY <1>1 DEF Popped, Midway, Sound, Typed
<1>3. PlaceOf' = PlaceOf /\ ArgumentOf' = ArgumentOf
  BY <1>1 DEF PlaceOf, ArgumentOf, Argument, Place, Sound, Typed, Errands, Errand
<1>4. ContextsOf' = ContextsOf /\ ZombieOf' = ZombieOf
  BY <1>1 DEF ContextsOf, ContextOf, ZombieOf, Sound, Typed, Errands, Errand
<1>5. JoinOf' = JoinOf
  BY <1>1, <1>2 DEF JoinOf, Sound, Typed, Errands, Errand
<1>6. MutexesOf' = MutexesOf
  BY <1>1 DEF MutexesOf
<1>7. Ready' = Ready /\ Full' = Full /\ Adds' = Adds
  <2>1. Full' = Full
    BY <1>1, <1>2 DEF Full
  <2>2. Adds' = Adds
    BY <1>1, <1>2 DEF Adds, Sound, Typed
  <2> QED BY <1>1, <2>1, <2>2 DEF Ready, Full, Adds
<1>8. Trailing'
  BY <1>1, <1>2, <1>7 DEF Trailing, Adds, Sound, Typed, Errands, Errand
<1> QED
  BY <1>1, <1>3, <1>4, <1>5, <1>6, <1>7, <1>8 DEF view

LEMMA TestRefines ==
  ASSUME QuietWindows, Sound, Trailing, process = "runs", NEW t \in Threads, Test(t)
  PROVE  (UNCHANGED view \/ Library!JoinCall) /\ Trailing'
<1> DEFINE u == target[Main]
<1>1. /\ cpu = t /\ ~handler[t] /\ at[t] = "test"
      /\ at' = [at EXCEPT ![t] = IF zombie[target[t]] THEN "free" ELSE "note"]
      /\ UNCHANGED <<cpu, links, call, handler, masked, item, last, nxt, target, join, zombie, freed, taken, holds, process>>
  BY DEF Test, Executes, GoesTo, locals, fields, mutexes
<1>2. ~Midway /\ ~Popped /\ ~Midway' /\ ~Popped'
  BY <1>1 DEF Popped, Midway, Sound, Typed
<1>3. /\ t = Main /\ u \in Threads \ {Main} /\ call[Main] = "join" /\ at[u] # "none"
      /\ holds[Main] = {} /\ ~freed[u] /\ u # cpu
  BY <1>1 DEF Sound, Errands, Errand, Joins, Trailing
<1>4. PlaceOf' = PlaceOf /\ ArgumentOf' = ArgumentOf /\ PlaceOf[Main] = "user"
  BY <1>1, <1>3 DEF PlaceOf, ArgumentOf, Argument, Place, Sound, Typed, Errands, Errand
<1>5. ZombieOf' = ZombieOf /\ JoinOf' = JoinOf /\ MutexesOf' = MutexesOf
  BY <1>1, <1>2, <1>3 DEF ZombieOf, JoinOf, MutexesOf, Sound, Typed
<1>6. Ready' = Ready /\ Trailing'
  BY <1>1, <1>2, <1>3 DEF Ready, Trailing, Adds
<1>7. CASE ~zombie[u]
  <2>1. ContextsOf' = ContextsOf
    BY <1>1, <1>3, <1>7 DEF ContextsOf, ContextOf, Sound, Typed
  <2> QED BY <1>1, <1>4, <1>5, <1>6, <2>1 DEF view
<1>8. CASE zombie[u]
  <2>1. ContextsOf' = [ContextsOf EXCEPT ![u] = "freed"] /\ ContextsOf[u] = "live"
    BY <1>1, <1>3, <1>8 DEF ContextsOf, ContextOf, Sound, Typed
  <2>2. ZombieOf[u]
    BY <1>3, <1>8 DEF ZombieOf, Sound, Joins
  <2>3. Library!JoinZombie(Main, u)
    BY <1>1, <1>3, <1>4, <1>5, <1>6, <2>1, <2>2
       DEF Library!JoinZombie, Library!Runs, Library!threadVars, PlaceOf, ArgumentOf,
           JoinOf, ZombieOf, ContextsOf, MutexesOf
  <2> QED BY <1>1, <1>3, <1>6, <2>1, <2>3 DEF Library!JoinCall, ContextsOf
<1> QED BY <1>7, <1>8

LEMMA NoteQuiet ==
  ASSUME QuietWindows, Sound, Trailing, process = "runs", NEW t \in Threads, Note(t)
  PROVE  UNCHANGED view /\ Trailing'
<1> DEFINE u == target[Main]
<1>1. /\ cpu = t /\ ~handler[t] /\ at[t] = "note"
      /\ at' = [at EXCEPT ![t] = "pop"]
      /\ join' = [join EXCEPT ![target[t]] = running]
      /\ UNCHANGED <<cpu, links, call, handler, masked, item, last, nxt, target, zombie, freed, taken, holds, process>>
  BY DEF Note, Executes, GoesTo, locals, fields, mutexes
<1>2. ~Midway /\ ~Popped /\ Midway' /\ ~Popped'
  BY <1>1 DEF Popped, Midway, Sound, Typed
<1>3. /\ t = Main /\ u \in Threads \ {Main} /\ call[Main] = "join"
      /\ join[u] = NULL
  BY <1>1, <1>2 DEF Sound, Errands, Errand, Joins
<1>4. PlaceOf' = PlaceOf /\ ArgumentOf' = ArgumentOf
  BY <1>1, <1>3 DEF PlaceOf, ArgumentOf, Argument, Place, Sound, Typed, Errands, Errand
<1>5. ZombieOf' = ZombieOf /\ MutexesOf' = MutexesOf /\ ContextsOf' = ContextsOf
  BY <1>1, <1>2, <1>3 DEF ZombieOf, MutexesOf, ContextsOf, ContextOf, Sound, Typed
<1>6. JoinOf' = JoinOf
  BY <1>1, <1>2, <1>3 DEF JoinOf, Sound, Typed
<1>7. Ready' = Ready /\ Trailing'
  BY <1>1, <1>2, <1>3 DEF Ready, Trailing, Adds
<1> QED
  BY <1>1, <1>4, <1>5, <1>6, <1>7 DEF view

LEMMA WalkQuiet ==
  ASSUME QuietWindows, Sound, Trailing, process = "runs", NEW t \in Threads, Walk(t)
  PROVE  UNCHANGED view /\ Trailing'
<1>1. ~Endless(links, "ready")
  BY ListFacts DEF Sound, Places, Queues
<1>2. /\ cpu = t /\ ~handler[t] /\ at[t] \in {"walk", "wake"}
      /\ at' = [at EXCEPT ![t] = "link"]
      /\ UNCHANGED <<cpu, links, call, handler, masked, nxt, target, join, zombie, freed, taken, holds, process>>
  BY <1>1 DEF Walk, Executes, GoesTo, fields, mutexes
<1>3. ~Midway /\ ~Popped /\ ~Midway' /\ ~Popped'
  BY <1>2 DEF Popped, Midway, Sound, Typed
<1>4. PlaceOf' = PlaceOf /\ ArgumentOf' = ArgumentOf
  BY <1>2 DEF PlaceOf, ArgumentOf, Argument, Place, Sound, Typed, Errands, Errand
<1>5. ZombieOf' = ZombieOf /\ MutexesOf' = MutexesOf /\ JoinOf' = JoinOf
  BY <1>2, <1>3 DEF ZombieOf, MutexesOf, JoinOf, Sound, Typed
<1>6. ContextsOf' = ContextsOf
  BY <1>2 DEF ContextsOf, ContextOf, Sound, Typed
<1>7. Ready' = Ready /\ Trailing'
  BY <1>2, <1>3 DEF Ready, Trailing, Adds
<1> QED
  BY <1>2, <1>4, <1>5, <1>6, <1>7 DEF view

LEMMA StoreQuiet ==
  ASSUME QuietWindows, Sound, Trailing, process = "runs", NEW t \in Threads, Store(t)
  PROVE  UNCHANGED view /\ Trailing'
<1> DEFINE w == item[t]
           Q == ItemsOf(links, "ready")
<1>1. SafeWindows /\ "ready" \in Queues /\ \A m \in Mutexes : m \in Queues /\ m # "ready"
  BY PreemptAssumption DEF PreemptAssumption, Queues, QuietWindows, SafeWindows
<1>2. /\ cpu = t /\ ~handler[t] /\ at[t] = "link"
      /\ at' = [at EXCEPT ![t] = IF call[t] = "end" THEN "zombie" ELSE "pop"]
      /\ UNCHANGED <<cpu, call, handler, masked, item, last, nxt, target, join, zombie, freed, taken, holds, process>>
  BY DEF Store, Executes, GoesTo, locals, fields, mutexes
<1>3. /\ call[t] \in {"yield", "end"}
      /\ w \in Threads \cup {NULL}
      /\ Queued(links') = IF w = NULL THEN Queued(links)
                          ELSE [Queued(links) EXCEPT !["ready"] = Append(@, w)]
  BY <1>1, StoreAdds DEF Sound, Typed
<1>4. ~Midway /\ ~Popped /\ Midway' /\ ~Popped'
  BY <1>2, <1>3 DEF Popped, Midway, Sound, Typed
<1>5. /\ Q \in Seq(Threads)
      /\ ItemsOf(links', "ready") = IF w = NULL THEN Q ELSE Append(Q, w)
      /\ \A m \in Mutexes : ItemsOf(links', m) = ItemsOf(links, m)
  <2>1. \A q \in Queues : Queued(links')[q] = ItemsOf(links', q)
    BY DEF Queued
  <2> QED BY <1>1, <1>3, <2>1, ReadyIs
<1>6. PlaceOf' = PlaceOf /\ ArgumentOf' = ArgumentOf
  BY <1>2 DEF PlaceOf, ArgumentOf, Argument, Place, Sound, Typed, Errands, Errand
<1>7. ZombieOf' = ZombieOf /\ JoinOf' = JoinOf /\ ContextsOf' = ContextsOf
  BY <1>2, <1>3, <1>4 DEF ZombieOf, JoinOf, ContextsOf, ContextOf, Sound, Typed
<1>8. MutexesOf' = MutexesOf
  BY <1>2, <1>5 DEF MutexesOf
<1>9. Ready = Q /\ Full' = ItemsOf(links', "ready") /\ (Adds' <=> w # NULL)
      /\ Ready' = IF w # NULL THEN SubSeq(Full', 1, Len(Full') - 1) ELSE Full'
  <2> HIDE DEF Q, w
  <2>1. Append(Q, w) \in Seq(Threads) \/ w = NULL
    BY <1>3, <1>5
  <2>2. <<>> \o Q = Q /\ <<>> \o ItemsOf(links', "ready") = ItemsOf(links', "ready")
    BY <1>5, <2>1
  <2> QED BY <1>2, <1>3, <1>4, <2>2 DEF Ready, Full, Adds, Q, w
<1>10. Ready' = Ready /\ (Adds' => Full' # <<>> /\ Full'[Len(Full')] = w)
  <2> HIDE DEF Q, w
  <2> QED BY <1>3, <1>5, <1>9, LastEntry
<1>11. Trailing'
  BY <1>2, <1>10 DEF Trailing
<1> QED
  BY <1>2, <1>6, <1>7, <1>8, <1>10, <1>11 DEF view

LEMMA PopQuiet ==
  ASSUME QuietWindows, Sound, Trailing, process = "runs", NEW t \in Threads, Pop(t)
  PROVE  UNCHANGED view /\ Trailing'
<1>1. /\ cpu = t /\ ~handler[t] /\ at[t] = "pop"
      /\ at' = [at EXCEPT ![t] = "take"]
      /\ UNCHANGED <<cpu, links, call, handler, masked, item, last, target, join, zombie, freed, taken, holds, process>>
  BY PopFinds DEF Pop, Executes, GoesTo, fields, mutexes, Sound, Typed
<1>2. Midway /\ ~Popped /\ Midway' /\ ~Popped'
  BY <1>1 DEF Popped, Midway, Sound, Typed
<1>3. PlaceOf' = PlaceOf /\ ArgumentOf' = ArgumentOf
  BY <1>1 DEF PlaceOf, ArgumentOf, Argument, Place, Sound, Typed, Errands, Errand
<1>4. ContextsOf' = ContextsOf /\ ZombieOf' = ZombieOf
  BY <1>1 DEF ContextsOf, ContextOf, ZombieOf, Sound, Typed, Errands, Errand
<1>5. JoinOf' = JoinOf /\ MutexesOf' = MutexesOf
  BY <1>1, <1>2 DEF JoinOf, MutexesOf
<1>6. Full' = Full /\ Adds' = Adds
  BY <1>1, <1>2 DEF Full, Adds
<1>7. Ready' = Ready /\ Trailing'
  BY <1>1, <1>2, <1>6 DEF Ready, Trailing, Full, Adds
<1> QED
  BY <1>1, <1>3, <1>4, <1>5, <1>7 DEF view

LEMMA TakeQuiet ==
  ASSUME QuietWindows, Sound, Trailing, process = "runs", NEW t \in Threads, Take(t)
  PROVE  UNCHANGED view /\ Trailing'
<1> DEFINE h == links.head["ready"]
           Q == ItemsOf(links, "ready")
<1>1. /\ Listed(links)
      /\ "ready" \in Queues /\ \A m \in Mutexes : m \in Queues /\ m # "ready"
  BY PreemptAssumption DEF PreemptAssumption, Queues, Sound, Places
<1>2. cpu = t /\ ~handler[t] /\ at[t] = "take" /\ h # NULL /\ nxt[t] = h
  BY DEF Take, Executes, Sound, Processor
<1>3. /\ links' = Popped1(links, "ready")
      /\ at' = [at EXCEPT ![t] = "cut"]
      /\ UNCHANGED <<cpu, call, handler, masked, item, last, nxt, target, join, zombie, freed, taken, holds, process>>
  BY <1>1, <1>2, HeadTaken, ListFacts DEF Take, GoesTo, locals, fields, mutexes
<1>4. /\ Queued(links') = [Queued(links) EXCEPT !["ready"] = Tail(@)]
      /\ Queued(links)["ready"] # <<>> /\ h = Head(Queued(links)["ready"])
      /\ h \in Threads
  BY <1>1, <1>2, <1>3, PopLists
<1> HIDE DEF h
<1>5. /\ Q \in Seq(Threads) /\ Q # <<>> /\ h = Head(Q)
      /\ ItemsOf(links', "ready") = Tail(Q)
      /\ \A m \in Mutexes : ItemsOf(links', m) = ItemsOf(links, m)
  <2>1. \A q \in Queues : Queued(links')[q] = ItemsOf(links', q)
    BY DEF Queued
  <2> QED BY <1>1, <1>4, <2>1, ReadyIs
<1>6. Midway /\ ~Popped /\ Midway' /\ Popped' /\ nxt'[cpu'] = h
  BY <1>2, <1>3, <1>4, PreemptAssumption DEF PreemptAssumption, Popped, Midway, Sound, Typed
<1>7. Full = Q /\ Full' = Q
  <2> HIDE DEF Q
  <2>1. <<>> \o Q = Q /\ <<h>> \o Tail(Q) = Q
    BY <1>5, FirstBack
  <2> QED BY <1>5, <1>6, <2>1 DEF Full, Q
<1>8. Adds' <=> Adds
  BY <1>3, <1>6 DEF Adds
<1>9. Ready' = Ready
  BY <1>7, <1>8 DEF Ready, Full, Adds
<1>10. PlaceOf' = PlaceOf /\ ArgumentOf' = ArgumentOf
  BY <1>2, <1>3 DEF PlaceOf, ArgumentOf, Argument, Place, Sound, Typed, Errands, Errand
<1>11. ZombieOf' = ZombieOf /\ JoinOf' = JoinOf /\ ContextsOf' = ContextsOf
  BY <1>2, <1>3, <1>6 DEF ZombieOf, JoinOf, ContextsOf, ContextOf, Sound, Typed
<1>12. MutexesOf' = MutexesOf
  BY <1>3, <1>5 DEF MutexesOf
<1>13. Trailing'
  BY <1>3, <1>7, <1>8 DEF Trailing
<1> QED
  BY <1>3, <1>9, <1>10, <1>11, <1>12, <1>13 DEF view

LEMMA CutQuiet ==
  ASSUME QuietWindows, Sound, Trailing, process = "runs", NEW t \in Threads, Cut(t)
  PROVE  UNCHANGED view /\ Trailing'
<1>1. Listed(links) /\ "ready" \in Queues /\ \A m \in Mutexes : m \in Queues
  BY DEF Queues, Sound, Places
<1>2. /\ cpu = t /\ ~handler[t] /\ at[t] = "cut"
      /\ links' = [links EXCEPT !.next[nxt[t]] = NULL]
      /\ at' = [at EXCEPT ![t] = "run"]
      /\ UNCHANGED <<cpu, call, handler, masked, item, last, nxt, target, join, zombie, freed, taken, holds, process>>
  BY DEF Cut, Executes, GoesTo, locals, fields, mutexes
<1>3. nxt[t] \in Threads /\ \A q \in Queues : nxt[t] \notin Members(links, q)
  BY <1>2 DEF Sound, Processor, Places, Popped, Typed
<1>4. Queued(links') = Queued(links)
  BY <1>1, <1>2, <1>3, CutLists
<1>5. /\ ItemsOf(links', "ready") = ItemsOf(links, "ready")
      /\ \A m \in Mutexes : ItemsOf(links', m) = ItemsOf(links, m)
  <2>1. \A q \in Queues : /\ Queued(links')[q] = ItemsOf(links', q)
                          /\ Queued(links)[q] = ItemsOf(links, q)
    BY DEF Queued
  <2> QED BY <1>1, <1>4, <2>1
<1>6. Midway /\ Popped /\ Midway' /\ Popped'
  BY <1>2, <1>3, PreemptAssumption DEF PreemptAssumption, Popped, Midway, Sound, Typed
<1>7. Full' = Full /\ Adds' = Adds
  BY <1>2, <1>5, <1>6 DEF Full, Adds
<1>8. Ready' = Ready
  BY <1>7 DEF Ready, Full, Adds
<1>9. PlaceOf' = PlaceOf /\ ArgumentOf' = ArgumentOf
  BY <1>2 DEF PlaceOf, ArgumentOf, Argument, Place, Sound, Typed, Errands, Errand
<1>10. ZombieOf' = ZombieOf /\ JoinOf' = JoinOf /\ ContextsOf' = ContextsOf
  BY <1>2, <1>6 DEF ZombieOf, JoinOf, ContextsOf, ContextOf, Sound, Typed
<1>11. MutexesOf' = MutexesOf
  BY <1>2, <1>5 DEF MutexesOf
<1>12. Trailing'
  BY <1>2, <1>7 DEF Trailing
<1> QED
  BY <1>2, <1>8, <1>9, <1>10, <1>11, <1>12 DEF view

\* What the library does, of what GreenClient sees.
LEMMA StartRefines ==
  ASSUME QuietWindows, Sound, Trailing, process = "runs", NEW t \in Threads, Start(t)
  PROVE  Library!Return(t) /\ Trailing'
<1>1. /\ cpu = t /\ ~handler[t] /\ at[t] = "new"
      /\ at' = [at EXCEPT ![t] = "user"]
      /\ masked' = [masked EXCEPT ![t] = TRUE]
      /\ UNCHANGED <<cpu, links, call, handler, item, last, nxt, target, join, zombie, freed, taken, holds, process>>
  BY DEF Start, Executes, GoesTo, locals, fields, mutexes
<1>2. ~Midway /\ ~Popped /\ ~Midway' /\ ~Popped'
  BY <1>1 DEF Popped, Midway, Sound, Typed
<1>3. /\ PlaceOf[t] = "new" /\ PlaceOf' = [PlaceOf EXCEPT ![t] = "user"]
      /\ ArgumentOf' = [ArgumentOf EXCEPT ![t] = Library!Nothing]
  <2>1. \A u \in Threads : /\ Place(u) = IF u = t THEN "new" ELSE Place(u)
                           /\ Place(u)' = IF u = t THEN "user" ELSE Place(u)
    BY <1>1 DEF Place, QuietWindows, Sound, Typed, Errands, Errand
  <2>2. \A u \in Threads : Argument(u)' = IF u = t THEN Library!Nothing ELSE Argument(u)
    BY <1>1, <2>1 DEF Argument, Library!Nothing, Sound, Typed
  <2> QED BY <2>1, <2>2 DEF PlaceOf, ArgumentOf
<1>4. ZombieOf' = ZombieOf /\ JoinOf' = JoinOf /\ ContextsOf' = ContextsOf /\ MutexesOf' = MutexesOf
  BY <1>1, <1>2 DEF ZombieOf, JoinOf, ContextsOf, ContextOf, MutexesOf, Sound, Typed
<1>5. Ready' = Ready /\ Trailing'
  BY <1>1, <1>2 DEF Ready, Trailing, Adds
<1>6. Library!Start(t)
  BY <1>1, <1>3, <1>4, <1>5
     DEF Library!Start, Library!Runs, Library!GoOn, Library!joinVars, PlaceOf, ArgumentOf,
         JoinOf, ZombieOf, ContextsOf, MutexesOf
<1> QED
  BY <1>1, <1>5, <1>6 DEF Library!Return

LEMMA TickReturnsRefines ==
  ASSUME QuietWindows, Sound, Trailing, process = "runs", NEW t \in Threads, TickReturns(t)
  PROVE  Library!Return(t) /\ Trailing'
<1>1. /\ cpu = t /\ handler[t]
      /\ handler' = [handler EXCEPT ![t] = FALSE]
      /\ masked' = [masked EXCEPT ![t] = FALSE]
      /\ UNCHANGED <<cpu, links, at, call, item, last, nxt, target, join, zombie, freed, taken, holds, process>>
  BY DEF TickReturns, locals, fields, mutexes
<1>2. at[t] \in {"user", "walk", "test", "free"}
  BY <1>1 DEF QuietWindows, Sound, Errands, Errand
<1>3. Popped' = Popped /\ Midway' = Midway
  BY <1>1 DEF Popped, Midway
<1>4. /\ PlaceOf[t] = "tick" /\ PlaceOf' = [PlaceOf EXCEPT ![t] = "user"]
      /\ ArgumentOf' = [ArgumentOf EXCEPT ![t] = Library!Nothing]
  <2>1. \A u \in Threads : /\ Place(u) = IF u = t THEN "tick" ELSE Place(u)
                           /\ Place(u)' = IF u = t THEN "user" ELSE Place(u)
    BY <1>1, <1>2 DEF Place, Sound, Typed
  <2>2. \A u \in Threads : Argument(u)' = IF u = t THEN Library!Nothing ELSE Argument(u)
    BY <1>1, <1>2, <2>1 DEF Argument, Library!Nothing, Sound, Typed
  <2> QED BY <2>1, <2>2 DEF PlaceOf, ArgumentOf
<1>5. ZombieOf' = ZombieOf /\ JoinOf' = JoinOf /\ ContextsOf' = ContextsOf /\ MutexesOf' = MutexesOf
  BY <1>1, <1>3 DEF ZombieOf, JoinOf, ContextsOf, ContextOf, MutexesOf
<1>6. Ready' = Ready /\ Trailing'
  BY <1>1, <1>3 DEF Ready, Trailing, Adds, Full
<1>7. Library!TickReturns(t)
  BY <1>1, <1>4, <1>5, <1>6
     DEF Library!TickReturns, Library!Runs, Library!GoOn, Library!joinVars, PlaceOf, ArgumentOf,
         JoinOf, ZombieOf, ContextsOf, MutexesOf
<1> QED
  BY <1>1, <1>6, <1>7 DEF Library!Return

LEMMA LockReturnsRefines ==
  ASSUME QuietWindows, Sound, Trailing, process = "runs", NEW t \in Threads, LockReturns(t)
  PROVE  Library!Return(t) /\ Trailing'
<1>1. /\ cpu = t /\ ~handler[t] /\ at[t] = "lock"
      /\ at' = [at EXCEPT ![t] = "user"]
      /\ call' = [call EXCEPT ![t] = "none"]
      /\ target' = [target EXCEPT ![t] = NULL]
      /\ holds' = [holds EXCEPT ![t] = @ \cup {target[t]}]
      /\ masked' = [masked EXCEPT ![t] = FALSE]
      /\ UNCHANGED <<cpu, links, handler, item, last, nxt, join, zombie, freed, taken, process>>
  BY DEF LockReturns, Executes, GoesTo, Leaves, Takes, fields
<1>2. ~Midway /\ ~Popped /\ ~Midway' /\ ~Popped' /\ call' = call
  BY <1>1 DEF Popped, Midway, Sound, Typed, Errands, Errand
<1>3. /\ PlaceOf[t] = "lock" /\ PlaceOf' = [PlaceOf EXCEPT ![t] = "user"]
      /\ ArgumentOf[t].mutex = target[t]
      /\ ArgumentOf' = [ArgumentOf EXCEPT ![t] = Library!Nothing]
  <2>1. \A u \in Threads : /\ Place(u) = IF u = t THEN "lock" ELSE Place(u)
                           /\ Place(u)' = IF u = t THEN "user" ELSE Place(u)
    BY <1>1 DEF Place, QuietWindows, Sound, Typed, Errands, Errand
  <2>2. \A u \in Threads : Argument(u)' = IF u = t THEN Library!Nothing ELSE Argument(u)
    BY <1>1, <2>1 DEF Argument, Library!Nothing, Sound, Typed
  <2>3. Argument(t).mutex = target[t]
    BY <1>1 DEF Argument
  <2> QED BY <2>1, <2>2, <2>3 DEF PlaceOf, ArgumentOf
<1>4. call[Main] = "join" => t # Main
  BY <1>1 DEF Sound, Errands, Errand
<1>5. ZombieOf' = ZombieOf /\ JoinOf' = JoinOf /\ ContextsOf' = ContextsOf /\ MutexesOf' = MutexesOf
  BY <1>1, <1>2 DEF ZombieOf, JoinOf, ContextsOf, ContextOf, MutexesOf, Sound, Typed
<1>6. Ready' = Ready /\ Trailing'
  BY <1>1, <1>2, <1>4 DEF Ready, Trailing, Adds, Sound, Typed
<1>7. Library!LockReturns(t)
  BY <1>1, <1>3, <1>5, <1>6
     DEF Library!LockReturns, Library!Runs, Library!GoOn, Library!joinVars, PlaceOf, ArgumentOf,
         JoinOf, ZombieOf, ContextsOf, MutexesOf
<1>8. Library!Takes(t, ArgumentOf[t].mutex)
  BY <1>1, <1>3 DEF Library!Takes
<1> QED
  BY <1>6, <1>7, <1>8 DEF Library!Return, ArgumentOf

LEMMA SwapReturnsRefines ==
  ASSUME QuietWindows, Sound, Trailing, process = "runs", NEW t \in Threads, SwapReturns(t)
  PROVE  Library!Return(t) /\ Trailing'
<1>1. /\ cpu = t /\ ~handler[t] /\ at[t] = "swapped"
      /\ at' = [at EXCEPT ![t] = IF call[t] = "join" THEN "free" ELSE "user"]
      /\ call[t] = "join" => UNCHANGED <<call, target>>
      /\ call[t] # "join" => /\ call' = [call EXCEPT ![t] = "none"]
                             /\ target' = [target EXCEPT ![t] = NULL]
      /\ UNCHANGED <<cpu, links, handler, masked, item, last, nxt, join, zombie, freed, taken, holds, process>>
  BY DEF SwapReturns, Executes, GoesTo, Leaves, fields, mutexes
<1>2. ~Midway /\ ~Popped /\ ~Midway' /\ ~Popped'
  BY <1>1 DEF Popped, Midway, Sound, Typed
<1>3. /\ PlaceOf[t] = call[t] /\ PlaceOf' = [PlaceOf EXCEPT ![t] = "user"]
      /\ ArgumentOf[t].thread = IF call[t] = "join" THEN target[t] ELSE NULL
      /\ ArgumentOf' = [ArgumentOf EXCEPT ![t] = Library!Nothing]
  <2>1. \A u \in Threads : /\ Place(u) = IF u = t THEN call[t] ELSE Place(u)
                           /\ Place(u)' = IF u = t THEN "user" ELSE Place(u)
    BY <1>1 DEF Place, QuietWindows, Sound, Typed, Errands, Errand
  <2>2. \A u \in Threads : Argument(u)' = IF u = t THEN Library!Nothing ELSE Argument(u)
    BY <1>1, <2>1 DEF Argument, Library!Nothing, Sound, Typed
  <2>3. Argument(t).thread = IF call[t] = "join" THEN target[t] ELSE NULL
    BY <1>1, <2>1 DEF Argument
  <2> QED BY <2>1, <2>2, <2>3 DEF PlaceOf, ArgumentOf
<1>4. ZombieOf' = ZombieOf /\ JoinOf' = JoinOf /\ MutexesOf' = MutexesOf
  BY <1>1, <1>2 DEF ZombieOf, JoinOf, MutexesOf, Sound, Typed
<1>5. Ready' = Ready /\ Trailing'
  BY <1>1, <1>2, PreemptAssumption DEF PreemptAssumption, Ready, Trailing, Adds, Sound, Typed
<1>6. masked' = [masked EXCEPT ![t] = masked[t]]
  BY <1>1 DEF Sound, Typed
<1>7. CASE call[t] = "yield"
  <2>1. ContextsOf' = ContextsOf
    BY <1>1, <1>7, PreemptAssumption DEF PreemptAssumption, ContextsOf, ContextOf, Sound, Typed
  <2>2. Library!YieldReturns(t)
    BY <1>1, <1>3, <1>4, <1>5, <1>6, <1>7, <2>1
       DEF Library!YieldReturns, Library!Runs, Library!GoOn, Library!joinVars, PlaceOf, ArgumentOf,
           JoinOf, ZombieOf, ContextsOf, MutexesOf
  <2> QED BY <1>1, <1>5, <2>2 DEF Library!Return
<1>8. CASE call[t] = "join"
  <2>1. t = Main /\ target[t] \in Threads
    BY <1>8 DEF Sound, Errands, Errand
  <2>2. ContextsOf' = [ContextsOf EXCEPT ![target[t]] = "freed"]
    BY <1>1, <1>8, <2>1 DEF ContextsOf, ContextOf, Sound, Typed
  <2>3. ContextsOf' = [ContextsOf EXCEPT ![ArgumentOf[t].thread] = "freed"]
    BY <1>3, <1>8, <2>2
  <2>4. Library!JoinReturns(t)
    BY <1>1, <1>3, <1>4, <1>5, <1>6, <1>8, <2>3
       DEF Library!JoinReturns, Library!Runs, Library!GoOn, PlaceOf, ArgumentOf,
           JoinOf, ZombieOf, ContextsOf, MutexesOf
  <2> QED BY <1>1, <1>5, <2>4 DEF Library!Return
<1> QED
  BY <1>1, <1>7, <1>8 DEF Sound, Errands, Errand

LEMMA LockFreeRefines ==
  ASSUME QuietWindows, Sound, Trailing, process = "runs", NEW t \in Threads, NEW m \in Mutexes,
         LockFree(t, m)
  PROVE  Library!LockCall(t) /\ Trailing'
<1>1. /\ cpu = t /\ ~handler[t] /\ at[t] = "user" /\ holds[t] = {} /\ ~taken[m]
      /\ taken' = [taken EXCEPT ![m] = TRUE]
      /\ holds' = [holds EXCEPT ![t] = @ \cup {m}]
      /\ masked' = [masked EXCEPT ![t] = FALSE]
      /\ UNCHANGED <<cpu, links, at, call, handler, item, last, nxt, target, join, zombie, freed, process>>
  BY DEF LockFree, Executes, Takes, locals, fields
<1>2. ~Midway /\ ~Popped /\ ~Midway' /\ ~Popped'
  BY <1>1 DEF Popped, Midway
<1>3. PlaceOf[t] = "user" /\ PlaceOf' = PlaceOf /\ ArgumentOf' = ArgumentOf
  BY <1>1 DEF PlaceOf, ArgumentOf, Argument, Place
<1>4. ZombieOf' = ZombieOf /\ JoinOf' = JoinOf /\ ContextsOf' = ContextsOf
  BY <1>1, <1>2 DEF ZombieOf, JoinOf, ContextsOf, ContextOf
<1>5. ~MutexesOf[m].taken /\ MutexesOf' = [MutexesOf EXCEPT ![m].taken = TRUE]
  BY <1>1 DEF MutexesOf, Sound, Typed
<1>6. Ready' = Ready /\ Trailing'
  BY <1>1, <1>2 DEF Ready, Trailing, Adds
<1>7. Library!LockFree(t, m)
  BY <1>1, <1>3, <1>4, <1>5, <1>6
     DEF Library!LockFree, Library!Runs, Library!joinVars, PlaceOf, ArgumentOf,
         JoinOf, ZombieOf, ContextsOf, MutexesOf
<1> QED
  BY <1>1, <1>6, <1>7 DEF Library!LockCall, Library!Takes

LEMMA MainReturnsRefines ==
  ASSUME QuietWindows, Sound, process = "runs", MainReturns
  PROVE  Library!MainEnds
<1>1. /\ cpu = Main /\ ~handler[Main] /\ at[Main] = "user" /\ Main \in Threads
      /\ \A u \in Threads \ {Main} : at[u] = "none" \/ freed[u]
      /\ process' = "exit"
      /\ UNCHANGED <<cpu, links, at, call, handler, masked, item, last, nxt, target, join, zombie, freed, taken, holds>>
  BY PreemptAssumption DEF PreemptAssumption, MainReturns, Executes, Dies, locals, fields, mutexes
<1>2. PlaceOf[Main] = "user" /\ PlaceOf' = PlaceOf /\ ArgumentOf' = ArgumentOf
  BY <1>1 DEF PlaceOf, ArgumentOf, Argument, Place
<1>3. /\ ZombieOf' = ZombieOf /\ JoinOf' = JoinOf /\ ContextsOf' = ContextsOf
      /\ MutexesOf' = MutexesOf
  BY <1>1 DEF ZombieOf, JoinOf, ContextsOf, ContextOf, MutexesOf, Midway
<1>4. Ready' = Ready
  BY <1>1 DEF Ready, Popped, Midway
<1>5. \A u \in Threads \ {Main} : ContextsOf[u] # "live"
  BY <1>1 DEF ContextsOf, ContextOf
<1>6. Library!MainReturns
  BY <1>1, <1>2, <1>3, <1>4
     DEF Library!MainReturns, Library!Runs, Library!threadVars, Library!joinVars, PlaceOf, ArgumentOf,
         JoinOf, ZombieOf, ContextsOf, MutexesOf
<1> QED
  BY <1>1, <1>5, <1>6 DEF Library!MainEnds, ContextsOf

LEMMA CreateRefines ==
  ASSUME QuietWindows, Sound, Trailing, process = "runs", NEW t \in Threads, NEW new \in Threads,
         Create(t, new)
  PROVE  Library!ThreadCall(t) /\ Trailing'
<1> DEFINE Q == ItemsOf(links, "ready")
<1>1. /\ SafeWindows /\ Main \in Threads /\ NULL \notin Threads
      /\ "ready" \in Queues /\ \A m \in Mutexes : m \in Queues /\ m # "ready"
  BY PreemptAssumption DEF PreemptAssumption, Queues, QuietWindows, SafeWindows
<1>2. /\ cpu = t /\ ~handler[t] /\ at[t] = "user" /\ at[new] = "none"
      /\ at' = [at EXCEPT ![new] = "new"]
      /\ masked' = [masked EXCEPT ![new] = masked[t], ![t] = FALSE]
      /\ UNCHANGED <<cpu, call, handler, item, last, nxt, target, join, zombie, freed, taken, holds, process>>
      /\ Queued(links') = [Queued(links) EXCEPT !["ready"] = Append(@, new)]
  BY <1>1, CreateLists
<1>3. ~Midway /\ ~Popped /\ ~Midway' /\ ~Popped' /\ new # t
  BY <1>2 DEF Midway, Popped, Sound, Typed
<1>4. ~handler[new] /\ ~freed[new] /\ join[new] = NULL /\ ~zombie[new] /\ ~(at[Main] = "free" /\ target[Main] = new)
  <2>1. ~handler[new]
    BY <1>2 DEF QuietWindows, Sound, Errands, Errand
  <2>2. ~freed[new] /\ join[new] = NULL /\ ~zombie[new]
    BY <1>2, <1>3 DEF Sound, Joins
  <2>3. ~(at[Main] = "free" /\ target[Main] = new)
    BY <1>1, <1>2 DEF Sound, Joins, Errands, Errand
  <2> QED BY <2>1, <2>2, <2>3
<1>5. /\ Q \in Seq(Threads) /\ ItemsOf(links', "ready") = Append(Q, new)
      /\ \A m \in Mutexes : ItemsOf(links', m) = ItemsOf(links, m)
  <2>1. \A q \in Queues : Queued(links')[q] = ItemsOf(links', q)
    BY DEF Queued
  <2> QED BY <1>1, <1>2, <2>1, ReadyIs
<1>6. PlaceOf[t] = "user" /\ PlaceOf[new] = "none" /\ PlaceOf' = [PlaceOf EXCEPT ![new] = "new"]
  <2>1. \A u \in Threads : /\ Place(u) = IF u = new THEN "none" ELSE Place(u)
                           /\ Place(u)' = IF u = new THEN "new" ELSE Place(u)
    BY <1>2, <1>4 DEF Place, Sound, Typed
  <2>2. Place(t) = "user"
    BY <1>2 DEF Place
  <2> QED BY <2>1, <2>2 DEF PlaceOf
<1>7. ArgumentOf' = ArgumentOf
  <2>1. \A u \in Threads : Argument(u)' = Argument(u)
    BY <1>2, <1>4 DEF Argument, Place, Sound, Typed
  <2> QED BY <2>1 DEF ArgumentOf
<1>8. ZombieOf' = [ZombieOf EXCEPT ![new] = FALSE] /\ JoinOf' = [JoinOf EXCEPT ![new] = NULL]
  BY <1>2, <1>3, <1>4 DEF ZombieOf, JoinOf, Sound, Typed
<1>9. ContextsOf' = [ContextsOf EXCEPT ![new] = "live"]
  BY <1>1, <1>2, <1>4 DEF ContextsOf, ContextOf, Sound, Typed
<1>10. MutexesOf' = MutexesOf
  BY <1>2, <1>5 DEF MutexesOf
<1>11. Ready' = Library!Enq(Ready, new)
  <2> HIDE DEF Q
  <2>1. <<>> \o Q = Q /\ <<>> \o Append(Q, new) = Append(Q, new)
    BY <1>5
  <2>2. Ready = Q /\ Ready' = Append(Q, new)
    BY <1>3, <1>5, <2>1 DEF Ready, Q
  <2> QED BY <1>1, <2>2 DEF Library!Enq
<1>12. Trailing'
  BY <1>1, <1>2, <1>3 DEF Trailing, Adds
<1>13. Library!Create(t, new)
  BY <1>2, <1>6, <1>7, <1>8, <1>9, <1>10, <1>11
     DEF Library!Create, Library!Runs, PlaceOf, ArgumentOf,
         JoinOf, ZombieOf, ContextsOf, MutexesOf
<1> QED
  BY <1>2, <1>6, <1>12, <1>13 DEF Library!ThreadCall, PlaceOf

LEMMA UnlockRefines ==
  ASSUME QuietWindows, Sound, Trailing, process = "runs", NEW t \in Threads, NEW m \in Mutexes,
         Unlock(t, m)
  PROVE  Library!UnlockCall(t) /\ Trailing'
<1> DEFINE w == links.head[m]
           Q == ItemsOf(links, "ready")
           s == ItemsOf(links, m)
<1>1. /\ SafeWindows /\ Main \in Threads /\ NULL \notin Threads
      /\ "ready" \in Queues /\ \A x \in Mutexes : x \in Queues /\ x # "ready"
      /\ Listed(links)
  BY PreemptAssumption DEF PreemptAssumption, Queues, QuietWindows, SafeWindows, Sound, Places
<1>2. /\ cpu = t /\ ~handler[t] /\ at[t] = "user" /\ m \in holds[t]
      /\ holds' = [holds EXCEPT ![t] = @ \ {m}]
      /\ taken' = [taken EXCEPT ![m] = w # NULL]
      /\ masked' = [masked EXCEPT ![t] = FALSE]
      /\ UNCHANGED <<cpu, at, call, handler, item, last, nxt, target, join, zombie, freed, process>>
      /\ w # NULL => w \in Members(links, m) /\ w \in Threads
      /\ w = IF Queued(links)[m] = <<>> THEN NULL ELSE Head(Queued(links)[m])
      /\ Queued(links') =
           IF w = NULL THEN Queued(links)
           ELSE [Queued(links) EXCEPT ![m] = Tail(@), !["ready"] = Append(@, w)]
  BY <1>1, UnlockLists
<1>3. w # NULL => taken[m]
  BY <1>2 DEF Sound, Locks
<1> HIDE DEF w
<1>4. ~Midway /\ ~Popped /\ ~Midway' /\ ~Popped'
  BY <1>2 DEF Midway, Popped
<1>5. /\ Q \in Seq(Threads) /\ s \in Seq(Threads)
      /\ w = IF s = <<>> THEN NULL ELSE Head(s)
      /\ w = NULL => s = <<>>
      /\ ItemsOf(links', "ready") = IF w = NULL THEN Q ELSE Append(Q, w)
      /\ ItemsOf(links', m) = IF w = NULL THEN s ELSE Tail(s)
      /\ \A x \in Mutexes \ {m} : ItemsOf(links', x) = ItemsOf(links, x)
  <2>1. \A q \in Queues : Queued(links')[q] = ItemsOf(links', q)
    BY DEF Queued
  <2>2. /\ Queued(links) \in [Queues -> Seq(Threads)]
        /\ Q = Queued(links)["ready"] /\ s = Queued(links)[m]
        /\ \A x \in Mutexes : ItemsOf(links, x) = Queued(links)[x]
    BY ReadyIs
  <2> HIDE DEF Q, s
  <2>3. Q \in Seq(Threads) /\ s \in Seq(Threads)
    BY <1>1, <2>2
  <2>4. w = IF s = <<>> THEN NULL ELSE Head(s)
    BY <1>2, <2>2
  <2>5. w = NULL => s = <<>>
    BY <1>1, <2>3, <2>4
  <2> QED BY <1>1, <1>2, <2>1, <2>2, <2>3, <2>4, <2>5
<1>6. PlaceOf[t] = "user" /\ PlaceOf' = PlaceOf /\ ArgumentOf' = ArgumentOf
  BY <1>2 DEF PlaceOf, ArgumentOf, Argument, Place
<1>7. ZombieOf' = ZombieOf /\ JoinOf' = JoinOf /\ ContextsOf' = ContextsOf
  BY <1>2, <1>4 DEF ZombieOf, JoinOf, ContextsOf, ContextOf
<1> HIDE DEF s, Q
<1>8. s # <<>> <=> w # NULL
  <2>1. s # <<>> => Head(s) \in Threads
    BY <1>5
  <2> QED BY <1>1, <1>5, <2>1
<1>9. Library!First(MutexesOf[m].susp) = w
  BY <1>5 DEF MutexesOf, Library!First, s
<1>10. MutexesOf' = [MutexesOf EXCEPT ![m] = [taken |-> @.taken /\ @.susp # <<>>,
                                               susp  |-> Library!Rest(@.susp)]]
  <2>1. MutexesOf[m] = [taken |-> taken[m], susp |-> s]
    BY DEF MutexesOf, s
  <2>2. taken'[m] = (taken[m] /\ s # <<>>)
    BY <1>2, <1>3, <1>8 DEF Sound, Typed
  <2>3. ItemsOf(links', m) = Library!Rest(s)
    BY <1>5, <1>8 DEF Library!Rest
  <2>4. \A x \in Mutexes \ {m} : taken'[x] = taken[x] /\ ItemsOf(links', x) = ItemsOf(links, x)
    BY <1>2, <1>5 DEF Sound, Typed
  <2> QED BY <2>1, <2>2, <2>3, <2>4 DEF MutexesOf
<1>11. Ready' = Library!Enq(Ready, w)
  <2>1. <<>> \o Q = Q /\ (w # NULL => <<>> \o Append(Q, w) = Append(Q, w))
    BY <1>2, <1>5
  <2>2. Ready = Q /\ Ready' = ItemsOf(links', "ready")
    BY <1>4, <1>5, <2>1 DEF Ready, Q
  <2> QED BY <1>5, <2>2 DEF Library!Enq
<1>12. Trailing'
  BY <1>2, <1>4 DEF Trailing, Adds
<1>13. Library!Unlock(t, m)
  BY <1>2, <1>6, <1>7, <1>9, <1>10, <1>11
     DEF Library!Unlock, Library!Runs, Library!joinVars, PlaceOf, ArgumentOf,
         JoinOf, ZombieOf, ContextsOf, MutexesOf
<1> QED
  BY <1>2, <1>12, <1>13 DEF Library!UnlockCall, Library!Drops

LEMMA TickRefines ==
  ASSUME QuietWindows, Sound, Trailing, process = "runs", NEW t \in Threads, Tick(t)
  PROVE  Library!Interrupt(t) /\ Trailing'
<1> DEFINE Q == ItemsOf(links, "ready")
<1>1. /\ SafeWindows /\ Main \in Threads /\ NULL \notin Threads
      /\ "ready" \in Queues /\ \A x \in Mutexes : x \in Queues /\ x # "ready"
  BY PreemptAssumption DEF PreemptAssumption, Queues, QuietWindows, SafeWindows
<1>2. PICK h \in Threads :
        /\ cpu = t /\ ~handler[t] /\ at[t] \in Windows
        /\ ~Midway /\ ~Popped
        /\ handler' = [handler EXCEPT ![t] = TRUE]
        /\ masked' = [masked EXCEPT ![t] = TRUE]
        /\ UNCHANGED <<at, call, item, last, nxt, target, join, zombie, freed, taken, holds>>
        /\ at[h] \in {"new", "swapped", "lock", "user", "walk", "test", "free"}
        /\ cpu' = h /\ process' = process
        /\ h = Head(Append(Queued(links)["ready"], t))
        /\ Queued(links') = [Queued(links) EXCEPT !["ready"] = Tail(Append(@, t))]
  BY <1>1, TickLists
<1>3. ~Midway' /\ ~Popped' /\ ~masked[t]
  BY <1>2 DEF Midway, Popped, Tick
<1>4. at[t] \in {"user", "walk", "test", "free"}
  BY <1>2 DEF QuietWindows
<1>5. /\ Q \in Seq(Threads) /\ h = Head(Append(Q, t))
      /\ ItemsOf(links', "ready") = Tail(Append(Q, t))
      /\ \A m \in Mutexes : ItemsOf(links', m) = ItemsOf(links, m)
  <2>1. \A q \in Queues : Queued(links')[q] = ItemsOf(links', q)
    BY DEF Queued
  <2> QED BY <1>1, <1>2, <2>1, ReadyIs
<1>6. PlaceOf[t] = "user" /\ PlaceOf' = [PlaceOf EXCEPT ![t] = "tick"]
  BY <1>2, <1>4 DEF PlaceOf, Place, Sound, Typed
<1>7. ArgumentOf' = ArgumentOf
  <2>1. \A u \in Threads : Argument(u)' = Argument(u)
    BY <1>2, <1>4 DEF Argument, Place, Sound, Typed
  <2> QED BY <2>1 DEF ArgumentOf
<1>8. ZombieOf' = ZombieOf /\ JoinOf' = JoinOf /\ ContextsOf' = ContextsOf /\ MutexesOf' = MutexesOf
  BY <1>2, <1>3, <1>5 DEF ZombieOf, JoinOf, ContextsOf, ContextOf, MutexesOf
<1>9. Library!Suspend(t, "tick", Library!Enq(Ready, t), "segv")
  <2> HIDE DEF Q
  <2>1. Append(Q, t) # <<>> /\ Tail(Append(Q, t)) \in Seq(Threads)
    BY <1>5
  <2>2. <<>> \o Q = Q /\ <<>> \o Tail(Append(Q, t)) = Tail(Append(Q, t))
    BY <1>5, <2>1
  <2>3. Ready = Q /\ Ready' = Tail(Append(Q, t))
    BY <1>2, <1>3, <1>5, <2>2 DEF Ready, Q
  <2>4. Library!Enq(Ready, t) = Append(Q, t)
    BY <1>1, <2>3 DEF Library!Enq
  <2> QED
    BY <1>2, <1>5, <1>6, <2>1, <2>3, <2>4
       DEF Library!Suspend, Library!First, Library!Rest, PlaceOf
<1>10. Trailing'
  BY <1>2, <1>3 DEF Trailing, Adds
<1>11. Library!Tick(t)
  BY <1>2, <1>3, <1>6, <1>7, <1>8, <1>9
     DEF Library!Tick, Library!Runs, Library!joinVars, PlaceOf, ArgumentOf,
         JoinOf, ZombieOf, ContextsOf, MutexesOf
<1> QED
  BY <1>2, <1>10, <1>11 DEF Library!Interrupt

LEMMA LockTakenRefines ==
  ASSUME QuietWindows, Sound, Trailing, process = "runs", NEW t \in Threads, NEW m \in Mutexes,
         LockTaken(t, m)
  PROVE  Library!LockCall(t) /\ Trailing'
<1> DEFINE Q == ItemsOf(links, "ready")
           s == ItemsOf(links, m)
<1>1. /\ SafeWindows /\ Main \in Threads /\ NULL \notin Threads
      /\ "ready" \in Queues /\ \A x \in Mutexes : x \in Queues /\ x # "ready"
  BY PreemptAssumption DEF PreemptAssumption, Queues, QuietWindows, SafeWindows
<1>2. PICK h \in Threads :
        /\ cpu = t /\ ~handler[t] /\ at[t] = "user" /\ holds[t] = {} /\ taken[m]
        /\ call[t] = "none"
        /\ ~Midway /\ ~Popped
        /\ at' = [at EXCEPT ![t] = "lock"]
        /\ target' = [target EXCEPT ![t] = m]
        /\ masked' = [masked EXCEPT ![t] = TRUE]
        /\ UNCHANGED <<call, handler, item, last, nxt, join, zombie, freed, taken, holds>>
        /\ h # t
        /\ at'[h] = at[h] /\ at[h] \in {"new", "swapped", "lock", "user", "walk", "test", "free"}
        /\ cpu' = h /\ process' = process
        /\ Queued(links)["ready"] # <<>> /\ h = Head(Queued(links)["ready"])
        /\ Queued(links') = [Queued(links) EXCEPT ![m] = Append(@, t), !["ready"] = Tail(@)]
  BY <1>1, LockTakenLists
<1>3. ~Midway' /\ ~Popped'
  BY <1>2 DEF Midway, Popped
<1>4. /\ Q \in Seq(Threads) /\ Q # <<>> /\ h = Head(Q) /\ s \in Seq(Threads)
      /\ ItemsOf(links', "ready") = Tail(Q)
      /\ ItemsOf(links', m) = Append(s, t)
      /\ \A x \in Mutexes \ {m} : ItemsOf(links', x) = ItemsOf(links, x)
  <2>1. \A q \in Queues : Queued(links')[q] = ItemsOf(links', q)
    BY DEF Queued
  <2>2. /\ Queued(links) \in [Queues -> Seq(Threads)]
        /\ Q = Queued(links)["ready"] /\ s = Queued(links)[m]
        /\ \A x \in Mutexes : ItemsOf(links, x) = Queued(links)[x]
    BY ReadyIs
  <2> HIDE DEF Q, s
  <2> QED BY <1>1, <1>2, <2>1, <2>2
<1>5. PlaceOf[t] = "user" /\ PlaceOf' = [PlaceOf EXCEPT ![t] = "lock"]
  <2>1. \A u \in Threads : /\ Place(u) = IF u = t THEN "user" ELSE Place(u)
                           /\ Place(u)' = IF u = t THEN "lock" ELSE Place(u)
    BY <1>2 DEF Place, Sound, Typed
  <2> QED BY <2>1 DEF PlaceOf
<1>6. ArgumentOf' = [ArgumentOf EXCEPT ![t].mutex = m]
  <2>1. Argument(t) = Library!Nothing /\ Argument(t)' = [Library!Nothing EXCEPT !.mutex = m]
    BY <1>2 DEF Argument, Place, Library!Nothing, Sound, Typed
  <2>2. \A u \in Threads \ {t} : Argument(u)' = Argument(u)
    BY <1>2 DEF Argument, Place, Sound, Typed
  <2> QED BY <2>1, <2>2 DEF ArgumentOf
<1>7. call[Main] = "join" => t # Main
  BY <1>2
<1>8. ZombieOf' = ZombieOf /\ JoinOf' = JoinOf /\ ContextsOf' = ContextsOf
  BY <1>1, <1>2, <1>3 DEF ZombieOf, JoinOf, ContextsOf, ContextOf, Sound, Typed
<1> HIDE DEF Q, s
<1>9. MutexesOf[m].taken /\ MutexesOf' = [MutexesOf EXCEPT ![m].susp = Library!Enq(@, t)]
  <2>1. MutexesOf[m] = [taken |-> taken[m], susp |-> s]
    BY DEF MutexesOf, s
  <2>2. Library!Enq(s, t) = Append(s, t)
    BY <1>1 DEF Library!Enq
  <2>3. \A x \in Mutexes : /\ taken'[x] = taken[x]
                           /\ x # m => ItemsOf(links', x) = ItemsOf(links, x)
    BY <1>2, <1>4
  <2>4. MutexesOf'[m] = [taken |-> taken[m], susp |-> Library!Enq(s, t)]
    BY <1>4, <2>2, <2>3 DEF MutexesOf
  <2>5. \A x \in Mutexes : x # m => MutexesOf'[x] = MutexesOf[x]
    BY <2>3 DEF MutexesOf
  <2>6. MutexesOf' = [MutexesOf EXCEPT ![m] = [taken |-> taken[m], susp |-> Library!Enq(s, t)]]
    BY <2>4, <2>5 DEF MutexesOf
  <2>7. MutexesOf[m].taken = taken[m] /\ MutexesOf[m].susp = s
    BY <2>1
  <2>8. [MutexesOf[m] EXCEPT !.susp = Library!Enq(s, t)]
          = [taken |-> taken[m], susp |-> Library!Enq(s, t)]
    BY <2>1
  <2>9. [MutexesOf EXCEPT ![m].susp = Library!Enq(@, t)]
          = [MutexesOf EXCEPT ![m] = [MutexesOf[m] EXCEPT !.susp = Library!Enq(s, t)]]
    BY <2>7
  <2>10. taken[m]
    BY <1>2
  <2> QED BY <2>6, <2>7, <2>8, <2>9, <2>10
<1>10. Library!Suspend(t, "lock", Ready, "assert")
  <2>1. Tail(Q) \in Seq(Threads)
    BY <1>4
  <2>2. <<>> \o Q = Q /\ <<>> \o Tail(Q) = Tail(Q)
    BY <1>4, <2>1
  <2>3. Ready = Q /\ Ready' = Tail(Q)
    BY <1>2, <1>3, <1>4, <2>2 DEF Ready, Q
  <2> QED
    BY <1>2, <1>4, <1>5, <2>3
       DEF Library!Suspend, Library!First, Library!Rest, PlaceOf
<1>11. Trailing'
  BY <1>1, <1>2, <1>3, <1>7 DEF Trailing, Adds, Sound, Typed
<1>12. Library!LockTaken(t, m)
  BY <1>2, <1>5, <1>6, <1>8, <1>9, <1>10
     DEF Library!LockTaken, Library!Runs, Library!joinVars, PlaceOf, ArgumentOf,
         JoinOf, ZombieOf, ContextsOf, MutexesOf
<1> QED
  BY <1>2, <1>11, <1>12 DEF Library!LockCall

LEMMA SwitchRefines ==
  ASSUME QuietWindows, Sound, Trailing, process = "runs", NEW t \in Threads, Switch(t)
  PROVE  (Library!ThreadCall(t) \/ Library!JoinCall) /\ Trailing'
<1> DEFINE n == nxt[t]
           Q == ItemsOf(links, "ready")
           place == IF call[t] = "end" THEN "done" ELSE call[t]
           adds == IF call[t] = "join" THEN NULL ELSE item[t]
<1>1. /\ SafeWindows /\ Main \in Threads /\ NULL \notin Threads
  BY PreemptAssumption DEF PreemptAssumption, QuietWindows, SafeWindows
<1>2. /\ cpu = t /\ ~handler[t] /\ at[t] = "switch"
      /\ at' = [at EXCEPT ![t] = IF call[t] = "end" THEN "done" ELSE "swapped"]
      /\ UNCHANGED <<links, call, handler, masked, target, join, zombie, freed, taken, holds>>
  BY DEF Switch, Executes, GoesTo, fields, mutexes
<1>3. /\ Popped /\ Midway /\ n \in Threads
      /\ cpu' = n /\ process' = process /\ ~Midway' /\ ~Popped'
  <2>1. Popped /\ Midway /\ n \in Threads
    BY <1>2 DEF Popped, Midway, Sound, Processor, Typed
  <2>2. Sound' /\ process' = "runs"
    BY <1>1, SwitchStep
  <2>3. cpu' = n
    BY <1>2, <2>1, <2>2, <1>1 DEF Switch, SwitchTo, Dies
  <2>4. n # t \/ at'[n] = "swapped"
    BY <1>2, <2>2, <2>3 DEF Sound, Processor, Typed
  <2>5. n # t => at'[n] = at[n] /\ at[n] \in {"none", "new", "swapped", "lock", "done", "user", "walk", "test", "free"}
    BY <1>1, <1>2, <2>1, AwayFrom DEF Sound, Typed
  <2> HIDE DEF n
  <2> QED BY <2>1, <2>2, <2>3, <2>4, <2>5 DEF Midway, Popped
<1>4. call[t] \in {"yield", "join", "end"}
  BY <1>2 DEF Sound, Errands, Errand, Typed
<1>5. PlaceOf[t] = "user" /\ PlaceOf' = [PlaceOf EXCEPT ![t] = place]
  <2>1. \A x \in Threads : /\ Place(x) = IF x = t THEN "user" ELSE Place(x)
                           /\ Place(x)' = IF x = t THEN place ELSE Place(x)
    BY <1>2, <1>4 DEF Place, Sound, Typed
  <2> QED BY <2>1 DEF PlaceOf
<1>6. /\ call[t] # "join" => ArgumentOf' = ArgumentOf
      /\ call[t] = "join" => ArgumentOf' = [ArgumentOf EXCEPT ![t].thread = target[t]]
  <2>1. Argument(t) = Library!Nothing
    BY <1>2 DEF Argument, Place, Library!Nothing
  <2>2. Argument(t)' = IF call[t] = "join" THEN [Library!Nothing EXCEPT !.thread = target[t]]
                                           ELSE Library!Nothing
    BY <1>2, <1>4 DEF Argument, Place, Library!Nothing, Sound, Typed
  <2>3. \A x \in Threads \ {t} : Argument(x)' = Argument(x)
    BY <1>2 DEF Argument, Place, Sound, Typed
  <2> QED BY <2>1, <2>2, <2>3 DEF ArgumentOf
<1>7. ContextsOf' = ContextsOf /\ MutexesOf' = MutexesOf
  BY <1>1, <1>2 DEF ContextsOf, ContextOf, MutexesOf, Sound, Typed
<1>8. Q \in Seq(Threads) /\ Full = <<n>> \o Q /\ Ready' = Q
  <2>1. Q \in Seq(Threads)
    BY ReadyIs DEF Queues
  <2> HIDE DEF Q
  <2>2. <<>> \o Q = Q
    BY <2>1
  <2> QED BY <1>2, <1>3, <2>1, <2>2 DEF Full, Ready, Q
<1> HIDE DEF n, Q
<1>9. Full \in Seq(Threads) /\ Full # <<>> /\ Head(Full) = n /\ Tail(Full) = Q
  BY <1>3, <1>8, FrontTaken
<1>10. Library!Enq(Ready, adds) = Full
  <2>1. Adds <=> adds # NULL
    BY <1>1, <1>2, <1>3 DEF Adds
  <2>2. CASE adds = NULL
    BY <2>1, <2>2, ReadyIs DEF Library!Enq
  <2>3. CASE adds # NULL
    <3>1. adds = Full[Len(Full)] /\ Ready = SubSeq(Full, 1, Len(Full) - 1)
      BY <1>2, <2>1, <2>3, ReadyIs DEF Trailing
    <3> QED BY <1>9, <2>3, <3>1, LastTaken DEF Library!Enq
  <2> QED BY <2>2, <2>3
<1>11. Library!Suspend(t, place, Library!Enq(Ready, adds), "segv")
  <2> HIDE DEF place, adds
  <2> QED
    BY <1>3, <1>5, <1>8, <1>9, <1>10
       DEF Library!Suspend, Library!First, Library!Rest, PlaceOf
<1>12. Trailing'
  BY <1>2, <1>3 DEF Trailing, Adds
<1>13. CASE call[t] = "yield"
  <2>1. adds = t
    BY <1>2, <1>13 DEF Sound, Processor
  <2>2. ZombieOf' = ZombieOf /\ JoinOf' = JoinOf
    BY <1>2, <1>3, <1>13 DEF ZombieOf, JoinOf, Sound, Joins, Typed
  <2>3. Library!Suspend(t, "yield", Library!Enq(Ready, t), "segv")
    BY <1>11, <1>13, <2>1
  <2>4. Library!Yield(t)
    BY <1>2, <1>5, <1>6, <1>7, <1>13, <2>2, <2>3
       DEF Library!Yield, Library!Runs, Library!joinVars, PlaceOf, ArgumentOf,
           JoinOf, ZombieOf, ContextsOf, MutexesOf
  <2> QED BY <1>2, <1>12, <2>4 DEF Library!ThreadCall
<1>14. CASE call[t] = "end"
  <2>1. adds = JoinOf[t]
    BY <1>2, <1>14 DEF JoinOf, Sound, Processor
  <2>2. ZombieOf' = [ZombieOf EXCEPT ![t] = TRUE] /\ JoinOf' = JoinOf
    <3>1. zombie[t] = TRUE /\ at'[t] = "done"
      BY <1>2, <1>14 DEF Sound, Joins, Typed
    <3>2. \A x \in Threads \ {t} : at'[x] = at[x]
      BY <1>2 DEF Sound, Typed
    <3>3. JoinOf' = JoinOf
      BY <1>2, <1>3, <1>14 DEF JoinOf
    <3> QED BY <1>2, <3>1, <3>2, <3>3 DEF ZombieOf
  <2>3. Library!Suspend(t, "done", Library!Enq(Ready, JoinOf[t]), "segv")
    BY <1>11, <1>14, <2>1
  <2>4. t # Main /\ holds[t] = {}
    BY <1>14 DEF Sound, Errands, Errand
  <2>5. Library!Exit(t)
    BY <1>2, <1>5, <1>6, <1>7, <1>14, <2>2, <2>3, <2>4
       DEF Library!Exit, Library!Runs, PlaceOf, ArgumentOf,
           JoinOf, ZombieOf, ContextsOf, MutexesOf
  <2> QED BY <1>2, <1>12, <2>4, <2>5 DEF Library!ThreadCall
<1>15. CASE call[t] = "join"
  <2>1. PICK u \in Threads \ {Main} : u = target[Main]
    BY <1>15 DEF Sound, Errands, Errand
  <2>2. /\ t = Main /\ holds[Main] = {}
        /\ ~freed[u] /\ at[u] # "none" /\ ~Over(u) /\ join[u] = Main
    BY <1>2, <1>15, <2>1 DEF Sound, Errands, Errand, Joins, Trailing
  <2>3. ContextsOf[u] = "live" /\ ~ZombieOf[u]
    BY <1>2, <2>2 DEF ContextsOf, ContextOf, ZombieOf, Over
  <2>4. ZombieOf' = ZombieOf /\ JoinOf' = [JoinOf EXCEPT ![u] = Main]
    <3>1. at'[t] = "swapped" /\ \A x \in Threads \ {t} : at'[x] = at[x]
      BY <1>2, <1>15 DEF Sound, Typed
    <3>2. JoinOf = [x \in Threads |-> IF x = u THEN NULL ELSE join[x]]
      BY <1>2, <1>3, <1>15, <2>1, <2>2 DEF JoinOf
    <3>3. JoinOf' = [x \in Threads |-> join[x]]
      BY <1>2, <1>3 DEF JoinOf
    <3>4. ZombieOf' = ZombieOf
      BY <1>2, <3>1 DEF ZombieOf
    <3> QED BY <2>1, <2>2, <3>2, <3>3, <3>4
  <2>5. Library!Suspend(t, "join", Ready, "segv")
    BY <1>11, <1>15 DEF Library!Enq
  <2>6. Library!JoinWaits(Main, u)
    BY <1>2, <1>5, <1>6, <1>7, <1>15, <2>1, <2>2, <2>3, <2>4, <2>5
       DEF Library!JoinWaits, Library!Runs, PlaceOf, ArgumentOf,
           JoinOf, ZombieOf, ContextsOf, MutexesOf
  <2> QED BY <1>2, <1>12, <2>2, <2>3, <2>6 DEF Library!JoinCall, ContextsOf
<1> QED
  BY <1>4, <1>13, <1>14, <1>15

-----------------------------------------------------------------------------
LEMMA RefinesInit == Init => Library!Init /\ Trailing
<1> SUFFICES ASSUME Init PROVE Library!Init /\ Trailing
  OBVIOUS
<1>1. /\ Main \in Threads /\ cpu = Main /\ process = "runs"
      /\ links = [head |-> [q \in Queues |-> NULL], next |-> [t \in Threads |-> NULL]]
      /\ at = [t \in Threads |-> IF t = Main THEN "user" ELSE "none"]
      /\ call = [t \in Threads |-> "none"]
      /\ handler = [t \in Threads |-> FALSE]
      /\ masked = [t \in Threads |-> FALSE]
      /\ target = [t \in Threads |-> NULL]
      /\ join = [t \in Threads |-> NULL]
      /\ zombie = [t \in Threads |-> FALSE]
      /\ freed = [t \in Threads |-> FALSE]
      /\ taken = [m \in Mutexes |-> FALSE]
      /\ holds = [t \in Threads |-> {}]
  BY PreemptAssumption DEF PreemptAssumption, Init
<1>2. ~Midway /\ ~Popped
  BY <1>1 DEF Midway, Popped
<1>3. "ready" \in Queues /\ \A m \in Mutexes : m \in Queues
  BY DEF Queues
<1>4. ItemsOf(links, "ready") = <<>> /\ \A m \in Mutexes : ItemsOf(links, m) = <<>>
  <2>1. Queued(links) = [q \in Queues |-> <<>>]
    BY <1>1, EmptyLists
  <2>2. \A q \in Queues : ItemsOf(links, q) = Queued(links)[q]
    BY DEF Queued
  <2> QED BY <1>3, <2>1, <2>2
<1>5. Ready = <<>>
  BY <1>2, <1>4 DEF Ready
<1>6. /\ PlaceOf = [t \in Threads |-> IF t = Main THEN "user" ELSE "none"]
      /\ ArgumentOf = [t \in Threads |-> Library!Nothing]
  <2>1. \A t \in Threads : Place(t) = IF t = Main THEN "user" ELSE "none"
    BY <1>1 DEF Place
  <2>2. \A t \in Threads : Argument(t) = Library!Nothing
    BY <1>1, <2>1 DEF Argument, Library!Nothing
  <2> QED BY <2>1, <2>2 DEF PlaceOf, ArgumentOf
<1>7. /\ JoinOf = [t \in Threads |-> NULL]
      /\ ZombieOf = [t \in Threads |-> FALSE]
      /\ ContextsOf = [t \in Threads |-> IF t = Main THEN "live" ELSE "none"]
      /\ MutexesOf = [m \in Mutexes |-> [taken |-> FALSE, susp |-> <<>>]]
  BY <1>1, <1>2, <1>4 DEF JoinOf, ZombieOf, ContextsOf, ContextOf, MutexesOf
<1>8. Library!Init
  BY <1>1, <1>5, <1>6, <1>7
     DEF Library!Init, Library!GreenInit, PlaceOf, ArgumentOf, JoinOf, ZombieOf,
         ContextsOf, MutexesOf
<1>9. Trailing
  BY <1>1, <1>2 DEF Trailing, Adds
<1> QED
  BY <1>8, <1>9

\* A step is a step of GreenClient, or one that it does not see.
LEMMA StepRefines ==
  ASSUME QuietWindows, Sound, Trailing, process = "runs", Next
  PROVE  [Library!Next]_(Library!vars) /\ (~MainReturns => Trailing')
<1>1. CASE \E u \in Threads : Join(u)
  BY <1>1, JoinQuiet, SameView
<1>2. CASE MainReturns
  BY <1>2, MainReturnsRefines DEF Library!Next
<1>3. ASSUME NEW t \in Threads, Call(t)
      PROVE  [Library!Next]_(Library!vars) /\ Trailing'
  BY <1>3, CreateRefines, YieldQuiet, ExitQuiet, LockFreeRefines, LockTakenRefines,
     UnlockRefines, SameView
     DEF Call, Library!Next
<1>4. ASSUME NEW t \in Threads, Continue(t)
      PROVE  [Library!Next]_(Library!vars) /\ Trailing'
  BY <1>4, StartRefines, TestRefines, NoteQuiet, WalkQuiet, StoreQuiet, BecomesZombieQuiet,
     PopQuiet, TakeQuiet, CutQuiet, RunQuiet, SwitchRefines, SwapReturnsRefines, FreeQuiet,
     LockReturnsRefines, SameView
     DEF Continue, Library!Next
<1>5. ASSUME NEW t \in Threads, Tick(t) \/ TickReturns(t)
      PROVE  [Library!Next]_(Library!vars) /\ Trailing'
  BY <1>5, TickRefines, TickReturnsRefines DEF Library!Next
<1> QED
  BY <1>1, <1>2, <1>3, <1>4, <1>5 DEF Next

LEMMA NothingRefines ==
  ASSUME UNCHANGED vars
  PROVE  UNCHANGED Library!vars /\ (Trailing => Trailing') /\ process' = process
<1>1. UNCHANGED <<cpu, links, at, call, handler, masked, item, nxt, target, join, zombie,
                  freed, taken, holds, process>>
  BY DEF vars, locals, fields, mutexes
<1>2. /\ Midway' = Midway /\ Popped' = Popped
      /\ Full' = Full /\ Adds' = Adds
  BY <1>1 DEF Midway, Popped, Full, Adds
<1>3. UNCHANGED <<Ready, PlaceOf, ArgumentOf, JoinOf, ZombieOf, ContextsOf, MutexesOf>>
  <2>1. Ready' = Ready
    BY <1>1, <1>2 DEF Ready
  <2>2. PlaceOf' = PlaceOf /\ ArgumentOf' = ArgumentOf
    BY <1>1 DEF PlaceOf, ArgumentOf, Argument, Place
  <2>3. JoinOf' = JoinOf /\ ZombieOf' = ZombieOf /\ ContextsOf' = ContextsOf
    BY <1>1, <1>2 DEF JoinOf, ZombieOf, ContextsOf, ContextOf
  <2>4. MutexesOf' = MutexesOf
    BY <1>1 DEF MutexesOf
  <2> QED BY <2>1, <2>2, <2>3, <2>4
<1>4. UNCHANGED Library!vars
  BY <1>1, <1>3, SameView DEF view
<1>5. Trailing => Trailing'
  BY <1>1, <1>2 DEF Trailing
<1> QED
  BY <1>1, <1>4, <1>5

\* As long as the timer fires in none of the windows in which a call has done
\* part of what it does, the functions of green.c are the single steps that
\* GreenClient takes them for, whatever interrupts them.
THEOREM PreemptImplements ==
  ASSUME QuietWindows
  PROVE  Spec => ImplementsGreen
<1> DEFINE Inv == PreemptInv /\ (process = "runs" => Trailing)
<1>1. SafeWindows
  BY DEF QuietWindows, SafeWindows
<1>2. Init => Library!Init /\ (process = "runs" => Trailing)
  BY RefinesInit
<1>3. PreemptInv /\ (process = "runs" => Trailing) /\ [Next]_vars
        => /\ [Library!Next]_(Library!vars)
           /\ (process = "runs" => Trailing)'
  <2> SUFFICES ASSUME PreemptInv, process = "runs" => Trailing, [Next]_vars
               PROVE  [Library!Next]_(Library!vars) /\ (process = "runs" => Trailing)'
    OBVIOUS
  <2>1. CASE Next
    <3>1. process = "runs" /\ Sound /\ Trailing
      BY <2>1, OnlyRuns DEF PreemptInv
    <3>2. MainReturns => process' = "exit"
      BY DEF MainReturns, Dies
    <3> QED BY <2>1, <3>1, <3>2, StepRefines
  <2>2. CASE UNCHANGED vars
    BY <2>2, NothingRefines
  <2> QED BY <2>1, <2>2
<1> QED
  BY <1>1, <1>2, <1>3, PreemptSound, PTL DEF Spec, ImplementsGreen, Library!Spec
=============================================================================
