------------------------------- MODULE Walks -------------------------------
(***************************************************************************)
(* Walks along a chain: what a function defined by recursion on Nat is,    *)
(* and what a walk that remembers the nodes it has met comes to.  The      *)
(* walks of find(), sanity() and traverse() over the blocks are such.      *)
(***************************************************************************)
EXTENDS Integers, Sequences, FiniteSets, FunctionTheorems, FiniteSetTheorems,
        WellFoundedInduction, TLAPS

-----------------------------------------------------------------------------
(* Induction, on a set of numbers.                                         *)

\* A set of naturals that is not empty has a least element.
LEMMA LeastElement ==
  ASSUME NEW T, T \subseteq Nat, T # {}
  PROVE  \E x \in T : \A y \in T : x <= y
<1> DEFINE R == {ss \in Nat \X Nat : ss[1] < ss[2]}
<1>1. OpToRel(<, Nat) = R
  BY DEF OpToRel
<1>2. IsWellFoundedOn(R, Nat)
  BY <1>1, NatLessThanWellFounded
<1>3. PICK x \in T : \A y \in T : ~ (<<y, x>> \in R)
  <2> HIDE DEF R
  <2> QED BY <1>2, WFMin
<1>4. \A y \in T : <<y, x>> \in R <=> y < x
  OBVIOUS
<1> HIDE DEF R
<1>5. \A y \in T : ~ (y < x)
  BY <1>3, <1>4
<1> QED
  BY <1>5

\* A set with 0 and with the successor of each of its numbers has all of them.
LEMMA Induction ==
  ASSUME NEW S, 0 \in S, \A n \in Nat : n \in S => n + 1 \in S
  PROVE  Nat \subseteq S
<1> SUFFICES ASSUME NEW z \in Nat, z \notin S PROVE FALSE
  OBVIOUS
<1> DEFINE T == Nat \ S
<1>1. PICK x \in T : \A y \in T : x <= y
  <2>1. T \subseteq Nat /\ T # {} OBVIOUS
  <2> HIDE DEF T
  <2> QED BY <2>1, LeastElement
<1>2. x # 0 /\ x - 1 \in Nat /\ x - 1 \notin T
  BY <1>1
<1> QED
  BY <1>1, <1>2

-----------------------------------------------------------------------------
(* Iterating a function: f[0] = start and f[n] = step[f[n - 1]].           *)

Iterates(S, start, step, f) ==
  /\ f \in [Nat -> S]
  /\ f[0] = start
  /\ \A n \in Nat : f[n + 1] = step[f[n]]

\* The first values, up to n.
Begun(S, start, step, n) ==
  {h \in [0 .. n -> S] :
     h[0] = start /\ \A i \in 1 .. n : h[i] = step[h[i - 1]]}

LEMMA BegunExists ==
  ASSUME NEW S, NEW start \in S, NEW step \in [S -> S], NEW n \in Nat
  PROVE  Begun(S, start, step, n) # {}
<1> DEFINE N == {k \in Nat : Begun(S, start, step, k) # {}}
<1>1. 0 \in N
  <2> DEFINE h == [i \in 0 .. 0 |-> start]
  <2>1. h \in Begun(S, start, step, 0)
    BY DEF Begun
  <2> QED BY <2>1
<1>2. ASSUME NEW k \in Nat, k \in N PROVE k + 1 \in N
  <2>1. PICK h : h \in Begun(S, start, step, k)
    BY <1>2
  <2> DEFINE g == [i \in 0 .. k + 1 |-> IF i = k + 1 THEN step[h[k]] ELSE h[i]]
  <2>2. h \in [0 .. k -> S] /\ h[0] = start /\ k \in 0 .. k
    BY <2>1 DEF Begun
  <2>3. g \in [0 .. k + 1 -> S]
    <3>1. step[h[k]] \in S BY <2>2
    <3>2. \A i \in 0 .. k + 1 : i # k + 1 => i \in 0 .. k OBVIOUS
    <3> QED BY <2>2, <3>1, <3>2
  <2>4. \A i \in 1 .. k + 1 : g[i] = step[g[i - 1]]
    <3> SUFFICES ASSUME NEW i \in 1 .. k + 1 PROVE g[i] = step[g[i - 1]]
      OBVIOUS
    <3>1. i \in 0 .. k + 1 /\ i - 1 \in 0 .. k + 1 /\ i - 1 # k + 1 OBVIOUS
    <3>2. CASE i = k + 1 BY <3>1, <3>2
    <3>3. CASE i # k + 1
      <4>1. i \in 1 .. k BY <3>3
      <4> QED BY <2>1, <3>1, <4>1 DEF Begun
    <3> QED BY <3>2, <3>3
  <2>5. g[0] = start
    <3>1. 0 \in 0 .. k + 1 /\ 0 # k + 1 OBVIOUS
    <3> QED BY <2>2, <3>1
  <2> HIDE DEF g
  <2>6. g \in Begun(S, start, step, k + 1)
    BY <2>3, <2>4, <2>5 DEF Begun
  <2> QED BY <2>6
<1> HIDE DEF N
<1>3. Nat \subseteq N
  BY <1>1, <1>2, Induction
<1> QED
  BY <1>3 DEF N

LEMMA BegunAgree ==
  ASSUME NEW S, NEW start, NEW step, NEW n \in Nat, NEW m \in Nat,
         NEW g \in Begun(S, start, step, n),
         NEW h \in Begun(S, start, step, m)
  PROVE  \A i \in Nat : i <= n /\ i <= m => g[i] = h[i]
<1> DEFINE N == {i \in Nat : i <= n /\ i <= m => g[i] = h[i]}
<1>1. 0 \in N
  BY DEF Begun
<1>2. ASSUME NEW k \in Nat, k \in N PROVE k + 1 \in N
  <2> SUFFICES ASSUME k + 1 <= n, k + 1 <= m PROVE g[k + 1] = h[k + 1]
    OBVIOUS
  <2>1. g[k] = h[k] BY <1>2
  <2>2. k + 1 \in 1 .. n /\ k + 1 \in 1 .. m /\ (k + 1) - 1 = k OBVIOUS
  <2>3. g[k + 1] = step[g[k]] BY <2>2 DEF Begun
  <2>4. h[k + 1] = step[h[k]] BY <2>2 DEF Begun
  <2> QED BY <2>1, <2>3, <2>4
<1> HIDE DEF N
<1>3. Nat \subseteq N
  BY <1>1, <1>2, Induction
<1> QED
  BY <1>3 DEF N

LEMMA IteratesExists ==
  ASSUME NEW S, NEW start \in S, NEW step \in [S -> S]
  PROVE  \E f : Iterates(S, start, step, f)
<1> DEFINE H(n) == CHOOSE h : h \in Begun(S, start, step, n)
           f == [n \in Nat |-> H(n)[n]]
<1>1. ASSUME NEW n \in Nat PROVE H(n) \in Begun(S, start, step, n)
  BY BegunExists
<1> HIDE DEF H
<1>2. f \in [Nat -> S]
  <2> SUFFICES ASSUME NEW n \in Nat PROVE H(n)[n] \in S
    OBVIOUS
  <2>1. H(n) \in [0 .. n -> S] BY <1>1 DEF Begun
  <2> QED BY <2>1
<1>3. f[0] = start
  BY <1>1 DEF Begun
<1>4. ASSUME NEW n \in Nat PROVE f[n + 1] = step[f[n]]
  <2>1. H(n) \in Begun(S, start, step, n) /\ H(n + 1) \in Begun(S, start, step, n + 1)
    BY <1>1
  <2>2. H(n)[n] = H(n + 1)[n]
    <3>1. \A i \in Nat : i <= n /\ i <= n + 1 => H(n)[i] = H(n + 1)[i]
      BY <2>1, BegunAgree
    <3> QED BY <3>1
  <2>3. n + 1 \in 1 .. n + 1 /\ (n + 1) - 1 = n OBVIOUS
  <2>4. H(n + 1)[n + 1] = step[H(n + 1)[n]]
    BY <2>1, <2>3 DEF Begun
  <2> QED BY <2>2, <2>4
<1> HIDE DEF f
<1> QED
  BY <1>2, <1>3, <1>4 DEF Iterates

-----------------------------------------------------------------------------
(***************************************************************************)
(* A chain of nodes E: succ leads from start, node by node, to stop, and R *)
(* is the order in which it meets them.                                    *)
(***************************************************************************)
Chain(E, start, stop, succ, R) ==
  /\ start \in E /\ stop \in E
  /\ succ \in [E \ {stop} -> E]
  /\ \A a \in E : <<a, a>> \notin R /\ <<stop, a>> \notin R
  /\ \A a, b, c \in E : <<a, b>> \in R /\ <<b, c>> \in R => <<a, c>> \in R
  /\ \A a \in E : a # start => <<start, a>> \in R
  /\ \A a \in E \ {stop} : <<a, succ[a]>> \in R
  /\ \A a \in E \ {stop}, b \in E :
       <<a, b>> \in R /\ b # succ[a] => <<succ[a], b>> \in R

\* A walk that has come some way: it has left out nothing that lies before.
Walk(E, start, stop, succ, R, s) ==
  /\ s \in Seq(E)
  /\ s # <<>>
  /\ s[1] = start
  /\ \A i \in 1 .. Len(s) - 1 : s[i] # stop /\ s[i + 1] = succ[s[i]]
  /\ \A i, j \in 1 .. Len(s) : i < j => <<s[i], s[j]>> \in R
  /\ \A b \in E : (\E i \in 1 .. Len(s) : s[i] = b) \/ <<s[Len(s)], b>> \in R

Ended(stop, s) == s[Len(s)] = stop

Onward(stop, succ, s) ==
  IF s[Len(s)] = stop THEN s ELSE Append(s, succ[s[Len(s)]])

\* A walk begins, and goes on to be one.
LEMMA WalkBegins ==
  ASSUME NEW E, NEW start, NEW stop, NEW succ, NEW R,
         Chain(E, start, stop, succ, R)
  PROVE  Walk(E, start, stop, succ, R, <<start>>)
<1>1. start \in E /\ \A b \in E : b # start => <<start, b>> \in R
  BY DEF Chain
<1> DEFINE s == <<start>>
<1>2. s \in Seq(E) /\ s # <<>> /\ Len(s) = 1 /\ s[1] = start
  BY <1>1
<1>3. 1 \in 1 .. Len(s) /\ \A i \in 1 .. Len(s) : i = 1
  BY <1>2
<1> HIDE DEF s
<1>4. \A i, j \in 1 .. Len(s) : ~ (i < j)
  BY <1>3
<1>5. 1 .. Len(s) - 1 = {}
  BY <1>2
<1>6. \A b \in E : (\E i \in 1 .. Len(s) : s[i] = b) \/ <<s[Len(s)], b>> \in R
  BY <1>1, <1>2, <1>3
<1>7. Walk(E, start, stop, succ, R, s)
  BY <1>2, <1>4, <1>5, <1>6 DEF Walk
<1> QED
  BY <1>7 DEF s

LEMMA WalkGoesOn ==
  ASSUME NEW E, NEW start, NEW stop, NEW succ, NEW R, NEW s,
         Chain(E, start, stop, succ, R), Walk(E, start, stop, succ, R, s)
  PROVE  Walk(E, start, stop, succ, R, Onward(stop, succ, s))
<1>1. CASE s[Len(s)] = stop
  BY <1>1 DEF Onward
<1>2. CASE s[Len(s)] # stop
  <2> DEFINE n == Len(s)
             x == s[n]
             y == succ[x]
             t == Append(s, y)
  <2>1. s \in Seq(E) /\ n \in Nat /\ n >= 1 /\ s[1] = start
    BY DEF Walk
  <2>2. x \in E \ {stop} /\ y \in E
    <3>1. x \in E BY <2>1
    <3> QED BY <1>2, <3>1 DEF Chain
  <2>3. t \in Seq(E) /\ Len(t) = n + 1 /\ t[n + 1] = y /\ \A i \in 1 .. n : t[i] = s[i]
    BY <2>1, <2>2
  <2>4. <<x, y>> \in R
    BY <2>2 DEF Chain
  <2>5. \A i \in 1 .. n : s[i] \in E /\ <<s[i], y>> \in R
    <3> SUFFICES ASSUME NEW i \in 1 .. n PROVE s[i] \in E /\ <<s[i], y>> \in R
      OBVIOUS
    <3>1. s[i] \in E BY <2>1
    <3>2. CASE i = n BY <2>4, <3>1, <3>2
    <3>3. CASE i # n
      <4>1. <<s[i], x>> \in R
        <5>1. i \in 1 .. Len(s) /\ n \in 1 .. Len(s) /\ i < n BY <2>1, <3>3
        <5> QED BY <5>1 DEF Walk
      <4> QED BY <2>2, <2>4, <3>1, <4>1 DEF Chain
    <3> QED BY <3>2, <3>3
  <2>6. \A i \in 1 .. n : s[i] # stop
    <3> SUFFICES ASSUME NEW i \in 1 .. n PROVE s[i] # stop
      OBVIOUS
    <3>1. CASE i = n BY <1>2, <3>1
    <3>2. CASE i # n
      <4>1. i \in 1 .. Len(s) - 1 BY <2>1, <3>2
      <4> QED BY <4>1 DEF Walk
    <3> QED BY <3>1, <3>2
  <2>7. \A i \in 1 .. n : t[i + 1] = succ[t[i]]
    <3> SUFFICES ASSUME NEW i \in 1 .. n PROVE t[i + 1] = succ[t[i]]
      OBVIOUS
    <3>1. CASE i = n BY <2>1, <2>3, <3>1
    <3>2. CASE i # n
      <4>1. i \in 1 .. Len(s) - 1 /\ i \in 1 .. n /\ i + 1 \in 1 .. n BY <2>1, <3>2
      <4>2. s[i + 1] = succ[s[i]] BY <4>1 DEF Walk
      <4> QED BY <2>3, <4>1, <4>2
    <3> QED BY <3>1, <3>2
  <2>8. ASSUME NEW b \in E
        PROVE  (\E i \in 1 .. n + 1 : t[i] = b) \/ <<y, b>> \in R
    <3>1. CASE \E i \in 1 .. n : s[i] = b
      <4>1. PICK i \in 1 .. n : s[i] = b BY <3>1
      <4>2. i \in 1 .. n + 1 BY <2>1, <4>1
      <4> QED BY <2>3, <4>1, <4>2
    <3>2. CASE <<x, b>> \in R
      <4>1. b # y => <<y, b>> \in R BY <2>2, <3>2 DEF Chain
      <4>2. n + 1 \in 1 .. n + 1 BY <2>1
      <4> QED BY <2>3, <4>1, <4>2
    <3> QED BY <3>1, <3>2 DEF Walk
  <2>9. \A i, j \in 1 .. n + 1 : i < j => <<t[i], t[j]>> \in R
    <3> SUFFICES ASSUME NEW i \in 1 .. n + 1, NEW j \in 1 .. n + 1, i < j
                 PROVE  <<t[i], t[j]>> \in R
      OBVIOUS
    <3>1. i \in 1 .. n BY <2>1
    <3>2. CASE j = n + 1 BY <2>3, <2>5, <3>1, <3>2
    <3>3. CASE j # n + 1
      <4>1. j \in 1 .. n BY <2>1, <3>3
      <4>2. <<s[i], s[j]>> \in R BY <3>1, <4>1 DEF Walk
      <4> QED BY <2>3, <3>1, <4>1, <4>2
    <3> QED BY <3>2, <3>3
  <2>10. Onward(stop, succ, s) = t
    BY <1>2 DEF Onward
  <2>11. t # <<>> /\ t[1] = start
    BY <2>1, <2>3
  <2>12. Len(t) - 1 = n
    BY <2>1, <2>3
  <2>13. \A i \in 1 .. n : t[i] # stop
    BY <2>3, <2>6
  <2> HIDE DEF t, y, x, n
  <2>14. Walk(E, start, stop, succ, R, t)
    BY <2>3, <2>7, <2>8, <2>9, <2>11, <2>12, <2>13 DEF Walk
  <2> QED BY <2>10, <2>14
<1> QED
  BY <1>1, <1>2

-----------------------------------------------------------------------------
(* Walking on and on.                                                      *)

Walking(E, start, stop, succ, R, f) ==
  /\ f \in [Nat -> Seq(E)]
  /\ f[0] = <<start>>
  /\ \A n \in Nat : /\ f[n + 1] = Onward(stop, succ, f[n])
                    /\ Walk(E, start, stop, succ, R, f[n])

LEMMA WalkingExists ==
  ASSUME NEW E, NEW start, NEW stop, NEW succ, NEW R,
         Chain(E, start, stop, succ, R)
  PROVE  \E f : Walking(E, start, stop, succ, R, f)
<1> DEFINE S == {s \in Seq(E) : Walk(E, start, stop, succ, R, s)}
           step == [s \in S |-> Onward(stop, succ, s)]
<1>1. <<start>> \in S
  BY WalkBegins DEF Walk
<1>2. ASSUME NEW s \in S PROVE Onward(stop, succ, s) \in S
  <2>1. Walk(E, start, stop, succ, R, Onward(stop, succ, s))
    BY WalkGoesOn
  <2>2. Onward(stop, succ, s) \in Seq(E)
    BY <2>1 DEF Walk
  <2> QED BY <2>1, <2>2
<1>3. step \in [S -> S]
  BY <1>2
<1>4. S \subseteq Seq(E) /\ \A s \in S : Walk(E, start, stop, succ, R, s)
  OBVIOUS
<1>5. \A s \in S : step[s] = Onward(stop, succ, s)
  OBVIOUS
<1> HIDE DEF S, step
<1>6. PICK f : Iterates(S, <<start>>, step, f)
  BY <1>1, <1>3, IteratesExists
<1>7. f \in [Nat -> S] /\ f[0] = <<start>> /\ \A n \in Nat : f[n + 1] = step[f[n]]
  BY <1>6 DEF Iterates
<1>8. Walking(E, start, stop, succ, R, f)
  BY <1>4, <1>5, <1>7 DEF Walking
<1> QED
  BY <1>8

(***************************************************************************)
(* As many steps as there are nodes but one are enough: the walk is at     *)
(* stop, and it has met every node once.                                   *)
(***************************************************************************)
LEMMA WalkEnds ==
  ASSUME NEW E, NEW start, NEW stop, NEW succ, NEW R, NEW f, NEW n \in Nat,
         Chain(E, start, stop, succ, R), Walking(E, start, stop, succ, R, f),
         IsFiniteSet(E), Cardinality(E) <= n + 1
  PROVE  Ended(stop, f[n])
<1> SUFFICES ASSUME f[n][Len(f[n])] # stop PROVE FALSE
  BY DEF Ended
<1> DEFINE N == {k \in Nat : f[k][Len(f[k])] = stop \/ Len(f[k]) = k + 1}
<1>1. \A k \in Nat : /\ f[k] \in Seq(E)
                     /\ f[k + 1] = Onward(stop, succ, f[k])
                     /\ Walk(E, start, stop, succ, R, f[k])
  BY DEF Walking
<1>2. 0 \in N
  <2>1. f[0] = <<start>> /\ Len(<<start>>) = 0 + 1
    BY DEF Walking
  <2>2. Len(f[0]) = 0 + 1
    BY <2>1
  <2> QED BY <2>2
<1>3. ASSUME NEW k \in Nat, k \in N PROVE k + 1 \in N
  <2>1. CASE f[k][Len(f[k])] = stop
    <3>1. f[k + 1] = f[k]
      BY <1>1, <2>1 DEF Onward
    <3> QED BY <2>1, <3>1
  <2>2. CASE f[k][Len(f[k])] # stop
    <3>1. f[k + 1] = Append(f[k], succ[f[k][Len(f[k])]])
      BY <1>1, <2>2 DEF Onward
    <3>2. Len(f[k + 1]) = Len(f[k]) + 1
      BY <1>1, <3>1
    <3> QED BY <1>3, <2>2, <3>2
  <2> QED BY <2>1, <2>2
<1> HIDE DEF N
<1>4. Nat \subseteq N
  BY <1>2, <1>3, Induction
<1>5. Len(f[n]) = n + 1
  BY <1>4 DEF N
<1> DEFINE s == f[n]
           T == E \ {stop}
<1>6. s \in Seq(E) /\ Len(s) = n + 1 /\ Walk(E, start, stop, succ, R, s)
  BY <1>1, <1>5
<1>7. \A i \in 1 .. n + 1 : s[i] \in T
  <2> SUFFICES ASSUME NEW i \in 1 .. n + 1 PROVE s[i] \in E /\ s[i] # stop
    OBVIOUS
  <2>1. s[i] \in E BY <1>6
  <2>2. CASE i = n + 1 BY <1>6, <2>1, <2>2
  <2>3. CASE i # n + 1
    <3>1. i \in 1 .. Len(s) - 1 BY <1>6, <2>3
    <3> QED BY <1>6, <2>1, <3>1 DEF Walk
  <2> QED BY <2>2, <2>3
<1> HIDE DEF s
<1>8. s \in Injection(1 .. n + 1, T)
  <2>1. s \in [1 .. n + 1 -> T]
    BY <1>6, <1>7
  <2>2. ASSUME NEW i \in 1 .. n + 1, NEW j \in 1 .. n + 1, i < j PROVE s[i] # s[j]
    <3>1. <<s[i], s[j]>> \in R BY <1>6, <2>2 DEF Walk
    <3>2. s[i] \in E BY <1>7
    <3> QED BY <3>1, <3>2 DEF Chain
  <2>3. \A i, j \in 1 .. n + 1 : s[i] = s[j] => i = j
    <3>1. \A i, j \in 1 .. n + 1 : i < j \/ j < i \/ i = j OBVIOUS
    <3> QED BY <2>2, <3>1
  <2> QED BY <2>1, <2>3 DEF Injection, IsInjective
<1>9. stop \in E /\ IsFiniteSet(T) /\ Cardinality(T) = Cardinality(E) - 1
  BY FS_RemoveElement DEF Chain
<1>10. Cardinality(1 .. n + 1) = n + 1
  <2>1. 1 \in Int /\ n + 1 \in Int /\ ~ (1 > n + 1) OBVIOUS
  <2> QED BY <2>1, FS_Interval
<1>11. Cardinality(1 .. n + 1) <= Cardinality(T)
  <2> HIDE DEF T
  <2> QED BY <1>8, <1>9, FS_Injection
<1>12. Cardinality(E) \in Nat
  BY FS_CardinalityType
<1> HIDE DEF T
<1> QED
  BY <1>9, <1>10, <1>11, <1>12

\* What a walk has met before the node that it is at.
Met(s) == {s[i] : i \in 1 .. Len(s) - 1}

LEMMA WalkMeetsAll ==
  ASSUME NEW E, NEW start, NEW stop, NEW succ, NEW R, NEW s,
         Chain(E, start, stop, succ, R), Walk(E, start, stop, succ, R, s),
         Ended(stop, s)
  PROVE  Met(s) = E \ {stop}
<1>0. s[Len(s)] = stop
  BY DEF Ended
<1>1. s \in Seq(E) /\ Len(s) \in Nat /\ Len(s) >= 1
  BY DEF Walk
<1>2. ASSUME NEW i \in 1 .. Len(s) - 1 PROVE s[i] \in E \ {stop}
  <2>1. i \in 1 .. Len(s) BY <1>1
  <2> QED BY <1>1, <2>1 DEF Walk
<1>3. ASSUME NEW b \in E, b # stop PROVE \E i \in 1 .. Len(s) - 1 : s[i] = b
  <2>1. <<stop, b>> \notin R
    BY DEF Chain
  <2>2. PICK i \in 1 .. Len(s) : s[i] = b
    BY <1>0, <2>1 DEF Walk
  <2>3. i # Len(s) BY <1>0, <1>3, <2>2
  <2>4. i \in 1 .. Len(s) - 1 BY <1>1, <2>3
  <2> QED BY <2>2, <2>4
<1> QED
  BY <1>2, <1>3 DEF Met
=============================================================================
