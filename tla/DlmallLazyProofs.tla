-------------------------- MODULE DlmallLazyProofs --------------------------
(***************************************************************************)
(* The safety properties of the allocators that never merge, for every     *)
(* arena, every header size and every set of requests an int can hold.     *)
(***************************************************************************)
EXTENDS DlmallLazy, DlmallProofs

-----------------------------------------------------------------------------
(* What the two versions of adjust() return.                               *)

LEMMA WantedCovers ==
  ASSUME SmallRequests, request \in Requests
  PROVE  wanted \in Nat \ {0} /\ wanted >= request
<1> DEFINE m == MIN(request)
           rem == m % ALIGN
           up == m + ALIGN - rem
<1>1. INT \in Nat \ {0} /\ ALIGN \in Nat \ {0} /\ ALIGN <= INT
  BY AdjustAssumption, HeapAssumption DEF AdjustAssumption, HeapAssumption
<1>2. request \in Nat \ {0}
  BY RequestAssumption DEF RequestAssumption
<1>3. m \in Nat \ {0} /\ m >= request /\ m <= INT - ALIGN
  BY <1>2, HeapAssumption DEF MIN, HeapAssumption, SmallRequests
<1> HIDE DEF m
<1>4. rem \in Nat /\ rem < ALIGN
  BY <1>1, <1>3
<1>5. ToInt(m) = m /\ Remainder(m, ALIGN) = rem
  BY <1>1, <1>3, ToIntIdentity DEF Remainder
<1> HIDE DEF rem
<1>6. rem # 0 => up \in Nat /\ up < INT /\ up >= m
  BY <1>1, <1>3, <1>4
<1>7. rem # 0 => ToInt(up) = up
  BY <1>6, ToIntIdentity
<1> HIDE DEF up
<1>8. baseAdjust(request) = IF rem = 0 THEN m ELSE up
  BY <1>5, <1>7 DEF baseAdjust, m, rem, up
<1>9. AugustAdjust(request) = IF rem = 0 THEN m ELSE up
  BY <1>5, <1>7 DEF AugustAdjust, m, rem, up
<1> QED
  BY <1>2, <1>3, <1>6, <1>8, <1>9 DEF wanted

-----------------------------------------------------------------------------
(* Rounding, for requests of any size.                                     *)

\* The conversion to int adds or takes away a multiple of 2^32.
LEMMA ToIntMultiple ==
  ASSUME INT % ALIGN = 0, NEW x \in Int, Multiple(x)
  PROVE  ToInt(x) \in Int /\ Multiple(ToInt(x))
<1>1. INT \in Nat \ {0} /\ 2 * INT \in Nat \ {0} /\ ALIGN \in Nat \ {0}
  BY AdjustAssumption, HeapAssumption DEF AdjustAssumption, HeapAssumption
<1> DEFINE y == x + INT
           w == 2 * INT
           q == y \div w
           p == w * q
<1>2. y \in Int /\ w \in Nat \ {0} /\ ToInt(x) = (y % w) - INT
  BY <1>1 DEF ToInt
<1> HIDE DEF y, w
<1>3. q \in Int /\ y % w \in Int /\ y = p + (y % w) /\ p \in Int
  BY <1>2, Division
<1> HIDE DEF q
<1>4. PICK j \in Int : INT = ALIGN * j
  BY <1>1, MultipleIs DEF Multiple
<1>5. p = ALIGN * (2 * j * q) /\ 2 * j * q \in Int
  BY <1>1, <1>3, <1>4 DEF w
<1> HIDE DEF p
<1>6. Multiple(p)
  BY <1>5 DEF Multiple
<1>7. ToInt(x) = x - p
  BY <1>1, <1>2, <1>3 DEF y
<1> QED
  BY <1>3, <1>6, <1>7, MultipleSum

\* So does C's remainder, whatever the sign.
LEMMA RemainderMultiple ==
  ASSUME NEW x \in Int
  PROVE  Remainder(x, ALIGN) \in Int /\ Multiple(x - Remainder(x, ALIGN))
<1>1. ALIGN \in Nat \ {0}
  BY HeapAssumption DEF HeapAssumption
<1>2. CASE x >= 0
  <2>1. /\ x % ALIGN \in Int /\ x \div ALIGN \in Int
        /\ x - (x % ALIGN) = ALIGN * (x \div ALIGN)
    BY <1>1, Division
  <2> QED
    BY <2>1, <1>2 DEF Remainder, Multiple
<1>3. CASE ~(x >= 0)
  <2> DEFINE q == (-x) \div ALIGN
  <2>1. q \in Int /\ (-x) % ALIGN \in Int /\ -x = ALIGN * q + ((-x) % ALIGN)
    BY <1>1, Division
  <2>2. Remainder(x, ALIGN) = -((-x) % ALIGN)
    BY <1>3 DEF Remainder
  <2> HIDE DEF q
  <2>3. x - Remainder(x, ALIGN) = ALIGN * (-q) /\ -q \in Int
    BY <1>1, <2>1, <2>2
  <2> QED
    BY <2>1, <2>2, <2>3 DEF Multiple
<1> QED
  BY <1>2, <1>3

\* What adjust() does with a size once it is in an int.
LEMMA RoundedIsMultiple ==
  ASSUME INT % ALIGN = 0, NEW m \in Int
  PROVE  /\ Remainder(m, ALIGN) = 0 => Multiple(m)
         /\ ToInt(m + ALIGN - Remainder(m, ALIGN)) \in Int
         /\ Multiple(ToInt(m + ALIGN - Remainder(m, ALIGN)))
<1> DEFINE r == Remainder(m, ALIGN)
<1>1. r \in Int /\ Multiple(m - r)
  BY RemainderMultiple
<1>2. ALIGN \in Int /\ Multiple(ALIGN)
  BY HeapAssumption DEF HeapAssumption, Multiple
<1> HIDE DEF r
<1>3. r = 0 => Multiple(m)
  BY <1>1
<1>4. Multiple((m - r) + ALIGN) /\ (m - r) + ALIGN = m + ALIGN - r
  BY <1>1, <1>2, MultipleSum
<1>5. ToInt(m + ALIGN - r) \in Int /\ Multiple(ToInt(m + ALIGN - r))
  BY <1>1, <1>2, <1>4, ToIntMultiple
<1> QED
  BY <1>3, <1>5 DEF r

LEMMA ToIntType ==
  ASSUME NEW x \in Int PROVE ToInt(x) \in Int
BY AdjustAssumption DEF AdjustAssumption, ToInt

LEMMA AnswersAligned ==
  ASSUME INT % ALIGN = 0, Version = "merge", NEW req \in Nat
  PROVE  \A answer \in Answers(req) : answer % ALIGN = 0
<1> DEFINE m == MIN(req)
           n == ToInt(m)
<1>1. m \in Nat /\ ALIGN \in Nat \ {0} /\ n \in Int
  BY HeapAssumption, ToIntType DEF HeapAssumption, MIN
<1>2. AugustAdjust(req) \in Int /\ Multiple(AugustAdjust(req))
  BY <1>1, RoundedIsMultiple DEF AugustAdjust
<1>3. adjust(req) = AugustAdjust(req)
  BY DEF adjust, AugustAdjust
<1>4. baseAdjust(req) \in Int /\ Multiple(baseAdjust(req))
  <2>1. m \in Int /\ Remainder(m, ALIGN) = m % ALIGN
    BY <1>1 DEF Remainder
  <2>2. baseAdjust(req) = IF m % ALIGN = 0 THEN ToInt(m) ELSE ToInt(m + ALIGN - (m % ALIGN))
    BY DEF baseAdjust
  <2> DEFINE rem == m % ALIGN
             up == m + ALIGN - rem
  <2> HIDE DEF m
  <2>3. rem \in Int /\ (rem = 0 => Multiple(m)) /\ Multiple(m - rem)
    BY <2>1, RemainderMultiple, MultipleIs
  <2>4. ALIGN \in Int /\ Multiple(ALIGN)
    BY HeapAssumption DEF HeapAssumption, Multiple
  <2> HIDE DEF rem
  <2>5. up \in Int /\ m - rem \in Int /\ up = (m - rem) + ALIGN
    BY <2>1, <2>3, <2>4
  <2> HIDE DEF up
  <2>6. Multiple(up)
    BY <2>3, <2>4, <2>5, MultipleSum
  <2>7. baseAdjust(req) = IF rem = 0 THEN ToInt(m) ELSE ToInt(up)
    BY <2>2 DEF rem, up
  <2> QED
    BY <2>1, <2>3, <2>5, <2>6, <2>7, ToIntMultiple
<1> QED
  BY <1>2, <1>3, <1>4, MultipleIs DEF Answers

\* For a request that can be rounded up inside an int nothing is cut off.
LEMMA AnswersAre ==
  ASSUME Version = "merge", NEW req \in Nat, MIN(req) <= INT - ALIGN
  PROVE  \A answer \in Answers(req) :
           answer = IF MIN(req) % ALIGN = 0 THEN MIN(req)
                    ELSE MIN(req) + ALIGN - (MIN(req) % ALIGN)
<1> DEFINE m == MIN(req)
           rem == m % ALIGN
           up == m + ALIGN - rem
<1>1. INT \in Nat \ {0} /\ ALIGN \in Nat \ {0} /\ ALIGN <= INT /\ m \in Nat
      /\ m <= INT - ALIGN
  BY AdjustAssumption, HeapAssumption DEF AdjustAssumption, HeapAssumption, MIN
<1> HIDE DEF m
<1>2. rem \in Nat /\ rem < ALIGN /\ Remainder(m, ALIGN) = rem
  BY <1>1 DEF Remainder
<1>3. ToInt(m) = m
  BY <1>1, ToIntIdentity
<1> HIDE DEF rem
<1>4. rem # 0 => up \in Nat /\ up < INT
  BY <1>1, <1>2
<1>5. rem # 0 => ToInt(up) = up
  BY <1>4, ToIntIdentity
<1> HIDE DEF up
<1>6. AugustAdjust(req) = IF rem = 0 THEN m ELSE up
  BY <1>2, <1>3, <1>5 DEF AugustAdjust, m, up
<1>7. adjust(req) = AugustAdjust(req)
  BY DEF adjust, AugustAdjust
<1>8. baseAdjust(req) = IF rem = 0 THEN m ELSE up
  BY <1>2, <1>3, <1>5 DEF baseAdjust, m, rem, up
<1> QED
  BY <1>6, <1>7, <1>8 DEF Answers, m, rem, up

\* Rounding up reaches the least multiple that is not below.
LEMMA RoundedIsLeast ==
  ASSUME NEW req \in Nat, NEW m \in Nat, m = MIN(req), m <= INT - ALIGN
  PROVE  Least(req) = IF m % ALIGN = 0 THEN m ELSE m + ALIGN - (m % ALIGN)
<1> DEFINE rem == m % ALIGN
           q == m \div ALIGN
           k == IF rem = 0 THEN q ELSE q + 1
           d == (INT - 1) \div ALIGN
           v == ALIGN * k
           S == {n \in Multiples : n >= req /\ n >= MINIMUM}
<1>1. INT \in Nat \ {0} /\ ALIGN \in Nat \ {0} /\ MINIMUM \in Nat
  BY AdjustAssumption, HeapAssumption DEF AdjustAssumption, HeapAssumption
<1>2. /\ rem \in 0 .. ALIGN - 1 /\ q \in Int /\ m = ALIGN * q + rem
      /\ d \in Int /\ INT - 1 < ALIGN * d + ALIGN
  <2> DEFINE i == INT - 1
             r == i % ALIGN
  <2>1. i \in Int /\ m \in Int
    BY <1>1
  <2> HIDE DEF i
  <2>2. rem \in 0 .. ALIGN - 1 /\ q \in Int /\ m = ALIGN * q + rem
    BY <1>1, <2>1, Division
  <2>3. i % ALIGN \in 0 .. ALIGN - 1 /\ i \div ALIGN \in Int
        /\ i = ALIGN * (i \div ALIGN) + (i % ALIGN)
    BY <1>1, <2>1, Division
  <2>4. r \in 0 .. ALIGN - 1 /\ d \in Int /\ INT - 1 = ALIGN * d + r
    BY <2>3 DEF i
  <2> HIDE DEF d, r
  <2> QED
    BY <1>1, <2>2, <2>4
<1> HIDE DEF rem, q, d
<1>3. \A n \in Int : n >= req /\ n >= MINIMUM <=> n >= m
  BY <1>1 DEF MIN
<1>4. /\ k \in Int /\ v = (IF rem = 0 THEN m ELSE m + ALIGN - rem)
      /\ v >= m /\ v <= INT - 1
  BY <1>1, <1>2
<1>5. k >= 0
  <2>1. q >= 0
    BY <1>1, <1>2
  <2> QED
    BY <1>2, <2>1
<1>6. ASSUME NEW n \in Int, ALIGN * n >= m PROVE n >= k
  <2>1. CASE rem = 0
    BY <2>1, <1>1, <1>2, <1>6
  <2>2. CASE rem # 0
    <3>1. ALIGN * n > ALIGN * q
      BY <2>2, <1>1, <1>2, <1>6
    <3> QED
      BY <2>2, <3>1, <1>1, <1>2
  <2> QED
    BY <2>1, <2>2
<1> HIDE DEF k
<1>7. k <= d
  <2>1. ALIGN * k < ALIGN * (d + 1)
    BY <1>1, <1>2, <1>4
  <2> QED
    BY <2>1, <1>1, <1>2, <1>4
<1>8. v \in S
  <2>1. v \in Multiples
    BY <1>4, <1>5, <1>7, <1>2 DEF Multiples, d
  <2> QED
    BY <2>1, <1>1, <1>3, <1>4
<1>9. ASSUME NEW y \in S PROVE y \in Int /\ v <= y
  <2>1. PICK n \in Int : y = ALIGN * n
    BY <1>9 DEF Multiples
  <2>2. y \in Int /\ y >= m
    BY <2>1, <1>1, <1>3
  <2>3. n >= k
    BY <2>1, <2>2, <1>6
  <2> QED
    BY <2>1, <2>2, <2>3, <1>1, <1>4
<1> HIDE DEF v
<1>10. Min(S) = v
  <2>1. \A x \in S : (\A y \in S : x <= y) => x = v
    BY <1>4, <1>8, <1>9
  <2> HIDE DEF S
  <2> QED
    BY <2>1, <1>8, <1>9 DEF Min
<1> QED
  BY <1>4, <1>10 DEF Least, rem

-----------------------------------------------------------------------------
(* The operations on a heap.                                               *)

\* Setting a field to the value it has.
LEMMA FreeRecord ==
  ASSUME NEW r \in Header, r.bfree = TRUE
  PROVE  [r EXCEPT !.bfree = TRUE] = r
BY DEF Header

\* For a block that is free the two versions of split() do the same: what
\* base copies from the block is what August writes.
LEMMA SplitsAgree ==
  ASSUME NEW m, MemTyped(m), NEW block \in DOMAIN m, m[block].free = TRUE, NEW n \in Nat
  PROVE  AugustSplit(m, block, n) = Split(m, block, n)
<1> DEFINE s == Split(m, block, n)
           splt == SplitOff(m, block, n)
           rsize == Remaining(m, block, n)
<1>1. s = [a \in DOMAIN s |-> s[a]] /\ splt \in DOMAIN s
  BY DEF Split
<1>2. s[splt] = [bfree |-> TRUE, bsize |-> rsize, free |-> FALSE,
                 size |-> U16(n), next |-> JUNK, prev |-> JUNK]
  BY SplitNew
<1>3. rsize \in 0 .. WORD - 1 /\ U16(n) \in 0 .. WORD - 1
  <2>1. m[block].size \in Int /\ HEAD \in Int /\ WORD \in Nat \ {0}
    BY FieldTypes, HeapAssumption DEF HeapAssumption
  <2>2. \A k \in Int : k % WORD \in 0 .. WORD - 1
    BY <2>1
  <2> QED
    BY <2>1, <2>2 DEF Remaining, U16
<1>4. AugustSplit(m, block, n) = [s EXCEPT ![splt].bfree = TRUE]
  BY DEF AugustSplit
<1> HIDE DEF s, splt, rsize
<1>5. s[splt] \in Header /\ s[splt].bfree = TRUE
  BY <1>2, <1>3 DEF Header, Link
<1>6. [s[splt] EXCEPT !.bfree = TRUE] = s[splt]
  BY <1>5, FreeRecord
<1>7. [s EXCEPT ![splt].bfree = TRUE] = s
  BY <1>1, <1>6
<1> QED
  BY <1>4, <1>7 DEF s

LEMMA SplitTailSound ==
  ASSUME NEW h, Sound(h), NEW block \in FreeBlocks(h.mem),
         NEW n \in Nat \ {0}, h.mem[block].size >= LIMIT(n)
  PROVE  /\ Sound(SplitTail(h, block, n))
         /\ SplitOff(h.mem, block, n) \in Addr \ DOMAIN h.mem
         /\ SplitOff(h.mem, block, n) # Sentinel
         /\ DOMAIN SplitTail(h, block, n).mem =
              DOMAIN h.mem \cup {SplitOff(h.mem, block, n)}
         /\ FreeBlocks(SplitTail(h, block, n).mem) = FreeBlocks(h.mem)
         /\ \A a \in DOMAIN h.mem : a # block =>
              SplitTail(h, block, n).mem[a].size = h.mem[a].size
         /\ SplitTail(h, block, n).mem[SplitOff(h.mem, block, n)].size = n
<1> DEFINE d == Detach(h, block)
           i == Shrink(h, block, n)
           splt == SplitOff(h.mem, block, n)
           x == Mark(i.mem, splt, FALSE)
           g == SplitTail(h, block, n)
           aft == After(h.mem, block)
           F == FreeBlocks(h.mem)
<1>1. HeapTyped(h) /\ MemTyped(h.mem) /\ Layout(h.mem) /\ Flags(h.mem) /\ Linked(h, F)
  BY DEF Sound, HeapTyped
<1>2. Shrunk(h, block, n, i, splt, aft)
  BY ShrinkHeap
<1>3. g = [i EXCEPT !.mem = x]
  <2>1. /\ HeapTyped(d) /\ SameTags(h.mem, d.mem) /\ block \in DOMAIN h.mem
    BY <1>1, DetachListed
  <2>2. MemTyped(d.mem) /\ block \in DOMAIN d.mem /\ d.mem[block].free = TRUE
    BY <1>2, <2>1 DEF HeapTyped, SameTags, Shrunk
  <2>3. AugustSplit(d.mem, block, n) = Split(d.mem, block, n)
    BY <2>2, SplitsAgree
  <2>4. (IF copy = "base" THEN Split(d.mem, block, n) ELSE AugustSplit(d.mem, block, n))
          = Split(d.mem, block, n)
    BY <2>3
  <2>5. [d EXCEPT !.mem = IF copy = "base" THEN Split(@, block, n)
                          ELSE AugustSplit(@, block, n)]
          = [d EXCEPT !.mem = Split(@, block, n)]
    BY <2>4
  <2> QED
    BY <2>5 DEF SplitTail, Shrink
<1> HIDE DEF d, i, splt, aft
<1>4. /\ HeapTyped(i) /\ MemTyped(i.mem) /\ Layout(i.mem) /\ Linked(i, F)
      /\ splt \in Addr \ DOMAIN h.mem /\ splt # Sentinel
      /\ DOMAIN i.mem = DOMAIN h.mem \cup {splt}
      /\ i.mem[splt].size = n /\ i.mem[splt].free = FALSE /\ i.mem[splt].bfree = TRUE
      /\ block \in DOMAIN h.mem \ {Sentinel} /\ h.mem[block].free = TRUE
      /\ aft \in DOMAIN h.mem /\ h.mem[aft].bfree = TRUE
  BY <1>2 DEF Shrunk
<1>5. /\ \A a \in DOMAIN h.mem :
           /\ a # block => i.mem[a].size = h.mem[a].size
           /\ i.mem[a].free = h.mem[a].free /\ i.mem[a].bfree = h.mem[a].bfree
      /\ After(i.mem, block) = splt /\ After(i.mem, splt) = aft
      /\ \A a \in DOMAIN h.mem : a # block => After(i.mem, a) = After(h.mem, a)
  BY <1>2 DEF Shrunk
<1>6. aft # splt /\ aft # 0 /\ aft \in Int
  BY <1>1, <1>4, Neighbours, FieldTypes DEF aft
<1>7. DOMAIN x = DOMAIN i.mem /\ MemTyped(x)
  BY <1>4, MarkTyped
<1>8. ASSUME NEW a \in DOMAIN i.mem
      PROVE  /\ x[a].size = i.mem[a].size /\ x[a].bsize = i.mem[a].bsize
             /\ x[a].next = i.mem[a].next /\ x[a].prev = i.mem[a].prev
             /\ x[a].free = i.mem[a].free
             /\ a = aft => x[a].bfree = FALSE
             /\ a # aft => x[a].bfree = i.mem[a].bfree
  <2> DEFINE f == FALSE
  <2>1. x = Mark(i.mem, splt, f) /\ f \in BOOLEAN
    OBVIOUS
  <2> HIDE DEF f, x
  <2>2. /\ x[a].size = i.mem[a].size /\ x[a].bsize = i.mem[a].bsize
        /\ x[a].next = i.mem[a].next /\ x[a].prev = i.mem[a].prev
        /\ x[a].free = IF a = splt THEN f ELSE i.mem[a].free
        /\ x[a].bfree = IF a = aft THEN f ELSE i.mem[a].bfree
    BY <2>1, <1>4, <1>5, MarkFields
  <2> QED
    BY <2>2, <1>4 DEF f
<1> HIDE DEF x, g
<1>9. ASSUME NEW a \in DOMAIN h.mem
       PROVE  /\ x[a].free = h.mem[a].free
              /\ a # block => x[a].size = h.mem[a].size
  <2>1. a \in DOMAIN i.mem
    BY <1>4
  <2>2. x[a].free = i.mem[a].free /\ x[a].size = i.mem[a].size
    BY <2>1, <1>8
  <2>3. i.mem[a].free = h.mem[a].free
    BY <1>5
  <2>4. a # block => i.mem[a].size = h.mem[a].size
    BY <1>5
  <2> QED
    BY <2>2, <2>3, <2>4
<1>10. g.mem = x /\ g.flist = i.flist /\ HeapTyped(g)
  BY <1>3, <1>4, <1>7, WithMem
<1>11. Layout(x) /\ \A a \in DOMAIN i.mem : After(x, a) = After(i.mem, a)
  <2>1. SameSizes(i.mem, x)
    BY <1>7, <1>8 DEF SameSizes
  <2> QED
    BY <2>1, <1>4, SameSizesLayout
<1>12. FreeBlocks(x) = F
  <2>1. \A a \in DOMAIN h.mem : x[a].free = h.mem[a].free
    BY <1>9
  <2>2. x[splt].free = FALSE /\ DOMAIN x = DOMAIN h.mem \cup {splt}
    BY <1>4, <1>7, <1>8
  <2> QED
    BY <2>1, <2>2 DEF FreeBlocks
<1>13. Flags(x)
  <2>1. ASSUME NEW a \in DOMAIN x \ {Sentinel}
        PROVE  x[After(x, a)].bfree = x[a].free
    <3>1. CASE a = block
      <4>1. After(x, a) = splt
        BY <3>1, <1>4, <1>5, <1>11
      <4>2. splt \in DOMAIN i.mem /\ splt # aft
        BY <1>4, <1>6
      <4>3. x[splt].bfree = TRUE
        BY <4>2, <1>4, <1>8
      <4>4. x[a].free = TRUE
        BY <3>1, <1>4, <1>9
      <4> QED
        BY <4>1, <4>3, <4>4
    <3>2. CASE a = splt
      <4>1. After(x, a) = aft
        BY <3>2, <1>4, <1>5, <1>11
      <4> QED
        BY <3>2, <4>1, <1>4, <1>8
    <3>3. CASE a # block /\ a # splt
      <4>1. a \in DOMAIN h.mem \ {Sentinel}
        BY <3>3, <1>4, <1>7
      <4>2. After(x, a) = After(h.mem, a)
        BY <4>1, <3>3, <1>4, <1>5, <1>11
      <4>3. After(h.mem, a) \in DOMAIN h.mem /\ After(h.mem, a) # aft
        BY <4>1, <3>3, <1>1, <1>4, Neighbours DEF aft
      <4>4. h.mem[After(h.mem, a)].bfree = h.mem[a].free
        BY <4>1, <1>1 DEF Flags
      <4>5. x[After(h.mem, a)].bfree = h.mem[After(h.mem, a)].bfree
        <5>1. After(h.mem, a) \in DOMAIN i.mem
          BY <4>3, <1>4
        <5>2. x[After(h.mem, a)].bfree = i.mem[After(h.mem, a)].bfree
          BY <4>3, <5>1, <1>8
        <5>3. i.mem[After(h.mem, a)].bfree = h.mem[After(h.mem, a)].bfree
          BY <4>3, <1>5
        <5> QED
          BY <5>2, <5>3
      <4>6. x[a].free = h.mem[a].free
        BY <4>1, <1>9
      <4> QED
        BY <4>2, <4>4, <4>5, <4>6
    <3> QED
      BY <3>1, <3>2, <3>3
  <2>2. ~x[0].bfree /\ ~x[Sentinel].free
    <3>1. 0 \in DOMAIN h.mem /\ Sentinel \in DOMAIN h.mem
      BY <1>1 DEF Layout
    <3>2. ~h.mem[0].bfree /\ ~h.mem[Sentinel].free
      BY <1>1 DEF Flags
    <3> QED
      BY <3>1, <3>2, <1>4, <1>5, <1>6, <1>8
  <2> QED
    BY <2>1, <2>2 DEF Flags
<1>14. Linked(g, F)
  <2>1. SameLinks(i.mem, g.mem, F)
    BY <1>4, <1>8, <1>10 DEF SameLinks, FreeBlocks
  <2>2. F \subseteq DOMAIN g.mem
    BY <1>4, <1>7, <1>10 DEF FreeBlocks
  <2> QED
    BY <2>1, <2>2, <1>4, <1>10, LinkedFrame
<1>15. Sound(g)
  BY <1>10, <1>11, <1>12, <1>13, <1>14 DEF Sound
<1>16. /\ \A a \in DOMAIN h.mem : a # block => x[a].size = h.mem[a].size
       /\ x[splt].size = n
  <2>1. x[splt].size = n
    BY <1>4, <1>8
  <2> QED
    BY <2>1, <1>9
<1> QED
  BY <1>4, <1>7, <1>10, <1>12, <1>15, <1>16 DEF g, splt

\* dfree() of these allocators: the block is listed, and nothing else changes.
LEMMA PutBackSound ==
  ASSUME NEW h, Sound(h),
         NEW block \in DOMAIN h.mem \ (FreeBlocks(h.mem) \cup {Sentinel})
  PROVE  /\ Sound(PutBack(h, block))
         /\ DOMAIN PutBack(h, block).mem = DOMAIN h.mem
         /\ DOMAIN PutBack(h, block).mem \ FreeBlocks(PutBack(h, block).mem)
              = (DOMAIN h.mem \ FreeBlocks(h.mem)) \ {block}
         /\ \A a \in DOMAIN h.mem : PutBack(h, block).mem[a].size = h.mem[a].size
<1> DEFINE g == PutBack(h, block)
<1>1. g = FreeAgain(h, block)
  BY DEF PutBack, FreeAgain
<1>2. /\ HeapTyped(h) /\ Layout(h.mem) /\ Linked(h, FreeBlocks(h.mem) \ {block})
      /\ ~h.mem[0].bfree /\ ~h.mem[Sentinel].free
      /\ \A a \in DOMAIN h.mem \ {Sentinel, block} :
           h.mem[After(h.mem, a)].bfree = h.mem[a].free
  <2>1. FreeBlocks(h.mem) \ {block} = FreeBlocks(h.mem)
    OBVIOUS
  <2> QED
    BY <2>1 DEF Sound, Flags
<1>3. FreedAgain(h, block, g)
  BY <1>1, <1>2, FreeAgainSound
<1> HIDE DEF g
<1>4. Taken(h.mem, block) = (DOMAIN h.mem \ FreeBlocks(h.mem)) \ {block}
  BY DEF Taken, FreeBlocks
<1> QED
  BY <1>3, <1>4 DEF FreedAgain, g

-----------------------------------------------------------------------------
(***************************************************************************)
(* The inductive invariant: that of Dlmall, without the promise of merge() *)
(* and with the block that these copies of find() look for.                *)
(***************************************************************************)
LeftToSee ==
  pc = "find" =>
    \E R \in SUBSET (FreeBlocks(mem) \X FreeBlocks(mem)) :
      /\ ListOrder(heap, FreeBlocks(mem), R)
      /\ \A a \in FreeBlocks(mem) : Meets(a) =>
           traverse # NULL /\ (a = traverse \/ <<traverse, a>> \in R)

LazyInv ==
  /\ TypeOK
  /\ BoundaryTags
  /\ FreeListLinked
  /\ TakenBlocksAreOwned
  /\ CursorOnList
  /\ LeftToSee
  /\ ~Mapped => DOMAIN owned = {}

LEMMA HeapOfLazyInv ==
  ASSUME LazyInv
  PROVE  /\ HeapTyped(heap) /\ Linked(heap, FreeBlocks(heap.mem))
         /\ Mapped => Sound(heap)
         /\ ~Mapped => FreeBlocks(heap.mem) = {} /\ DOMAIN heap.mem = {} /\ DOMAIN owned = {}
BY DEF LazyInv, TypeOK, BoundaryTags, FreeListLinked, CursorOnList, Sound, mem, FreeBlocks

LEMMA LazyInvOfHeap ==
  ASSUME Sound(heap)', Mapped', TypeOK', TakenBlocksAreOwned', CursorOnList', LeftToSee'
  PROVE  LazyInv'
BY DEF LazyInv, BoundaryTags, FreeListLinked, Sound, mem

LEMMA LazyInitInvariant == LazyInit => LazyInv
<1> SUFFICES ASSUME LazyInit PROVE LazyInv
  OBVIOUS
<1>1. IInv /\ pc = "idle"
  BY InitInvariant DEF LazyInit, Init
<1> QED
  BY <1>1 DEF IInv, LazyInv, LeftToSee

-----------------------------------------------------------------------------
(* The steps.                                                              *)

LEMMA SameLazyHeap ==
  ASSUME LazyInv, UNCHANGED <<heap, arena, owned>>, TypeOK', CursorOnList', LeftToSee'
  PROVE  LazyInv'
<1>1. /\ BoundaryTags' = BoundaryTags /\ FreeListLinked' = FreeListLinked
      /\ Mapped' = Mapped /\ TakenBlocksAreOwned' = TakenBlocksAreOwned
  BY DEF BoundaryTags, FreeListLinked, TakenBlocksAreOwned, Mapped, Held, mem
<1> QED
  BY <1>1 DEF LazyInv

LEMMA StartsStep ==
  ASSUME LazyInv, Starts PROVE LazyInv'
<1>1. HeapTyped(heap) /\ Linked(heap, {}) /\ DOMAIN owned = {}
  BY HeapOfLazyInv DEF Starts, Initialise, Mapped
<1>2. heap' = Insert([heap EXCEPT !.mem = NewArena], 0)
  BY DEF Starts, Initialise
<1>3. /\ Sound(heap') /\ FreeBlocks(heap'.mem) = {0}
      /\ DOMAIN heap'.mem = {0, Sentinel}
  BY <1>1, <1>2, NewArenaHeap, SoundIs
<1>4. Mapped' /\ arena' \in {NULL, 0}
  BY HeapAssumption DEF HeapAssumption, Starts, Initialise, Mapped
<1>5. UNCHANGED <<pc, traverse, request, owned>> /\ pc = "idle"
  BY DEF Starts, Initialise
<1>6. TypeOK'
  BY <1>3, <1>4, <1>5 DEF LazyInv, TypeOK, Sound
<1>7. TakenBlocksAreOwned'
  BY <1>1, <1>3, <1>5 DEF TakenBlocksAreOwned, Held, mem
<1>8. CursorOnList'
  BY <1>4, <1>5 DEF LazyInv, CursorOnList
<1>9. LeftToSee'
  BY <1>5 DEF LeftToSee
<1> QED
  BY <1>3, <1>4, <1>6, <1>7, <1>8, <1>9, LazyInvOfHeap

LEMMA AsksStep ==
  ASSUME LazyInv, NEW r \in Requests, Asks(r) PROVE LazyInv'
<1>1. /\ UNCHANGED <<heap, arena, owned>> /\ pc' = "find" /\ request' = r
      /\ traverse' = heap.flist
  BY DEF Asks, DallocEnter
<1>2. HeapTyped(heap) /\ Linked(heap, FreeBlocks(heap.mem))
  BY HeapOfLazyInv
<1>3. TypeOK'
  BY <1>1, <1>2 DEF LazyInv, TypeOK, HeapTyped
<1>4. CursorOnList'
  BY <1>1, <1>2 DEF LazyInv, CursorOnList, Linked, DoublyLinked, mem, Mapped
<1>5. LeftToSee'
  <2>1. PICK R \in SUBSET (FreeBlocks(heap.mem) \X FreeBlocks(heap.mem)) :
               ListOrder(heap, FreeBlocks(heap.mem), R)
    BY <1>2 DEF Linked
  <2>2. \A a \in FreeBlocks(heap.mem) :
          heap.flist # NULL /\ (a = heap.flist \/ <<heap.flist, a>> \in R)
    BY <2>1 DEF ListOrder
  <2> QED
    BY <1>1, <2>1, <2>2 DEF LeftToSee, mem
<1> QED
  BY <1>1, <1>3, <1>4, <1>5, SameLazyHeap

LEMMA LooksOnStep ==
  ASSUME LazyInv, LooksOn PROVE LazyInv'
<1>1. /\ UNCHANGED <<heap, arena, pc, request, owned, copy>> /\ pc = "find"
      /\ traverse # NULL /\ ~Meets(traverse)
      /\ traverse' = heap.mem[traverse].next
  BY DEF LooksOn, mem
<1>2. /\ HeapTyped(heap) /\ MemTyped(heap.mem) /\ Linked(heap, FreeBlocks(heap.mem))
      /\ traverse \in FreeBlocks(heap.mem)
  BY <1>1, HeapOfLazyInv DEF LazyInv, CursorOnList, mem, HeapTyped
<1>3. traverse' \in FreeBlocks(heap.mem) \cup {NULL}
  BY <1>1, <1>2 DEF Linked, DoublyLinked
<1>4. TypeOK'
  BY <1>1, <1>2, <1>3 DEF LazyInv, TypeOK, FreeBlocks, MemTyped
<1>5. CursorOnList'
  BY <1>1, <1>3 DEF LazyInv, CursorOnList, mem, Mapped
<1>6. LeftToSee'
  <2>1. PICK R \in SUBSET (FreeBlocks(heap.mem) \X FreeBlocks(heap.mem)) :
          /\ ListOrder(heap, FreeBlocks(heap.mem), R)
          /\ \A a \in FreeBlocks(heap.mem) : Meets(a) =>
               traverse # NULL /\ (a = traverse \/ <<traverse, a>> \in R)
    BY <1>1 DEF LazyInv, LeftToSee, mem
  <2>2. ASSUME NEW a \in FreeBlocks(heap.mem), Meets(a)
        PROVE  traverse' # NULL /\ (a = traverse' \/ <<traverse', a>> \in R)
    <3>1. <<traverse, a>> \in R
      BY <1>1, <2>1, <2>2
    <3> QED
      BY <1>1, <1>2, <2>1, <3>1 DEF ListOrder
  <2>3. \A a : Meets(a)' <=> Meets(a)
    BY <1>1 DEF Meets, wanted, mem
  <2> QED
    BY <1>1, <2>1, <2>2, <2>3 DEF LeftToSee, mem
<1> QED
  BY <1>1, <1>4, <1>5, <1>6, SameLazyHeap

LEMMA FindsNoneStep ==
  ASSUME LazyInv, FindsNone PROVE LazyInv'
<1>1. /\ UNCHANGED <<heap, arena, traverse, owned>> /\ pc' = "idle"
      /\ traverse = NULL /\ request' = 0
  BY DEF FindsNone, FindNothing
<1>2. TypeOK'
  BY <1>1 DEF LazyInv, TypeOK
<1>3. CursorOnList'
  BY <1>1 DEF LazyInv, CursorOnList, mem, Mapped
<1>4. LeftToSee'
  BY <1>1 DEF LeftToSee
<1> QED
  BY <1>1, <1>2, <1>3, <1>4, SameLazyHeap

\* FallsOff and BenchEnds change how the process stands, and so does a step
\* that changes nothing.
LEMMA NothingMoves ==
  ASSUME LazyInv, UNCHANGED <<vars, copy>> PROVE LazyInv'
<1>1. UNCHANGED <<heap, arena, pc, traverse, request, owned, copy>>
  BY DEF vars
<1>2. TypeOK' = TypeOK /\ CursorOnList' = CursorOnList
  BY <1>1 DEF TypeOK, CursorOnList, mem, Mapped
<1>3. LeftToSee' = LeftToSee
  BY <1>1 DEF LeftToSee, Meets, wanted, mem
<1> QED
  BY <1>1, <1>2, <1>3, SameLazyHeap DEF LazyInv

\* What find() relies on when it has found a block.
LEMMA LazyFound ==
  ASSUME SmallRequests, LazyInv, pc = "find", traverse # NULL
  PROVE  /\ Mapped /\ Sound(heap) /\ HeapTyped(heap) /\ TypeOK /\ TakenBlocksAreOwned
         /\ traverse \in FreeBlocks(heap.mem) /\ traverse \in DOMAIN heap.mem
         /\ traverse \in Addr /\ heap.mem[traverse].size \in Nat
         /\ request \in Requests /\ wanted \in Nat \ {0} /\ wanted >= request
<1>1. traverse \in FreeBlocks(heap.mem) /\ request \in Requests /\ TypeOK
      /\ TakenBlocksAreOwned
  BY DEF LazyInv, CursorOnList, mem
<1>2. Mapped /\ Sound(heap)
  BY <1>1, HeapOfLazyInv
<1>3. HeapTyped(heap) /\ MemTyped(heap.mem) /\ traverse \in DOMAIN heap.mem
      /\ traverse \in Addr
  BY <1>1 DEF TypeOK, HeapTyped, FreeBlocks, MemTyped
<1>4. heap.mem[traverse].size \in Nat
  BY <1>3, FieldTypes
<1>5. wanted \in Nat \ {0} /\ wanted >= request
  BY <1>1, WantedCovers
<1> QED
  BY <1>1, <1>2, <1>3, <1>4, <1>5

(***************************************************************************)
(* What the two ways to hand out a block have in common: block is the one  *)
(* the client is given.  It was free, or it did not exist.                 *)
(***************************************************************************)
HandsOut(block) ==
  /\ Sound(heap') /\ Return(block)
  /\ block \in Addr \ {Sentinel}
  /\ block \notin DOMAIN heap.mem \ FreeBlocks(heap.mem)
  /\ DOMAIN heap'.mem \ FreeBlocks(heap'.mem)
       = (DOMAIN heap.mem \ FreeBlocks(heap.mem)) \cup {block}
  /\ \A a \in DOMAIN heap.mem \ FreeBlocks(heap.mem) :
       heap'.mem[a].size = heap.mem[a].size
  /\ heap'.mem[block].size >= request

LEMMA TakesHandsOut ==
  ASSUME SmallRequests, LazyInv, TakesTail \/ TakesWhole
  PROVE  \E block : HandsOut(block)
<1> DEFINE w == wanted
<1>1. /\ Mapped /\ Sound(heap) /\ HeapTyped(heap) /\ TypeOK
      /\ traverse \in FreeBlocks(heap.mem) /\ traverse \in DOMAIN heap.mem
      /\ traverse \in Addr /\ heap.mem[traverse].size \in Nat
      /\ request \in Requests /\ w \in Nat \ {0} /\ w >= request
      /\ heap.mem[traverse].size >= w
  BY LazyFound DEF TakesTail, TakesWhole, Meets, mem
<1> HIDE DEF w
<1>2. request \in Nat
  BY <1>1, RequestAssumption DEF RequestAssumption
<1>3. CASE TakesTail
  <2> DEFINE splt == SplitOff(heap.mem, traverse, w)
  <2>1. /\ heap.mem[traverse].size >= LIMIT(w) /\ heap' = SplitTail(heap, traverse, w)
        /\ Return(splt)
    BY <1>3 DEF TakesTail, w, mem
  <2>2. /\ Sound(heap')
        /\ splt \in Addr \ DOMAIN heap.mem /\ splt # Sentinel
        /\ DOMAIN heap'.mem = DOMAIN heap.mem \cup {splt}
        /\ FreeBlocks(heap'.mem) = FreeBlocks(heap.mem)
        /\ \A a \in DOMAIN heap.mem : a # traverse => heap'.mem[a].size = heap.mem[a].size
        /\ heap'.mem[splt].size = w
    BY <1>1, <2>1, SplitTailSound
  <2> HIDE DEF splt
  <2>3. DOMAIN heap'.mem \ FreeBlocks(heap'.mem)
          = (DOMAIN heap.mem \ FreeBlocks(heap.mem)) \cup {splt}
    BY <2>2 DEF FreeBlocks
  <2>4. HandsOut(splt)
    BY <1>1, <2>1, <2>2, <2>3 DEF HandsOut
  <2> QED
    BY <2>4
<1>4. CASE TakesWhole
  <2>1. heap' = TakeWhole(heap, traverse) /\ Return(traverse)
    BY <1>4 DEF TakesWhole
  <2>2. /\ Sound(heap')
        /\ DOMAIN heap'.mem = DOMAIN heap.mem
        /\ FreeBlocks(heap'.mem) = FreeBlocks(heap.mem) \ {traverse}
        /\ \A a \in DOMAIN heap.mem : heap'.mem[a].size = heap.mem[a].size
        /\ traverse # Sentinel
    BY <1>1, <2>1, TakeWholeSound
  <2>3. DOMAIN heap'.mem \ FreeBlocks(heap'.mem)
          = (DOMAIN heap.mem \ FreeBlocks(heap.mem)) \cup {traverse}
    BY <1>1, <2>2
  <2>4. heap'.mem[traverse].size >= request
    BY <1>1, <1>2, <2>2
  <2>5. HandsOut(traverse)
    BY <1>1, <2>1, <2>2, <2>3, <2>4 DEF HandsOut
  <2> QED
    BY <2>5
<1> QED
  BY <1>3, <1>4

LEMMA HandsOutStep ==
  ASSUME LazyInv, Mapped, request \in Requests, NEW block, HandsOut(block)
  PROVE  LazyInv'
<1>1. /\ Sound(heap') /\ Return(block) /\ block \in Addr /\ block # Sentinel
      /\ DOMAIN heap'.mem \ FreeBlocks(heap'.mem)
           = (DOMAIN heap.mem \ FreeBlocks(heap.mem)) \cup {block}
      /\ \A a \in DOMAIN heap.mem \ FreeBlocks(heap.mem) :
           heap'.mem[a].size = heap.mem[a].size
      /\ heap'.mem[block].size >= request
  BY DEF HandsOut
<1>2. TypeOK /\ TakenBlocksAreOwned /\ HeapTyped(heap')
  BY <1>1 DEF LazyInv, Sound
<1>3. /\ TypeOK' /\ TakenBlocksAreOwned' /\ Mapped'
      /\ pc' = "idle" /\ traverse' = NULL /\ request' = 0
  BY <1>1, <1>2, ReturnTaken
<1>4. CursorOnList' /\ LeftToSee'
  BY <1>3 DEF CursorOnList, LeftToSee
<1> QED
  BY <1>1, <1>3, <1>4, LazyInvOfHeap

LEMMA GivesBackHeap ==
  ASSUME LazyInv, NEW memory \in DOMAIN owned, GivesBack(memory)
  PROVE  /\ Sound(heap')
         /\ DOMAIN heap'.mem = DOMAIN heap.mem
         /\ DOMAIN heap'.mem \ FreeBlocks(heap'.mem)
              = (DOMAIN heap.mem \ FreeBlocks(heap.mem)) \ {Magic(memory)}
         /\ \A a \in DOMAIN heap.mem : heap'.mem[a].size = heap.mem[a].size
<1> DEFINE block == Magic(memory)
<1>1. Mapped /\ Sound(heap) /\ TypeOK /\ TakenBlocksAreOwned
  BY HeapOfLazyInv DEF LazyInv
<1>2. block \in DOMAIN heap.mem \ (FreeBlocks(heap.mem) \cup {Sentinel})
  BY <1>1, ReleaseHeld
<1>3. heap' = PutBack(heap, block)
  BY DEF GivesBack
<1> HIDE DEF block
<1>4. /\ Sound(heap')
      /\ DOMAIN heap'.mem = DOMAIN heap.mem
      /\ DOMAIN heap'.mem \ FreeBlocks(heap'.mem)
           = (DOMAIN heap.mem \ FreeBlocks(heap.mem)) \ {block}
      /\ \A a \in DOMAIN heap.mem : heap'.mem[a].size = heap.mem[a].size
  BY <1>1, <1>2, <1>3, PutBackSound
<1> QED
  BY <1>4 DEF block

LEMMA GivesBackStep ==
  ASSUME LazyInv, NEW memory \in DOMAIN owned, GivesBack(memory) PROVE LazyInv'
<1> DEFINE T == (DOMAIN heap.mem \ FreeBlocks(heap.mem)) \ {Magic(memory)}
<1>1. /\ pc = "idle" /\ UNCHANGED <<arena, pc, traverse, request>>
      /\ owned' = [p \in DOMAIN owned \ {memory} |-> owned[p]]
  BY DEF GivesBack
<1>2. Mapped /\ TypeOK /\ TakenBlocksAreOwned
  BY HeapOfLazyInv DEF LazyInv
<1>3. /\ Sound(heap') /\ HeapTyped(heap')
      /\ DOMAIN heap'.mem \ FreeBlocks(heap'.mem) = T
      /\ \A a \in T : heap'.mem[a].size = heap.mem[a].size
  BY GivesBackHeap DEF Sound
<1>4. TypeOK' /\ TakenBlocksAreOwned' /\ Mapped'
  <2>1. T = (DOMAIN heap.mem \ FreeBlocks(heap.mem)) \ {Magic(memory)}
    OBVIOUS
  <2> HIDE DEF T
  <2> QED
    BY <2>1, <1>1, <1>2, <1>3, ReleaseTaken
<1>5. CursorOnList'
  BY <1>1, <1>4 DEF LazyInv, CursorOnList
<1>6. LeftToSee'
  BY <1>1 DEF LeftToSee
<1> QED
  BY <1>3, <1>4, <1>5, <1>6, LazyInvOfHeap

LEMMA LazyNextInvariant ==
  ASSUME SmallRequests, LazyInv, [LazyNext]_lazyVars PROVE LazyInv'
<1>1. CASE Starts
  BY <1>1, StartsStep
<1>2. CASE \E r \in Requests : Asks(r)
  BY <1>2, AsksStep
<1>3. CASE LooksOn
  BY <1>3, LooksOnStep
<1>4. CASE TakesTail \/ TakesWhole
  <2>1. Mapped /\ request \in Requests
    BY <1>4, LazyFound DEF TakesTail, TakesWhole
  <2> QED
    BY <1>4, <2>1, TakesHandsOut, HandsOutStep
<1>5. CASE FindsNone
  BY <1>5, FindsNoneStep
<1>6. CASE FallsOff \/ BenchEnds \/ UNCHANGED lazyVars
  <2>1. UNCHANGED <<vars, copy>>
    BY <1>6 DEF FallsOff, BenchEnds, lazyVars
  <2> QED
    BY <2>1, NothingMoves
<1>7. CASE \E memory \in DOMAIN owned : GivesBack(memory)
  BY <1>7, GivesBackStep
<1> QED
  BY <1>1, <1>2, <1>3, <1>4, <1>5, <1>6, <1>7 DEF LazyNext, Searches

-----------------------------------------------------------------------------
(* The theorems.                                                           *)

\* Without merge() the heap is as sound as with it, but for free neighbours.
THEOREM LazyInvariance == SmallRequests => (LazySpec => []LazyInv)
<1> SUFFICES ASSUME SmallRequests PROVE LazySpec => []LazyInv
  OBVIOUS
<1>1. LazyInit => LazyInv
  BY LazyInitInvariant
<1>2. LazyInv /\ [LazyNext]_lazyVars => LazyInv'
  BY LazyNextInvariant
<1> QED
  BY <1>1, <1>2, PTL DEF LazySpec

\* The boundary tags agree although find() marks the block after the one it
\* hands out, which may be free, and although free blocks lie side by side.
THEOREM LazyTagsAgree == SmallRequests => (LazySpec => []BoundaryTags)
<1> SUFFICES ASSUME SmallRequests PROVE LazySpec => []BoundaryTags
  OBVIOUS
<1>1. LazyInv => BoundaryTags
  BY DEF LazyInv
<1> QED
  BY <1>1, LazyInvariance, PTL

\* The free list is one acyclic, doubly linked list of the free blocks.
THEOREM LazyListIntact == SmallRequests => (LazySpec => []FreeListLinked)
<1> SUFFICES ASSUME SmallRequests PROVE LazySpec => []FreeListLinked
  OBVIOUS
<1>1. LazyInv => FreeListLinked
  BY DEF LazyInv
<1> QED
  BY <1>1, LazyInvariance, PTL

\* prev is the inverse of next, and the walk that find() makes along next
\* meets every free block and nothing else, however many there are
\* (ListHoldsFree).
THEOREM LazyWalkIsComplete == SmallRequests => (LazySpec => []ListHoldsFree)
<1> SUFFICES ASSUME SmallRequests PROVE LazySpec => []ListHoldsFree
  OBVIOUS
<1>1. LazyInv => ListHoldsFree
  <2> DEFINE F == FreeBlocks(mem)
  <2> SUFFICES ASSUME LazyInv PROVE ListHoldsFree
    OBVIOUS
  <2>1. HeapTyped(heap) /\ Linked(heap, F)
    BY HeapOfLazyInv DEF mem
  <2>2. PICK R \in SUBSET (F \X F) : ListOrder(heap, F, R)
    BY <2>1 DEF Linked
  <2>3. DoublyLinked(heap, F)
    BY <2>1 DEF Linked
  <2>4. Chain(F \cup {NULL}, heap.flist, NULL, NextOf(heap), ToNull(heap, R))
    BY <2>1, <2>2, <2>3, ListIsChain DEF mem
  <2>5. {FreeList[i] : i \in 1 .. Len(FreeList)} = F
    BY <2>1, <2>3, <2>4, FreeListWalk
  <2> QED
    BY <2>3, <2>5 DEF ListHoldsFree
<1> QED
  BY <1>1, LazyInvariance, PTL

\* No block is lost, handed out twice, or smaller than dalloc() was asked for.
THEOREM LazyNothingLost == SmallRequests => (LazySpec => []TakenBlocksAreOwned)
<1> SUFFICES ASSUME SmallRequests PROVE LazySpec => []TakenBlocksAreOwned
  OBVIOUS
<1>1. LazyInv => TakenBlocksAreOwned
  BY DEF LazyInv
<1> QED
  BY <1>1, LazyInvariance, PTL

\* A block that is handed out is new among the client's.
LEMMA HandsOutNew ==
  ASSUME LazyInv, Mapped, NEW block, HandsOut(block)
  PROVE  /\ Held = DOMAIN heap.mem \ (FreeBlocks(heap.mem) \cup {Sentinel})
         /\ block \notin Held /\ Magic(Hide(block)) = block
         /\ owned' # owned
<1>1. block \in Addr \ {Sentinel} /\ Return(block)
      /\ block \notin DOMAIN heap.mem \ FreeBlocks(heap.mem)
  BY DEF HandsOut
<1>2. Held = DOMAIN heap.mem \ (FreeBlocks(heap.mem) \cup {Sentinel})
  BY DEF LazyInv, TakenBlocksAreOwned, mem
<1>3. Magic(Hide(block)) = block
  BY <1>1, HeapAssumption DEF HeapAssumption, Magic, Hide, Addr
<1>4. Hide(block) \in DOMAIN owned' /\ Hide(block) \notin DOMAIN owned
  BY <1>1, <1>2, <1>3 DEF Return, Held
<1> QED
  BY <1>1, <1>2, <1>3, <1>4

\* dalloc() fails, or the process dies in it, only when find() has seen every
\* free block and none would do.
THEOREM LazyFindIsComplete == SmallRequests => (LazySpec => FailsOnlyWhenFull)
<1> SUFFICES ASSUME SmallRequests PROVE LazySpec => FailsOnlyWhenFull
  OBVIOUS
<1> DEFINE A == pc = "find" /\ owned' = owned /\ ("find" # pc' \/ process' # "runs")
                  => \A a \in FreeBlocks(mem) : ~Meets(a)
<1>1. ASSUME LazyInv, [LazyNext]_lazyVars PROVE [A]_lazyVars
  <2> SUFFICES ASSUME LazyNext, pc = "find", owned' = owned,
                      "find" # pc' \/ process' # "runs"
               PROVE  \A a \in FreeBlocks(mem) : ~Meets(a)
    BY <1>1
  <2>1. Searches
    BY DEF LazyNext, Starts, Initialise, Asks, DallocEnter, GivesBack, BenchEnds
  <2>2. PICK R \in SUBSET (FreeBlocks(mem) \X FreeBlocks(mem)) :
          /\ ListOrder(heap, FreeBlocks(mem), R)
          /\ \A a \in FreeBlocks(mem) : Meets(a) =>
               traverse # NULL /\ (a = traverse \/ <<traverse, a>> \in R)
    BY <1>1 DEF LazyInv, LeftToSee
  <2>3. CASE FindsNone \/ FallsOff
    BY <2>2, <2>3 DEF FindsNone, FindNothing, FallsOff
  <2>4. CASE LooksOn
    <3>1. /\ mem[traverse].next = NULL /\ traverse # NULL /\ ~Meets(traverse)
          /\ traverse \in FreeBlocks(mem)
      BY <2>4, <1>1 DEF LooksOn, LazyInv, CursorOnList
    <3>2. \A a \in FreeBlocks(mem) : <<traverse, a>> \notin R
      BY <3>1, <2>2 DEF ListOrder, mem
    <3> QED
      BY <3>1, <3>2, <2>2
  <2>5. CASE TakesTail \/ TakesWhole
    <3>1. Mapped
      BY <2>5, <1>1, LazyFound DEF TakesTail, TakesWhole
    <3> QED
      BY <3>1, <2>5, <1>1, TakesHandsOut, HandsOutNew
  <2> QED
    BY <2>1, <2>3, <2>4, <2>5 DEF Searches
<1>2. LazySpec => [][A]_lazyVars
  BY <1>1, LazyInvariance, PTL DEF LazySpec
<1> QED
  BY <1>2 DEF FailsOnlyWhenFull

LEMMA LazyStoreSteps ==
  ASSUME SmallRequests, LazyInv, LazyInv', [LazyNext]_lazyVars
  PROVE  [Store!StoreNext]_(Store!store)
<1> SUFFICES Store!StoreNext \/ UNCHANGED <<Payload, request>>
  BY DEF Store!store, Payload
<1>1. CASE Starts
  <2>1. DOMAIN owned = {} /\ owned' = owned /\ request' = request
    BY <1>1, HeapOfLazyInv DEF Starts, Initialise, Mapped
  <2> QED
    BY <2>1 DEF Payload
<1>2. ASSUME NEW r \in Requests, Asks(r)
      PROVE  Store!StoreNext
  <2>1. request = 0 /\ request' = r /\ UNCHANGED <<heap, owned>>
    BY <1>2 DEF LazyInv, CursorOnList, Asks, DallocEnter
  <2>2. Payload' = Payload
    BY <2>1 DEF Payload, mem
  <2>3. Store!Call(r)
    BY <2>1, <2>2 DEF Store!Call, Payload
  <2> QED
    BY <2>3 DEF Store!StoreNext
<1>3. CASE LooksOn \/ FallsOff \/ BenchEnds \/ UNCHANGED lazyVars
  <2>1. UNCHANGED <<heap, owned, request>>
    BY <1>3 DEF LooksOn, FallsOff, BenchEnds, lazyVars, vars
  <2> QED
    BY <2>1 DEF Payload, mem
<1>4. CASE FindsNone
  <2>1. request \in Requests /\ request' = 0 /\ UNCHANGED <<heap, owned>>
    BY <1>4 DEF LazyInv, CursorOnList, FindsNone, FindNothing
  <2>2. Payload' = Payload
    BY <2>1 DEF Payload, mem
  <2>3. Store!Refuse
    BY <2>1, <2>2, RequestAssumption DEF RequestAssumption, Store!Refuse, Payload
  <2> QED
    BY <2>3 DEF Store!StoreNext
<1>5. CASE TakesTail \/ TakesWhole
  <2>1. Mapped /\ TypeOK /\ request \in Requests
    BY <1>5, LazyFound DEF TakesTail, TakesWhole
  <2>2. PICK block : HandsOut(block)
    BY <1>5, TakesHandsOut
  <2>3. /\ MemTyped(heap'.mem) /\ Layout(heap'.mem) /\ Return(block) /\ block \in Addr
        /\ block # Sentinel /\ block \in DOMAIN heap'.mem
        /\ \A a \in DOMAIN heap.mem \ FreeBlocks(heap.mem) :
             a \in DOMAIN heap'.mem /\ heap'.mem[a].size = heap.mem[a].size
        /\ heap'.mem[block].size >= request
    BY <2>2 DEF HandsOut, Sound, HeapTyped
  <2>4. Held = DOMAIN heap.mem \ (FreeBlocks(heap.mem) \cup {Sentinel}) /\ block \notin Held
    BY <2>1, <2>2, HandsOutNew
  <2>5. /\ Held \subseteq DOMAIN heap'.mem \ {Sentinel}
        /\ \A a \in Held : heap'.mem[a].size = heap.mem[a].size
    BY <2>3, <2>4
  <2> QED
    BY <2>1, <2>3, <2>4, <2>5, GrantStep
<1>6. ASSUME NEW memory \in DOMAIN owned, GivesBack(memory)
      PROVE  Store!StoreNext
  <2>1. /\ request = 0 /\ request' = request /\ TypeOK /\ Mapped
        /\ owned' = [p \in DOMAIN owned \ {memory} |-> owned[p]]
    BY <1>6, HeapOfLazyInv DEF LazyInv, CursorOnList, GivesBack
  <2>2. Held \subseteq DOMAIN heap.mem
    BY <2>1 DEF LazyInv, TakenBlocksAreOwned, mem
  <2>3. \A a \in Held \ {Magic(memory)} : heap'.mem[a].size = heap.mem[a].size
    BY <2>2, <1>6, GivesBackHeap
  <2> QED
    BY <2>1, <2>3, ReleaseRegion
<1> QED
  BY <1>1, <1>2, <1>3, <1>4, <1>5, <1>6 DEF LazyNext, Searches

\* These allocators implement BlockStore too.
THEOREM LazyImplementation == SmallRequests => (LazySpec => ImplementsBlockStore)
<1> SUFFICES ASSUME SmallRequests PROVE LazySpec => ImplementsBlockStore
  OBVIOUS
<1>1. LazyInit => Store!StoreInit
  BY DEF LazyInit, Init, Store!StoreInit
<1>2. LazyInv /\ LazyInv' /\ [LazyNext]_lazyVars => [Store!StoreNext]_(Store!store)
  BY LazyStoreSteps
<1>3. LazySpec => Store!StoreSpec
  BY <1>1, <1>2, LazyInvariance, PTL DEF LazySpec, Store!StoreSpec
<1> QED
  BY <1>3 DEF ImplementsBlockStore

-----------------------------------------------------------------------------
(* The closing sanity() of benchDlmall.                                    *)

\* With the adjust() that rounds, the blocks these copies look for have the
\* sizes that leave headers on multiples of ALIGN.
LEMMA WantedRounds ==
  ASSUME SmallRequests, Version = "merge", request \in Requests
  PROVE  Multiple(wanted) /\ wanted >= MINIMUM
<1>1. request \in Nat /\ MIN(request) \in Nat /\ MIN(request) <= INT - ALIGN
  BY RequestAssumption, HeapAssumption, AdjustAssumption
     DEF RequestAssumption, HeapAssumption, AdjustAssumption, MIN, SmallRequests
<1>2. \A answer \in Answers(request) : answer = Least(request)
  BY <1>1, AnswersAre, RoundedIsLeast
<1>3. wanted = adjust(request)
  BY <1>2 DEF Answers, wanted
<1> QED
  BY <1>3, AdjustRounds

LEMMA LazySpacedStep ==
  ASSUME SmallRequests, Rounding, LazyInv, SpacedInv, [LazyNext]_lazyVars
  PROVE  SpacedInv'
<1> SUFFICES Spaced(DOMAIN heap'.mem)
  BY DEF SpacedInv, mem
<1>0. Spaced(DOMAIN heap.mem)
  BY DEF SpacedInv, mem
<1>1. CASE Starts
  <2>1. DOMAIN heap'.mem = {0, Sentinel}
    BY <1>1, HeapOfLazyInv, NewArenaHeap DEF Starts, Initialise, Mapped
  <2> QED
    BY <2>1, NewArenaSpaced
<1>2. CASE UNCHANGED heap
  BY <1>0, <1>2
<1>3. CASE TakesTail
  <2> DEFINE sz == wanted
  <2>1. /\ pc = "find" /\ traverse # NULL /\ heap.mem[traverse].size >= LIMIT(sz)
        /\ heap' = SplitTail(heap, traverse, sz)
    BY <1>3 DEF TakesTail, mem
  <2>2. /\ Sound(heap) /\ request \in Requests /\ sz \in Nat \ {0}
        /\ traverse \in FreeBlocks(heap.mem) /\ traverse \in DOMAIN heap.mem
    BY <2>1, LazyFound
  <2>3. Multiple(sz) /\ sz >= MINIMUM
    BY <2>2, WantedRounds DEF Rounding
  <2> HIDE DEF sz
  <2>4. MemTyped(heap.mem) /\ Layout(heap.mem) /\ traverse # Sentinel
    BY <2>2 DEF Sound, HeapTyped, Flags, FreeBlocks
  <2>5. DOMAIN heap'.mem = DOMAIN heap.mem \cup {SplitOff(heap.mem, traverse, sz)}
    BY <2>1, <2>2, SplitTailSound
  <2>6. Spaced(DOMAIN heap.mem \cup {SplitOff(heap.mem, traverse, sz)})
    BY <1>0, <2>1, <2>2, <2>3, <2>4, SpacedSplit
  <2> QED
    BY <2>5, <2>6
<1>4. CASE TakesWhole
  <2>1. pc = "find" /\ traverse # NULL /\ heap' = TakeWhole(heap, traverse)
    BY <1>4 DEF TakesWhole
  <2>2. Sound(heap) /\ traverse \in FreeBlocks(heap.mem)
    BY <2>1, LazyFound
  <2>3. DOMAIN heap'.mem = DOMAIN heap.mem
    BY <2>1, <2>2, TakeWholeSound
  <2> QED
    BY <1>0, <2>3
<1>5. ASSUME NEW memory \in DOMAIN owned, GivesBack(memory)
      PROVE  Spaced(DOMAIN heap'.mem)
  BY <1>0, <1>5, GivesBackHeap
<1> QED
  BY <1>1, <1>2, <1>3, <1>4, <1>5
     DEF LazyNext, Searches, Asks, DallocEnter, LooksOn, FindsNone, FindNothing,
         FallsOff, BenchEnds, vars, lazyVars

LEMMA AugustSanityHolds ==
  ASSUME Rounding, LazyInv, SpacedInv, Mapped, NEW i \in 1 .. Len(FreeList)
  PROVE  AugustChecks(i)
<1> DEFINE F == FreeBlocks(mem)
           L == FreeList
           b == L[i]
<1>1. HeapTyped(heap) /\ DoublyLinked(heap, F) /\ MemTyped(mem)
      /\ Layout(mem) /\ Flags(mem)
  <2>1. HeapTyped(heap) /\ Linked(heap, F) /\ Sound(heap)
    BY HeapOfLazyInv DEF mem
  <2> QED
    BY <2>1 DEF Linked, Sound, HeapTyped, mem
<1>2. PICK R \in SUBSET (F \X F) : ListOrder(heap, F, R)
  BY HeapOfLazyInv DEF Linked, mem
<1>3. Chain(F \cup {NULL}, heap.flist, NULL, NextOf(heap), ToNull(heap, R))
  BY <1>1, <1>2, ListIsChain DEF mem
<1>4. /\ L \in Seq(F)
      /\ \A k \in 1 .. Len(L) :
           /\ k = 1 => L[k] = heap.flist
           /\ k > 1 => L[k] = mem[L[k - 1]].next
  BY <1>1, <1>3, FreeListWalk
<1>5. i \in 1 .. Len(L) /\ Len(L) \in Nat /\ i \in Int
  BY <1>4
<1> HIDE DEF L
<1>6. b \in F
  BY <1>4, <1>5
<1>7. i = 1 => mem[b].prev = NULL
  <2>1. i = 1 => b = heap.flist
    BY <1>4, <1>5
  <2>2. \A a \in F : mem[a].prev = NULL <=> a = heap.flist
    BY <1>1 DEF DoublyLinked, mem
  <2> QED
    BY <1>6, <2>1, <2>2
<1>8. i # 1 => mem[b].prev = L[i - 1]
  <2> SUFFICES ASSUME i # 1 PROVE mem[b].prev = L[i - 1]
    OBVIOUS
  <2>1. i - 1 \in 1 .. Len(L) /\ i > 1
    BY <1>5
  <2>2. L[i - 1] \in F /\ mem[L[i - 1]].next = b
    BY <1>4, <1>5, <2>1
  <2>3. b # NULL
    BY <1>1, <1>6, HeapAssumption DEF HeapAssumption, MemTyped, Addr, FreeBlocks
  <2> QED
    BY <1>1, <1>6, <2>2, <2>3 DEF DoublyLinked, mem
<1>9. mem[b].free /\ b \in DOMAIN mem \ {Sentinel}
  BY <1>1, <1>6 DEF FreeBlocks, Flags
<1> HIDE DEF F
<1>10. mem[b].size % ALIGN = 0
  BY <1>1, <1>9, SpacedSizes DEF SpacedInv
<1> QED
  BY <1>7, <1>8, <1>9, <1>10 DEF AugustChecks, L

(***************************************************************************)
(* However benchDlmall's rounds have cut the arena up, its closing         *)
(* sanity() finds nothing wrong with the list (BenchSanityQuiet), if       *)
(* headers and arena are multiples of ALIGN.                               *)
(***************************************************************************)
THEOREM BenchSanityFindsNothing ==
  SmallRequests /\ Rounding => (LazySpec => []BenchSanityQuiet)
<1> SUFFICES ASSUME SmallRequests, Rounding PROVE LazySpec => []BenchSanityQuiet
  OBVIOUS
<1>1. LazyInit => SpacedInv /\ BenchSanityQuiet
  BY DEF LazyInit, Init, SpacedInv, Spaced, mem, BenchSanityQuiet
<1>2. LazyInv /\ SpacedInv /\ [LazyNext]_lazyVars => SpacedInv'
  BY LazySpacedStep
<1>3. LazyInv /\ SpacedInv /\ BenchSanityQuiet /\ [LazyNext]_lazyVars
        => BenchSanityQuiet'
  <2> SUFFICES ASSUME LazyInv, SpacedInv, BenchSanityQuiet, [LazyNext]_lazyVars
               PROVE  process' # "exit 1"
    BY DEF BenchSanityQuiet
  <2>1. CASE BenchEnds
    BY <2>1, AugustSanityHolds DEF BenchEnds
  <2>2. CASE LooksOn
    BY <2>2 DEF LooksOn
  <2>3. CASE FallsOff
    BY <2>3 DEF FallsOff
  <2>4. CASE UNCHANGED process
    BY <2>4 DEF BenchSanityQuiet
  <2> QED
    BY <2>1, <2>2, <2>3, <2>4
       DEF LazyNext, Searches, Starts, Asks, TakesTail, TakesWhole, FindsNone,
           GivesBack, lazyVars
<1> QED
  BY <1>1, <1>2, <1>3, LazyInvariance, PTL DEF LazySpec

-----------------------------------------------------------------------------
(***************************************************************************)
(* adjust(), in its three versions.  Neither property is about the state,  *)
(* and the runs look at every request up to a bound; here it is any.  The  *)
(* "final" copy is left out because it does not do what they say.          *)
(***************************************************************************)

\* adjust() answers with a multiple of ALIGN even when the request is cut off
\* by the conversion to int: 2^31 is a multiple of ALIGN, and C's remainder
\* is right for negative numbers.
THEOREM AlwaysAligned ==
  INT % ALIGN = 0 /\ Version = "merge" => (LazySpec => []AdjustIsAligned)
<1> SUFFICES ASSUME INT % ALIGN = 0, Version = "merge" PROVE LazySpec => []AdjustIsAligned
  OBVIOUS
<1>1. AdjustIsAligned
  BY AnswersAligned, LazyAssumption DEF LazyAssumption, AdjustIsAligned
<1> QED
  BY <1>1, PTL

\* adjust() wastes nothing: its answer is the least multiple of ALIGN that
\* holds the request and the two links of a free block.
THEOREM NothingWasted ==
  MINIMUM <= INT - ALIGN /\ Version = "merge" => (LazySpec => []AdjustIsLeast)
<1> SUFFICES ASSUME MINIMUM <= INT - ALIGN, Version = "merge"
             PROVE  LazySpec => []AdjustIsLeast
  OBVIOUS
<1>1. ASSUME NEW req \in 1 .. INT - ALIGN
      PROVE  Answers(req) = {Least(req)}
  <2>1. req \in Nat /\ MIN(req) \in Nat /\ MIN(req) <= INT - ALIGN
    BY HeapAssumption, AdjustAssumption DEF HeapAssumption, AdjustAssumption, MIN
  <2>2. \A answer \in Answers(req) : answer = Least(req)
    BY <2>1, AnswersAre, RoundedIsLeast
  <2> QED
    BY <2>2 DEF Answers
<1>2. AdjustIsLeast
  BY <1>1 DEF AdjustIsLeast
<1> QED
  BY <1>2, PTL
=============================================================================
