----------------------------- MODULE HeapLemmas -----------------------------
(***************************************************************************)
(* What the operators of Heap do to the predicates of HeapInvariants, for  *)
(* every heap and every value of the constants.                            *)
(***************************************************************************)
EXTENDS HeapInvariants, TLAPS

-----------------------------------------------------------------------------
(* Headers, field by field.                                                *)

\* Two memories with the same blocks, sizes and status flags.
SameTags(m, n) ==
  /\ DOMAIN n = DOMAIN m
  /\ \A a \in DOMAIN m : /\ n[a].size = m[a].size
                         /\ n[a].bsize = m[a].bsize
                         /\ n[a].free = m[a].free
                         /\ n[a].bfree = m[a].bfree

\* Two memories whose blocks in L have the same links.
SameLinks(m, n, L) ==
  \A a \in L : n[a].next = m[a].next /\ n[a].prev = m[a].prev

\* The size fields hold every size that fits the arena: the uint16_t
\* arithmetic of split() and merge() never wraps.
LEMMA U16Identity ==
  ASSUME NEW x \in Int, 0 <= x, x < ARENA
  PROVE  U16(x) = x /\ U16(x) \in 0 .. WORD - 1
<1>1. ARENA <= WORD /\ WORD \in Nat /\ ARENA \in Nat
  BY HeapAssumption DEF HeapAssumption
<1>2. x % WORD = x
  BY <1>1
<1> QED
  BY <1>1, <1>2 DEF U16

\* The fields of a typed memory.
LEMMA FieldTypes ==
  ASSUME NEW mem, MemTyped(mem), NEW a \in DOMAIN mem
  PROVE  /\ a \in Int /\ 0 <= a /\ a <= Sentinel
         /\ mem[a] \in Header
         /\ mem[a].size \in 0 .. WORD - 1 /\ mem[a].bsize \in 0 .. WORD - 1
         /\ mem[a].free \in BOOLEAN /\ mem[a].bfree \in BOOLEAN
         /\ mem[a].next \in Link /\ mem[a].prev \in Link
  BY HeapAssumption DEF HeapAssumption, MemTyped, Addr, Sentinel, Header

\* Layout and status flags depend on nothing but the tags.
LEMMA SameTagsLayout ==
  ASSUME NEW m, NEW n, SameTags(m, n), Layout(m)
  PROVE  /\ Layout(n)
         /\ Flags(m) => Flags(n)
         /\ Coalesced(m) => Coalesced(n)
         /\ FreeBlocks(n) = FreeBlocks(m)
         /\ \A a \in DOMAIN m : After(n, a) = After(m, a) /\ Before(n, a) = Before(m, a)
<1>1. \A a \in DOMAIN m : After(n, a) = After(m, a) /\ Before(n, a) = Before(m, a)
  BY DEF SameTags, After, Before
<1>2. DOMAIN n = DOMAIN m /\ {0, Sentinel} \subseteq DOMAIN m
  BY DEF SameTags, Layout
<1>3. ForwardLinked(n)
  BY <1>1, <1>2 DEF Layout, ForwardLinked, SameTags
<1>4. BackwardLinked(n)
  BY <1>1, <1>2 DEF Layout, BackwardLinked, SameTags
<1>5. Disjoint(n)
  BY <1>1, <1>2 DEF Layout, Disjoint
<1>6. Layout(n)
  BY <1>2, <1>3, <1>4, <1>5 DEF Layout, SameTags
<1>7. Flags(m) => Flags(n)
  BY <1>1, <1>2 DEF Flags, SameTags, Layout, ForwardLinked
<1>8. (Coalesced(m) => Coalesced(n)) /\ FreeBlocks(n) = FreeBlocks(m)
  BY DEF Coalesced, FreeBlocks, SameTags
<1> QED
  BY <1>1, <1>6, <1>7, <1>8

-----------------------------------------------------------------------------
(* Neighbours.                                                             *)

\* after() and before() are inverse to each other.
LEMMA Neighbours ==
  ASSUME NEW mem, MemTyped(mem), Layout(mem)
  PROVE  /\ \A a \in DOMAIN mem \ {Sentinel} :
              /\ After(mem, a) \in DOMAIN mem \ {0}
              /\ After(mem, a) > a + HEAD
              /\ After(mem, a) = a + mem[a].size + HEAD
              /\ Before(mem, After(mem, a)) = a
         /\ \A a \in DOMAIN mem \ {0} :
              /\ Before(mem, a) \in DOMAIN mem \ {Sentinel}
              /\ After(mem, Before(mem, a)) = a
         /\ \A a, b \in DOMAIN mem \ {Sentinel} :
              After(mem, a) = After(mem, b) => a = b
<1> USE HeapAssumption DEF HeapAssumption
<1>1. ASSUME NEW a \in DOMAIN mem \ {Sentinel}
      PROVE  /\ After(mem, a) \in DOMAIN mem \ {0}
             /\ After(mem, a) > a + HEAD
             /\ After(mem, a) = a + mem[a].size + HEAD
             /\ Before(mem, After(mem, a)) = a
  <2>1. a \in Int /\ 0 <= a /\ mem[a].size \in Int /\ mem[a].size > 0
    BY FieldTypes DEF Layout, ForwardLinked
  <2>2. After(mem, a) \in DOMAIN mem /\ mem[After(mem, a)].bsize = mem[a].size
    BY DEF Layout, ForwardLinked
  <2> QED
    BY <2>1, <2>2 DEF After, Before
<1>2. ASSUME NEW a \in DOMAIN mem \ {0}
      PROVE  /\ Before(mem, a) \in DOMAIN mem \ {Sentinel}
             /\ After(mem, Before(mem, a)) = a
  <2>1. Before(mem, a) \in DOMAIN mem /\ After(mem, Before(mem, a)) = a
    BY DEF Layout, BackwardLinked
  <2>2. mem[Sentinel].size = 0 /\ a <= Sentinel /\ a \in Int /\ Sentinel \in Int
    BY FieldTypes DEF Layout, Sentinel
  <2>3. After(mem, Sentinel) > Sentinel
    BY <2>2 DEF After
  <2> QED
    BY <2>1, <2>2, <2>3
<1>3. ASSUME NEW a \in DOMAIN mem \ {Sentinel},
             NEW b \in DOMAIN mem \ {Sentinel},
             After(mem, a) = After(mem, b)
      PROVE  a = b
  BY <1>1, <1>3
<1> QED
  BY <1>1, <1>2, <1>3

-----------------------------------------------------------------------------
(* The free list.                                                          *)

\* detach() writes nothing but links.
LEMMA DetachTags ==
  ASSUME NEW h, HeapTyped(h), NEW block \in DOMAIN h.mem,
         h.mem[block].next # JUNK, h.mem[block].prev # JUNK
  PROVE  /\ HeapTyped(Detach(h, block))
         /\ SameTags(h.mem, Detach(h, block).mem)
<1> DEFINE n == h.mem[block].next
           p == h.mem[block].prev
           d == Detach(h, block)
<1>1. n \in Addr \cup {NULL} /\ p \in Addr \cup {NULL}
  BY FieldTypes DEF HeapTyped, Link
<1>2. /\ d = [mem |-> d.mem, flist |-> d.flist]
      /\ d.flist = IF p = NULL THEN n ELSE h.flist
      /\ d.mem = [a \in DOMAIN h.mem |-> d.mem[a]]
  BY DEF Detach
<1>3. ASSUME NEW a \in DOMAIN h.mem
      PROVE  /\ d.mem[a] \in Header
             /\ d.mem[a].size = h.mem[a].size /\ d.mem[a].bsize = h.mem[a].bsize
             /\ d.mem[a].free = h.mem[a].free /\ d.mem[a].bfree = h.mem[a].bfree
  <2> DEFINE nn == IF a = p THEN n ELSE h.mem[a].next
             pp == IF a = n THEN p ELSE h.mem[a].prev
  <2>1. h.mem[a] \in Header /\ nn \in Link /\ pp \in Link
    BY <1>1, FieldTypes DEF HeapTyped, Link
  <2>2. d.mem[a] = [h.mem[a] EXCEPT !.next = nn, !.prev = pp]
    BY DEF Detach
  <2> HIDE DEF nn, pp, d
  <2> QED
    BY <2>1, <2>2 DEF Header
<1> HIDE DEF d
<1>5. MemTyped(d.mem)
  BY <1>2, <1>3 DEF HeapTyped, MemTyped
<1>6. HeapTyped(d)
  BY <1>1, <1>2, <1>5 DEF HeapTyped
<1>7. SameTags(h.mem, d.mem)
  BY <1>2, <1>3 DEF SameTags
<1> QED
  BY <1>6, <1>7 DEF d

\* The links that detach() writes.
LEMMA DetachLinks ==
  ASSUME NEW h, MemTyped(h.mem), NEW block \in DOMAIN h.mem,
         NEW a \in DOMAIN h.mem
  PROVE  /\ Detach(h, block).mem[a].next =
              IF a = h.mem[block].prev THEN h.mem[block].next ELSE h.mem[a].next
         /\ Detach(h, block).mem[a].prev =
              IF a = h.mem[block].next THEN h.mem[block].prev ELSE h.mem[a].prev
<1> DEFINE nn == IF a = h.mem[block].prev THEN h.mem[block].next ELSE h.mem[a].next
           pp == IF a = h.mem[block].next THEN h.mem[block].prev ELSE h.mem[a].prev
<1>1. h.mem[a] \in Header
  BY FieldTypes
<1>2. Detach(h, block).mem[a] = [h.mem[a] EXCEPT !.next = nn, !.prev = pp]
  BY DEF Detach
<1> HIDE DEF nn, pp
<1>3. Detach(h, block).mem[a].next = nn /\ Detach(h, block).mem[a].prev = pp
  BY <1>1, <1>2 DEF Header
<1> QED
  BY <1>3 DEF nn, pp

\* detach() takes one block out of the list and leaves the others in order.
LEMMA DetachLinked ==
  ASSUME NEW h, HeapTyped(h), NEW L, Linked(h, L), NEW block \in L
  PROVE  Linked(Detach(h, block), L \ {block})
<1> DEFINE n == h.mem[block].next
           p == h.mem[block].prev
           d == Detach(h, block)
           M == L \ {block}
<1>1. PICK R \in SUBSET (L \X L) : ListOrder(h, L, R)
  BY DEF Linked
<1>2. /\ L \subseteq DOMAIN h.mem /\ DOMAIN d.mem = DOMAIN h.mem
      /\ NULL \notin DOMAIN h.mem
      /\ d.flist = IF p = NULL THEN n ELSE h.flist
  BY HeapAssumption DEF Linked, DoublyLinked, Detach, HeapTyped, MemTyped, Addr, HeapAssumption
<1>3. \A a \in DOMAIN h.mem :
        /\ d.mem[a].next = IF a = p THEN n ELSE h.mem[a].next
        /\ d.mem[a].prev = IF a = n THEN p ELSE h.mem[a].prev
  BY <1>2, DetachLinks DEF HeapTyped
<1>4. /\ n # NULL => n \in L /\ h.mem[n].prev = block
      /\ p # NULL => p \in L /\ h.mem[p].next = block
      /\ p = NULL <=> block = h.flist
  BY DEF Linked, DoublyLinked
<1>5. n # block /\ p # block
  <2>1. h.mem[block].next # NULL => <<block, h.mem[block].next>> \in R
    BY <1>1 DEF ListOrder
  <2>2. <<block, block>> \notin R /\ block # NULL
    BY <1>1, <1>2 DEF ListOrder
  <2>3. h.mem[block].next # block
    BY <2>1, <2>2
  <2> QED
    BY <1>4, <2>2, <2>3
<1> HIDE DEF d, n, p
<1>6. DoublyLinked(d, M)
  <2>1. M \subseteq DOMAIN d.mem
    BY <1>2
  <2>2. d.flist # NULL => d.flist \in M
    BY <1>2, <1>4, <1>5 DEF Linked, DoublyLinked
  <2>3. ASSUME NEW a \in M PROVE d.mem[a].prev = NULL <=> a = d.flist
    BY <1>2, <1>3, <1>4, <1>5 DEF Linked, DoublyLinked, n, p
  <2>4. ASSUME NEW a \in M, d.mem[a].next # NULL
        PROVE  d.mem[a].next \in M /\ d.mem[d.mem[a].next].prev = a
    BY <2>4, <1>2, <1>3, <1>4, <1>5 DEF Linked, DoublyLinked, n, p
  <2>5. ASSUME NEW a \in M, d.mem[a].prev # NULL
        PROVE  d.mem[a].prev \in M /\ d.mem[d.mem[a].prev].next = a
    BY <2>5, <1>2, <1>3, <1>4, <1>5 DEF Linked, DoublyLinked, n, p
  <2> QED
    BY <2>1, <2>2, <2>3, <2>4, <2>5 DEF DoublyLinked
<1> DEFINE S == R \cap (M \X M)
<1>7. \A a, b \in M : <<a, b>> \in S <=> <<a, b>> \in R
  OBVIOUS
<1>8. ListOrder(d, M, S)
  <2> HIDE DEF S
  <2> USE <1>1, <1>2, <1>3, <1>4, <1>5, <1>7
  <2>1. \A a \in M : <<a, a>> \notin S
    BY DEF ListOrder
  <2>2. \A a, b, c \in M : <<a, b>> \in S /\ <<b, c>> \in S => <<a, c>> \in S
    BY DEF ListOrder
  <2>3. ASSUME NEW a \in M
        PROVE  d.flist # NULL /\ (a # d.flist => <<d.flist, a>> \in S)
    <3>1. a \in L /\ a # block
      OBVIOUS
    <3>2. h.flist # NULL /\ (a # h.flist => <<h.flist, a>> \in R)
      BY <3>1 DEF ListOrder
    <3>3. CASE p = NULL
      BY <3>1, <3>2, <3>3 DEF ListOrder, n
    <3>4. CASE p # NULL
      BY <3>1, <3>2, <3>4 DEF ListOrder, n
    <3> QED
      BY <3>3, <3>4
  <2>4. ASSUME NEW a \in M, d.mem[a].next # NULL
        PROVE  <<a, d.mem[a].next>> \in S
    <3>1. CASE a = p
      <4>1. d.mem[a].next = n /\ n \in M /\ a \in L
        BY <2>4, <3>1
      <4>2. <<a, block>> \in R /\ <<block, n>> \in R
        BY <2>4, <3>1, <4>1 DEF ListOrder, n
      <4> QED
        BY <4>1, <4>2 DEF ListOrder
    <3>2. CASE a # p
      <4>1. d.mem[a].next = h.mem[a].next /\ d.mem[a].next \in M
        BY <2>4, <3>2, <1>6 DEF DoublyLinked
      <4> QED
        BY <2>4, <4>1 DEF ListOrder
    <3> QED
      BY <3>1, <3>2
  <2>5. ASSUME NEW a \in M, NEW b \in M, <<a, b>> \in S
        PROVE  /\ d.mem[a].next # NULL
               /\ b # d.mem[a].next => <<d.mem[a].next, b>> \in S
    <3>1. <<a, b>> \in R /\ a \in L /\ b \in L /\ b # block
      BY <2>5
    <3>2. /\ h.mem[a].next # NULL
          /\ b # h.mem[a].next => <<h.mem[a].next, b>> \in R
      BY <3>1 DEF ListOrder
    <3>3. CASE a = p
      <4>1. d.mem[a].next = n /\ h.mem[a].next = block
        BY <3>3
      <4>2. <<block, b>> \in R
        BY <3>1, <3>2, <4>1
      <4>3. n # NULL /\ (b # n => <<n, b>> \in R)
        BY <3>1, <4>2 DEF ListOrder, n
      <4> QED
        BY <4>1, <4>3
    <3>4. CASE a # p
      <4>1. d.mem[a].next = h.mem[a].next /\ d.mem[a].next \in M
        BY <3>2, <3>4, <1>6 DEF DoublyLinked
      <4> QED
        BY <3>2, <4>1
    <3> QED
      BY <3>3, <3>4
  <2> QED
    BY <2>1, <2>2, <2>3, <2>4, <2>5 DEF ListOrder
<1> QED
  BY <1>6, <1>8 DEF Linked, d

\* insert() writes nothing but links and flist.
LEMMA InsertTags ==
  ASSUME NEW h, HeapTyped(h), NEW block \in DOMAIN h.mem
  PROVE  /\ HeapTyped(Insert(h, block))
         /\ SameTags(h.mem, Insert(h, block).mem)
         /\ Insert(h, block).flist = block
         /\ \A a \in DOMAIN h.mem :
              /\ Insert(h, block).mem[a].next =
                   IF a = block THEN h.flist ELSE h.mem[a].next
              /\ Insert(h, block).mem[a].prev =
                   IF a = h.flist THEN block
                   ELSE IF a = block THEN NULL ELSE h.mem[a].prev
<1> DEFINE d == Insert(h, block)
<1>1. /\ d = [mem |-> d.mem, flist |-> d.flist]
      /\ d.flist = block /\ block \in Addr
      /\ d.mem = [a \in DOMAIN h.mem |-> d.mem[a]]
  BY DEF Insert, HeapTyped, MemTyped
<1>2. ASSUME NEW a \in DOMAIN h.mem
      PROVE  /\ d.mem[a] \in Header
             /\ d.mem[a].size = h.mem[a].size /\ d.mem[a].bsize = h.mem[a].bsize
             /\ d.mem[a].free = h.mem[a].free /\ d.mem[a].bfree = h.mem[a].bfree
             /\ d.mem[a].next = IF a = block THEN h.flist ELSE h.mem[a].next
             /\ d.mem[a].prev = IF a = h.flist THEN block
                                ELSE IF a = block THEN NULL ELSE h.mem[a].prev
  <2> DEFINE nn == IF a = block THEN h.flist ELSE h.mem[a].next
             pp == IF a = h.flist THEN block
                   ELSE IF a = block THEN NULL ELSE h.mem[a].prev
  <2>1. h.mem[a] \in Header /\ nn \in Link /\ pp \in Link
    BY <1>1, FieldTypes DEF HeapTyped, Link
  <2>2. d.mem[a] = [h.mem[a] EXCEPT !.next = nn, !.prev = pp]
    BY DEF Insert
  <2> HIDE DEF nn, pp, d
  <2>3. /\ d.mem[a] \in Header
        /\ d.mem[a].size = h.mem[a].size /\ d.mem[a].bsize = h.mem[a].bsize
        /\ d.mem[a].free = h.mem[a].free /\ d.mem[a].bfree = h.mem[a].bfree
        /\ d.mem[a].next = nn /\ d.mem[a].prev = pp
    BY <2>1, <2>2 DEF Header
  <2> QED
    BY <2>3 DEF nn, pp
<1> HIDE DEF d
<1>3. MemTyped(d.mem)
  BY <1>1, <1>2 DEF HeapTyped, MemTyped
<1>4. HeapTyped(d)
  BY <1>1, <1>3 DEF HeapTyped
<1>5. SameTags(h.mem, d.mem)
  BY <1>1, <1>2 DEF SameTags
<1> QED
  BY <1>1, <1>2, <1>4, <1>5 DEF d

\* insert() puts a block that is not listed in front of the list.
LEMMA InsertLinked ==
  ASSUME NEW h, HeapTyped(h), NEW L, Linked(h, L),
         NEW block \in DOMAIN h.mem, block \notin L
  PROVE  Linked(Insert(h, block), L \cup {block})
<1> DEFINE d == Insert(h, block)
           M == L \cup {block}
<1>1. PICK R \in SUBSET (L \X L) : ListOrder(h, L, R)
  BY DEF Linked
<1>2. /\ L \subseteq DOMAIN h.mem /\ DOMAIN d.mem = DOMAIN h.mem
      /\ NULL \notin DOMAIN h.mem
      /\ d.flist = block
  BY HeapAssumption, InsertTags
     DEF Linked, DoublyLinked, SameTags, HeapTyped, MemTyped, Addr, HeapAssumption
<1>3. \A a \in DOMAIN h.mem :
        /\ d.mem[a].next = IF a = block THEN h.flist ELSE h.mem[a].next
        /\ d.mem[a].prev = IF a = h.flist THEN block
                           ELSE IF a = block THEN NULL ELSE h.mem[a].prev
  BY InsertTags
<1>4. h.flist # NULL => h.flist \in L /\ h.mem[h.flist].prev = NULL
  BY DEF Linked, DoublyLinked
<1> HIDE DEF d
<1>5. DoublyLinked(d, M)
  <2>1. M \subseteq DOMAIN d.mem
    BY <1>2
  <2>2. d.flist # NULL => d.flist \in M
    BY <1>2
  <2>3. ASSUME NEW a \in M PROVE d.mem[a].prev = NULL <=> a = d.flist
    BY <1>2, <1>3, <1>4 DEF Linked, DoublyLinked
  <2>4. ASSUME NEW a \in M, d.mem[a].next # NULL
        PROVE  d.mem[a].next \in M /\ d.mem[d.mem[a].next].prev = a
    BY <2>4, <1>2, <1>3, <1>4 DEF Linked, DoublyLinked
  <2>5. ASSUME NEW a \in M, d.mem[a].prev # NULL
        PROVE  d.mem[a].prev \in M /\ d.mem[d.mem[a].prev].next = a
    BY <2>5, <1>2, <1>3, <1>4 DEF Linked, DoublyLinked
  <2> QED
    BY <2>1, <2>2, <2>3, <2>4, <2>5 DEF DoublyLinked
<1> DEFINE S == R \cup ({block} \X L)
<1>6. S \in SUBSET (M \X M)
  OBVIOUS
<1>7. \A a, b \in M : <<a, b>> \in S <=> <<a, b>> \in R \/ (a = block /\ b \in L)
  OBVIOUS
<1>8. \A a, b \in M : <<a, b>> \in R => a \in L /\ b \in L
  OBVIOUS
<1>9. ListOrder(d, M, S)
  <2> HIDE DEF S
  <2> USE <1>1, <1>2, <1>3, <1>4, <1>7, <1>8
  <2>1. \A a \in M : <<a, a>> \notin S
    BY DEF ListOrder
  <2>2. \A a, b, c \in M : <<a, b>> \in S /\ <<b, c>> \in S => <<a, c>> \in S
    BY DEF ListOrder
  <2>3. ASSUME NEW a \in M
        PROVE  d.flist # NULL /\ (a # d.flist => <<d.flist, a>> \in S)
    OBVIOUS
  <2>4. ASSUME NEW a \in M, d.mem[a].next # NULL
        PROVE  <<a, d.mem[a].next>> \in S
    BY <2>4, <1>5 DEF ListOrder, DoublyLinked
  <2>5. ASSUME NEW a \in M, NEW b \in M, <<a, b>> \in S
        PROVE  /\ d.mem[a].next # NULL
               /\ b # d.mem[a].next => <<d.mem[a].next, b>> \in S
    BY <2>5, <1>5 DEF ListOrder, DoublyLinked
  <2> QED
    BY <2>1, <2>2, <2>3, <2>4, <2>5 DEF ListOrder
<1> QED
  BY <1>5, <1>6, <1>9 DEF Linked, d

\* A list is not disturbed by a change of anything but its blocks' links.
LEMMA LinkedFrame ==
  ASSUME NEW h, NEW g, NEW L, Linked(h, L), L \subseteq DOMAIN g.mem,
         g.flist = h.flist, SameLinks(h.mem, g.mem, L)
  PROVE  Linked(g, L)
<1>1. DoublyLinked(g, L)
  BY DEF Linked, DoublyLinked, SameLinks
<1>2. \A R \in SUBSET (L \X L) : ListOrder(h, L, R) => ListOrder(g, L, R)
  BY DEF ListOrder, SameLinks
<1> QED
  BY <1>1, <1>2 DEF Linked

-----------------------------------------------------------------------------
(* Coalescing.                                                             *)

\* What merge() writes when low takes over the block high behind it.
LEMMA AbsorbFields ==
  ASSUME NEW mem, MemTyped(mem), NEW low, NEW high, NEW aft,
         NEW a \in DOMAIN mem, a # high
  PROVE  /\ Absorb(mem, low, high, aft)[a].size =
              IF a = low THEN JoinedSize(mem, low, high) ELSE mem[a].size
         /\ Absorb(mem, low, high, aft)[a].bsize =
              IF a = aft THEN JoinedSize(mem, low, high) ELSE mem[a].bsize
         /\ Absorb(mem, low, high, aft)[a].free = mem[a].free
         /\ Absorb(mem, low, high, aft)[a].bfree = mem[a].bfree
         /\ Absorb(mem, low, high, aft)[a].next = mem[a].next
         /\ Absorb(mem, low, high, aft)[a].prev = mem[a].prev
         /\ JoinedSize(mem, low, high) \in 0 .. WORD - 1 =>
              Absorb(mem, low, high, aft)[a] \in Header
<1> DEFINE x == Absorb(mem, low, high, aft)
           size == JoinedSize(mem, low, high)
           ss == IF a = low THEN size ELSE mem[a].size
           bb == IF a = aft THEN size ELSE mem[a].bsize
<1>1. mem[a] \in Header
  BY FieldTypes
<1>2. x[a] = [mem[a] EXCEPT !.size = ss, !.bsize = bb]
  BY DEF Absorb
<1>3. size \in 0 .. WORD - 1 => ss \in 0 .. WORD - 1 /\ bb \in 0 .. WORD - 1
  BY FieldTypes
<1> HIDE DEF ss, bb, x, size
<1>4. /\ x[a].size = ss /\ x[a].bsize = bb
      /\ x[a].free = mem[a].free /\ x[a].bfree = mem[a].bfree
      /\ x[a].next = mem[a].next /\ x[a].prev = mem[a].prev
  BY <1>1, <1>2 DEF Header
<1>5. size \in 0 .. WORD - 1 => x[a] \in Header
  BY <1>1, <1>2, <1>3 DEF Header
<1> QED
  BY <1>4, <1>5 DEF ss, bb, x, size

LEMMA AbsorbTyped ==
  ASSUME NEW mem, MemTyped(mem), NEW low, NEW high, NEW aft,
         JoinedSize(mem, low, high) \in 0 .. WORD - 1
  PROVE  MemTyped(Absorb(mem, low, high, aft))
<1> DEFINE x == Absorb(mem, low, high, aft)
<1>1. DOMAIN x = DOMAIN mem \ {high} /\ x = [a \in DOMAIN x |-> x[a]]
  BY DEF Absorb
<1>2. \A a \in DOMAIN mem : a # high => x[a] \in Header
  BY AbsorbFields
<1> HIDE DEF x
<1>3. MemTyped(x)
  BY <1>1, <1>2 DEF MemTyped
<1> QED
  BY <1>3 DEF x

\* When the block behind low is absorbed, low's new size reaches exactly to
\* the block after, and the headers still tile the arena.
LEMMA AbsorbLayout ==
  ASSUME NEW mem, MemTyped(mem), Layout(mem),
         NEW low \in DOMAIN mem \ {Sentinel}, NEW high, NEW aft,
         high = After(mem, low), high # Sentinel, aft = After(mem, high)
  PROVE  LET x == Absorb(mem, low, high, aft)
         IN /\ MemTyped(x) /\ Layout(x)
            /\ After(x, low) = aft
            /\ \A a \in DOMAIN x \ {Sentinel, low} : After(x, a) = After(mem, a)
            /\ aft = low + JoinedSize(mem, low, high) + HEAD
<1> DEFINE x == Absorb(mem, low, high, aft)
           size == JoinedSize(mem, low, high)
<1> USE HeapAssumption DEF HeapAssumption
<1>1. /\ high \in DOMAIN mem \ {0, Sentinel} /\ aft \in DOMAIN mem \ {0}
      /\ low < high /\ high < aft /\ low \in Int /\ high \in Int /\ aft \in Int
      /\ 0 <= low /\ aft <= Sentinel
      /\ high = low + mem[low].size + HEAD
      /\ aft = high + mem[high].size + HEAD
      /\ mem[low].size \in Nat /\ mem[high].size \in Nat
  <2>1. high \in DOMAIN mem \ {0, Sentinel} /\ aft \in DOMAIN mem \ {0}
    BY Neighbours
  <2>2. /\ high > low + HEAD /\ high = low + mem[low].size + HEAD
        /\ aft > high + HEAD /\ aft = high + mem[high].size + HEAD
    BY <2>1, Neighbours
  <2> QED
    BY <2>1, <2>2, FieldTypes
<1>2. size = HEAD + mem[low].size + mem[high].size /\ size \in 0 .. WORD - 1
  <2>1. HEAD + mem[low].size + mem[high].size = aft - low - HEAD
    BY <1>1
  <2>2. aft - low - HEAD >= 0 /\ aft - low - HEAD < ARENA
    BY <1>1 DEF Sentinel
  <2> QED
    BY <1>1, <2>1, <2>2, U16Identity DEF JoinedSize
<1>3. aft = low + size + HEAD /\ size > 0
  BY <1>1, <1>2
<1>4. /\ DOMAIN x = DOMAIN mem \ {high} /\ MemTyped(x)
      /\ \A a \in DOMAIN x :
           /\ x[a].size = IF a = low THEN size ELSE mem[a].size
           /\ x[a].bsize = IF a = aft THEN size ELSE mem[a].bsize
  <2>1. DOMAIN x = DOMAIN mem \ {high}
    BY DEF Absorb
  <2>2. MemTyped(x)
    BY <1>2, AbsorbTyped
  <2>3. \A a \in DOMAIN mem : a # high =>
          /\ x[a].size = IF a = low THEN size ELSE mem[a].size
          /\ x[a].bsize = IF a = aft THEN size ELSE mem[a].bsize
    BY AbsorbFields
  <2> QED
    BY <2>1, <2>2, <2>3
<1> HIDE DEF x, size
<1>5. low \in DOMAIN x /\ aft \in DOMAIN x /\ {0, Sentinel} \subseteq DOMAIN x
  BY <1>1, <1>4 DEF Layout
<1>6. After(x, low) = aft /\ Before(x, aft) = low
  <2>1. x[low].size = size /\ x[aft].bsize = size
    BY <1>4, <1>5
  <2>2. low \in Int /\ size \in Int /\ HEAD \in Int
    BY <1>1, <1>2
  <2> QED
    BY <1>3, <2>1, <2>2 DEF After, Before
<1>7. ASSUME NEW a \in DOMAIN x, a # low
      PROVE  After(x, a) = After(mem, a)
  BY <1>4, <1>7 DEF After
<1>8. ASSUME NEW a \in DOMAIN x \ {Sentinel}, a # low
      PROVE  After(mem, a) \in DOMAIN x /\ After(mem, a) # aft
  <2>1. After(mem, a) \in DOMAIN mem
    BY <1>4, Neighbours
  <2>2. After(mem, a) # high
    BY <1>1, <1>4, <1>8, Neighbours
  <2>3. After(mem, a) # aft
    BY <1>1, <1>4, <1>8, Neighbours
  <2> QED
    BY <2>1, <2>2, <2>3, <1>4
<1>9. ForwardLinked(x)
  <2> SUFFICES ASSUME NEW a \in DOMAIN x \ {Sentinel}
               PROVE  /\ After(x, a) \in DOMAIN x
                      /\ x[After(x, a)].bsize = x[a].size
                      /\ x[a].size > 0
    BY DEF ForwardLinked
  <2>1. CASE a = low
    BY <2>1, <1>3, <1>4, <1>5, <1>6
  <2>2. CASE a # low
    <3>1. mem[After(mem, a)].bsize = mem[a].size /\ mem[a].size > 0
      BY <1>4 DEF Layout, ForwardLinked
    <3> QED
      BY <3>1, <2>2, <1>4, <1>7, <1>8
  <2> QED
    BY <2>1, <2>2
<1>10. BackwardLinked(x)
  <2> SUFFICES ASSUME NEW a \in DOMAIN x \ {0}
               PROVE  Before(x, a) \in DOMAIN x /\ After(x, Before(x, a)) = a
    BY DEF BackwardLinked
  <2>1. CASE a = aft
    BY <2>1, <1>5, <1>6
  <2>2. CASE a # aft
    <3>1. Before(x, a) = Before(mem, a)
      BY <2>2, <1>4 DEF Before
    <3>2. Before(mem, a) \in DOMAIN mem \ {Sentinel} /\ After(mem, Before(mem, a)) = a
      BY <1>4, Neighbours
    <3>3. Before(mem, a) # high /\ Before(mem, a) # low
      BY <2>2, <3>2, <1>4
    <3> QED
      BY <3>1, <3>2, <3>3, <1>4, <1>7
  <2> QED
    BY <2>1, <2>2
<1>11. Disjoint(x)
  <2> SUFFICES ASSUME NEW a \in DOMAIN x, NEW b \in DOMAIN x, a < b
               PROVE  After(x, a) <= b
    BY DEF Disjoint
  <2>1. a \in DOMAIN mem /\ b \in DOMAIN mem /\ b # high /\ a \in Int /\ b \in Int
    BY <1>4, FieldTypes
  <2>2. After(mem, a) <= b
    BY <2>1 DEF Layout, Disjoint
  <2>3. CASE a = low
    <3>1. high < b
      BY <2>1, <2>2, <2>3, <1>1
    <3> QED
      BY <3>1, <2>1, <2>3, <1>1, <1>6 DEF Layout, Disjoint
  <2> QED
    BY <2>2, <2>3, <1>7
<1>12. x[Sentinel].size = 0
  BY <1>4, <1>5 DEF Layout
<1>13. Layout(x)
  BY <1>5, <1>9, <1>10, <1>11, <1>12 DEF Layout
<1> QED
  BY <1>3, <1>4, <1>6, <1>7, <1>13 DEF x, size

-----------------------------------------------------------------------------
(* Splitting.                                                              *)

\* The sizes split() works with do not wrap, and the new header lies inside
\* the block that is split.
LEMMA SplitSizes ==
  ASSUME NEW mem, MemTyped(mem), Layout(mem),
         NEW block \in DOMAIN mem \ {Sentinel},
         NEW size \in Nat \ {0}, mem[block].size > size + HEAD
  PROVE  /\ Remaining(mem, block, size) = mem[block].size - size - HEAD
         /\ Remaining(mem, block, size) \in 0 .. WORD - 1
         /\ Remaining(mem, block, size) > 0
         /\ U16(size) = size /\ size \in 0 .. WORD - 1
         /\ SplitOff(mem, block, size) = block + Remaining(mem, block, size) + HEAD
         /\ SplitOff(mem, block, size) \in Addr \ DOMAIN mem
         /\ SplitOff(mem, block, size) + size + HEAD = After(mem, block)
         /\ block < SplitOff(mem, block, size)
         /\ SplitOff(mem, block, size) < After(mem, block)
         /\ After(mem, block) \in Addr
<1> DEFINE rsize == Remaining(mem, block, size)
           splt == SplitOff(mem, block, size)
           aft == After(mem, block)
<1> USE HeapAssumption DEF HeapAssumption
<1>1. /\ block \in Int /\ 0 <= block /\ mem[block].size \in Int
      /\ aft \in DOMAIN mem /\ aft = block + mem[block].size + HEAD
      /\ aft \in Int /\ aft <= Sentinel /\ aft \in Addr
  BY FieldTypes, Neighbours DEF MemTyped
<1>2. mem[block].size < ARENA
  BY <1>1 DEF Sentinel
<1>3. U16(size) = size /\ size \in 0 .. WORD - 1
  BY <1>1, <1>2, U16Identity
<1>4. rsize = mem[block].size - size - HEAD /\ rsize \in 0 .. WORD - 1 /\ rsize > 0
  BY <1>1, <1>2, U16Identity DEF Remaining
<1>5. splt = block + rsize + HEAD
  BY DEF SplitOff
<1> HIDE DEF rsize, splt, aft
<1>6. block < splt /\ splt < aft /\ splt + size + HEAD = aft /\ splt \in Int
  BY <1>1, <1>4, <1>5
<1>7. splt \in Addr
  BY <1>1, <1>6 DEF Addr, Sentinel
<1>8. splt \notin DOMAIN mem
  BY <1>1, <1>6 DEF Layout, Disjoint, aft
<1> QED
  BY <1>1, <1>3, <1>4, <1>5, <1>6, <1>7, <1>8 DEF rsize, splt, aft

\* What split() writes, in the blocks there were and in the new one.
LEMMA SplitFields ==
  ASSUME NEW mem, MemTyped(mem), NEW block, NEW size,
         NEW a \in DOMAIN mem, a # SplitOff(mem, block, size)
  PROVE  /\ Split(mem, block, size)[a].size =
              IF a = block THEN Remaining(mem, block, size) ELSE mem[a].size
         /\ Split(mem, block, size)[a].bsize =
              IF a = SplitOff(mem, block, size) + U16(size) + HEAD
              THEN U16(size) ELSE mem[a].bsize
         /\ Split(mem, block, size)[a].free = mem[a].free
         /\ Split(mem, block, size)[a].bfree = mem[a].bfree
         /\ Split(mem, block, size)[a].next = mem[a].next
         /\ Split(mem, block, size)[a].prev = mem[a].prev
         /\ Remaining(mem, block, size) \in 0 .. WORD - 1 /\ U16(size) \in 0 .. WORD - 1
              => Split(mem, block, size)[a] \in Header
<1> DEFINE x == Split(mem, block, size)
           rsize == Remaining(mem, block, size)
           aft == SplitOff(mem, block, size) + U16(size) + HEAD
           ss == IF a = block THEN rsize ELSE mem[a].size
           bb == IF a = aft THEN U16(size) ELSE mem[a].bsize
<1>1. mem[a] \in Header
  BY FieldTypes
<1>2. x[a] = [mem[a] EXCEPT !.size = ss, !.bsize = bb]
  BY DEF Split
<1>3. rsize \in 0 .. WORD - 1 /\ U16(size) \in 0 .. WORD - 1
        => ss \in 0 .. WORD - 1 /\ bb \in 0 .. WORD - 1
  BY FieldTypes
<1> HIDE DEF ss, bb, x, rsize, aft
<1>4. /\ x[a].size = ss /\ x[a].bsize = bb
      /\ x[a].free = mem[a].free /\ x[a].bfree = mem[a].bfree
      /\ x[a].next = mem[a].next /\ x[a].prev = mem[a].prev
  BY <1>1, <1>2 DEF Header
<1>5. rsize \in 0 .. WORD - 1 /\ U16(size) \in 0 .. WORD - 1 => x[a] \in Header
  BY <1>1, <1>2, <1>3 DEF Header
<1> QED
  BY <1>4, <1>5 DEF ss, bb, x, rsize, aft

LEMMA SplitNew ==
  ASSUME NEW mem, MemTyped(mem), NEW block \in DOMAIN mem, NEW size
  PROVE  /\ DOMAIN Split(mem, block, size) =
              DOMAIN mem \cup {SplitOff(mem, block, size)}
         /\ Split(mem, block, size)[SplitOff(mem, block, size)] =
              [bfree |-> mem[block].free, bsize |-> Remaining(mem, block, size),
               free |-> FALSE, size |-> U16(size), next |-> JUNK, prev |-> JUNK]
  BY DEF Split

\* After a split the two halves tile what was one block.
LEMMA SplitLayout ==
  ASSUME NEW mem, MemTyped(mem), Layout(mem),
         NEW block \in DOMAIN mem \ {Sentinel},
         NEW size \in Nat \ {0}, mem[block].size > size + HEAD
  PROVE  /\ MemTyped(Split(mem, block, size))
         /\ Layout(Split(mem, block, size))
         /\ After(Split(mem, block, size), block) = SplitOff(mem, block, size)
         /\ After(Split(mem, block, size), SplitOff(mem, block, size)) = After(mem, block)
         /\ \A a \in DOMAIN mem : a # block =>
              After(Split(mem, block, size), a) = After(mem, a)
<1> DEFINE x == Split(mem, block, size)
           rsize == Remaining(mem, block, size)
           splt == SplitOff(mem, block, size)
           aft == After(mem, block)
<1> USE HeapAssumption DEF HeapAssumption
<1>1. /\ rsize \in 0 .. WORD - 1 /\ rsize > 0
      /\ U16(size) = size /\ size \in 0 .. WORD - 1
      /\ splt = block + rsize + HEAD
      /\ splt \in Addr /\ splt \notin DOMAIN mem /\ splt \in Int
      /\ splt + size + HEAD = aft
      /\ block < splt /\ splt < aft /\ aft \in Addr
  BY SplitSizes DEF Addr
<1>2. /\ aft \in DOMAIN mem \ {0} /\ block \in Int /\ 0 <= block /\ aft \in Int
  BY Neighbours, FieldTypes
<1>3. /\ DOMAIN x = DOMAIN mem \cup {splt}
      /\ x[splt] = [bfree |-> mem[block].free, bsize |-> rsize, free |-> FALSE,
                    size |-> size, next |-> JUNK, prev |-> JUNK]
  BY <1>1, SplitNew
<1>4. \A a \in DOMAIN mem :
        /\ x[a].size = IF a = block THEN rsize ELSE mem[a].size
        /\ x[a].bsize = IF a = aft THEN size ELSE mem[a].bsize
        /\ x[a] \in Header
  BY <1>1, SplitFields
<1>5. x = [a \in DOMAIN x |-> x[a]]
  BY DEF Split
<1> HIDE DEF x, rsize, splt, aft
<1>6. mem[block].free \in BOOLEAN
  BY FieldTypes
<1>7. x[splt] \in Header
  BY <1>1, <1>3, <1>6 DEF Header, Link
<1>8. MemTyped(x)
  BY <1>1, <1>3, <1>4, <1>5, <1>7 DEF MemTyped
<1>9. x[splt].size = size /\ x[splt].bsize = rsize
  BY <1>3
<1>10. /\ After(x, block) = splt /\ After(x, splt) = aft
       /\ Before(x, splt) = block /\ Before(x, aft) = splt
  BY <1>1, <1>2, <1>4, <1>9 DEF After, Before
<1>11. \A a \in DOMAIN mem : a # block => After(x, a) = After(mem, a)
  BY <1>4 DEF After
<1>12. \A a \in DOMAIN mem \ {Sentinel} : a # block => After(mem, a) # aft
  BY Neighbours DEF aft
<1>13. ForwardLinked(x)
  <2> SUFFICES ASSUME NEW a \in DOMAIN x \ {Sentinel}
               PROVE  /\ After(x, a) \in DOMAIN x
                      /\ x[After(x, a)].bsize = x[a].size
                      /\ x[a].size > 0
    BY DEF ForwardLinked
  <2>1. CASE a = block
    BY <2>1, <1>1, <1>3, <1>4, <1>9, <1>10
  <2>2. CASE a = splt
    BY <2>2, <1>1, <1>2, <1>3, <1>4, <1>9, <1>10
  <2>3. CASE a # block /\ a # splt
    <3>1. a \in DOMAIN mem \ {Sentinel}
      BY <2>3, <1>3
    <3>2. /\ After(mem, a) \in DOMAIN mem
          /\ mem[After(mem, a)].bsize = mem[a].size /\ mem[a].size > 0
      BY <3>1 DEF Layout, ForwardLinked
    <3> QED
      BY <3>1, <3>2, <2>3, <1>3, <1>4, <1>11, <1>12
  <2> QED
    BY <2>1, <2>2, <2>3
<1>14. BackwardLinked(x)
  <2> SUFFICES ASSUME NEW a \in DOMAIN x \ {0}
               PROVE  Before(x, a) \in DOMAIN x /\ After(x, Before(x, a)) = a
    BY DEF BackwardLinked
  <2>1. CASE a = aft \/ a = splt
    BY <2>1, <1>3, <1>10
  <2>2. CASE a # aft /\ a # splt
    <3>1. a \in DOMAIN mem \ {0} /\ Before(x, a) = Before(mem, a)
      BY <2>2, <1>3, <1>4 DEF Before
    <3>2. Before(mem, a) \in DOMAIN mem /\ After(mem, Before(mem, a)) = a
      BY <3>1, Neighbours
    <3>3. Before(mem, a) # block
      BY <3>2, <2>2 DEF aft
    <3> QED
      BY <3>1, <3>2, <3>3, <1>3, <1>11
  <2> QED
    BY <2>1, <2>2
<1>15. Disjoint(x)
  <2> SUFFICES ASSUME NEW a \in DOMAIN x, NEW b \in DOMAIN x, a < b
               PROVE  After(x, a) <= b
    BY DEF Disjoint
  <2>1. a \in Int /\ b \in Int
    BY <1>8, FieldTypes
  <2>2. \A c, e \in DOMAIN mem : c < e => After(mem, c) <= e
    BY DEF Layout, Disjoint
  <2>3. \A c \in DOMAIN mem : c \in Int /\ After(mem, c) \in Int
    BY FieldTypes DEF After
  <2>4. CASE a = splt
    <3>1. b \in DOMAIN mem /\ block < b
      BY <2>1, <2>4, <1>1, <1>2, <1>3
    <3> QED
      BY <3>1, <2>2, <2>4, <1>10 DEF aft
  <2>5. CASE a # splt /\ b = splt
    <3>1. a \in DOMAIN mem /\ a < aft
      BY <2>1, <2>5, <1>1, <1>2, <1>3
    <3>2. CASE a = block
      BY <3>2, <2>5, <2>1, <1>10
    <3>3. CASE a # block
      <4>1. a < block
        BY <3>1, <3>3, <2>1, <2>2, <2>5, <1>1, <1>2 DEF aft
      <4> QED
        BY <4>1, <3>1, <3>3, <2>1, <2>2, <2>3, <2>5, <1>1, <1>2, <1>11
    <3> QED
      BY <3>2, <3>3
  <2>6. CASE a # splt /\ b # splt
    <3>1. a \in DOMAIN mem /\ b \in DOMAIN mem
      BY <2>6, <1>3
    <3>2. CASE a = block
      BY <3>1, <3>2, <2>1, <2>2, <2>3, <1>1, <1>2, <1>10 DEF aft
    <3>3. CASE a # block
      BY <3>1, <3>3, <2>2, <1>11
    <3> QED
      BY <3>2, <3>3
  <2> QED
    BY <2>4, <2>5, <2>6
<1>16. {0, Sentinel} \subseteq DOMAIN x /\ x[Sentinel].size = 0
  BY <1>3, <1>4 DEF Layout
<1>17. Layout(x)
  BY <1>13, <1>14, <1>15, <1>16 DEF Layout
<1> QED
  BY <1>8, <1>10, <1>11, <1>17 DEF x, splt, aft

-----------------------------------------------------------------------------
(* Status flags.                                                           *)

\* What find() and dfree() write when a block changes hands.
LEMMA MarkFields ==
  ASSUME NEW mem, MemTyped(mem), NEW block, NEW free \in BOOLEAN,
         NEW a \in DOMAIN mem
  PROVE  /\ Mark(mem, block, free)[a] \in Header
         /\ Mark(mem, block, free)[a].size = mem[a].size
         /\ Mark(mem, block, free)[a].bsize = mem[a].bsize
         /\ Mark(mem, block, free)[a].next = mem[a].next
         /\ Mark(mem, block, free)[a].prev = mem[a].prev
         /\ Mark(mem, block, free)[a].free =
              IF a = block THEN free ELSE mem[a].free
         /\ Mark(mem, block, free)[a].bfree =
              IF a = After(mem, block) THEN free ELSE mem[a].bfree
<1> DEFINE x == Mark(mem, block, free)
           ff == IF a = block THEN free ELSE mem[a].free
           bb == IF a = After(mem, block) THEN free ELSE mem[a].bfree
<1>1. mem[a] \in Header /\ ff \in BOOLEAN /\ bb \in BOOLEAN
  BY FieldTypes
<1>2. x[a] = [mem[a] EXCEPT !.free = ff, !.bfree = bb]
  BY DEF Mark
<1> HIDE DEF x, ff, bb
<1>3. x[a] \in Header
  BY <1>1, <1>2 DEF Header
<1>4. /\ x[a].size = mem[a].size /\ x[a].bsize = mem[a].bsize
      /\ x[a].next = mem[a].next /\ x[a].prev = mem[a].prev
      /\ x[a].free = ff /\ x[a].bfree = bb
  BY <1>1, <1>2 DEF Header
<1> QED
  BY <1>3, <1>4 DEF x, ff, bb

LEMMA MarkTyped ==
  ASSUME NEW mem, MemTyped(mem), NEW block, NEW free \in BOOLEAN
  PROVE  DOMAIN Mark(mem, block, free) = DOMAIN mem /\ MemTyped(Mark(mem, block, free))
<1> DEFINE x == Mark(mem, block, free)
<1>1. DOMAIN x = DOMAIN mem /\ x = [a \in DOMAIN x |-> x[a]]
  BY DEF Mark
<1>2. \A a \in DOMAIN mem : x[a] \in Header
  BY MarkFields
<1> HIDE DEF x
<1>3. MemTyped(x)
  BY <1>1, <1>2 DEF MemTyped
<1> QED
  BY <1>1, <1>3 DEF x

\* What find() writes behind a block it has split off.
LEMMA MarkSplitFields ==
  ASSUME NEW mem, MemTyped(mem), NEW splt, NEW a \in DOMAIN mem
  PROVE  /\ MarkSplit(mem, splt)[a] \in Header
         /\ MarkSplit(mem, splt)[a].size = mem[a].size
         /\ MarkSplit(mem, splt)[a].bsize = mem[a].bsize
         /\ MarkSplit(mem, splt)[a].next = mem[a].next
         /\ MarkSplit(mem, splt)[a].prev = mem[a].prev
         /\ a = After(mem, splt) =>
              ~MarkSplit(mem, splt)[a].free /\ ~MarkSplit(mem, splt)[a].bfree
         /\ a # After(mem, splt) =>
              /\ MarkSplit(mem, splt)[a].free = mem[a].free
              /\ MarkSplit(mem, splt)[a].bfree = mem[a].bfree
<1> DEFINE x == MarkSplit(mem, splt)
           ff == IF a = After(mem, splt) THEN FALSE ELSE mem[a].free
           bb == IF a = After(mem, splt) THEN FALSE ELSE mem[a].bfree
<1>1. mem[a] \in Header /\ ff \in BOOLEAN /\ bb \in BOOLEAN
  BY FieldTypes
<1>2. x[a] = [mem[a] EXCEPT !.free = ff, !.bfree = bb]
  BY <1>1 DEF MarkSplit, Header
<1> HIDE DEF x, ff, bb
<1>3. x[a] \in Header
  BY <1>1, <1>2 DEF Header
<1>4. /\ x[a].size = mem[a].size /\ x[a].bsize = mem[a].bsize
      /\ x[a].next = mem[a].next /\ x[a].prev = mem[a].prev
      /\ x[a].free = ff /\ x[a].bfree = bb
  BY <1>1, <1>2 DEF Header
<1> QED
  BY <1>3, <1>4 DEF x, ff, bb

LEMMA MarkSplitTyped ==
  ASSUME NEW mem, MemTyped(mem), NEW splt
  PROVE  DOMAIN MarkSplit(mem, splt) = DOMAIN mem /\ MemTyped(MarkSplit(mem, splt))
<1> DEFINE x == MarkSplit(mem, splt)
<1>1. DOMAIN x = DOMAIN mem /\ x = [a \in DOMAIN x |-> x[a]]
  BY DEF MarkSplit, MemTyped
<1>2. \A a \in DOMAIN mem : x[a] \in Header
  BY MarkSplitFields
<1> HIDE DEF x
<1>3. MemTyped(x)
  BY <1>1, <1>2 DEF MemTyped
<1> QED
  BY <1>1, <1>3 DEF x

-----------------------------------------------------------------------------
(***************************************************************************)
(* The operations of the allocator on a heap, TakeTail, TakeWhole and      *)
(* GiveBack: each keeps a well-formed heap well formed; and what it does   *)
(* to the set of blocks.                                                   *)
(***************************************************************************)
\* Two memories with the same blocks of the same sizes have the same layout.
SameSizes(m, n) ==
  /\ DOMAIN n = DOMAIN m
  /\ \A a \in DOMAIN m : n[a].size = m[a].size /\ n[a].bsize = m[a].bsize

LEMMA SameSizesLayout ==
  ASSUME NEW m, NEW n, SameSizes(m, n), Layout(m)
  PROVE  /\ Layout(n)
         /\ \A a \in DOMAIN m : After(n, a) = After(m, a)
<1>1. \A a \in DOMAIN m : After(n, a) = After(m, a) /\ Before(n, a) = Before(m, a)
  BY DEF SameSizes, After, Before
<1>2. DOMAIN n = DOMAIN m /\ {0, Sentinel} \subseteq DOMAIN m
  BY DEF SameSizes, Layout
<1>3. ForwardLinked(n)
  BY <1>1, <1>2 DEF Layout, ForwardLinked, SameSizes
<1>4. BackwardLinked(n)
  BY <1>1, <1>2 DEF Layout, BackwardLinked
<1>5. Disjoint(n)
  BY <1>1, <1>2 DEF Layout, Disjoint
<1> QED
  BY <1>1, <1>2, <1>3, <1>4, <1>5 DEF Layout, SameSizes

\* A listed block can be detached: its links are null or blocks.
LEMMA DetachListed ==
  ASSUME NEW h, HeapTyped(h), Layout(h.mem), NEW L, Linked(h, L), NEW block \in L
  PROVE  /\ block \in DOMAIN h.mem
         /\ HeapTyped(Detach(h, block))
         /\ SameTags(h.mem, Detach(h, block).mem)
         /\ DOMAIN Detach(h, block).mem = DOMAIN h.mem
         /\ Layout(Detach(h, block).mem)
         /\ \A a \in DOMAIN h.mem : After(Detach(h, block).mem, a) = After(h.mem, a)
         /\ Linked(Detach(h, block), L \ {block})
<1>1. L \subseteq DOMAIN h.mem /\ DOMAIN h.mem \subseteq Addr
  BY DEF Linked, DoublyLinked, HeapTyped, MemTyped
<1>2. JUNK \notin Addr /\ JUNK # NULL
  BY HeapAssumption DEF HeapAssumption, Addr
<1>3. h.mem[block].next # JUNK /\ h.mem[block].prev # JUNK
  BY <1>1, <1>2 DEF Linked, DoublyLinked
<1>4. HeapTyped(Detach(h, block)) /\ SameTags(h.mem, Detach(h, block).mem)
  BY <1>1, <1>3, DetachTags
<1>5. Linked(Detach(h, block), L \ {block})
  BY DetachLinked
<1> QED
  BY <1>1, <1>4, <1>5, SameTagsLayout DEF SameTags

\* Replacing the memory of a heap.
LEMMA WithMem ==
  ASSUME NEW h, HeapTyped(h), NEW m, MemTyped(m)
  PROVE  /\ HeapTyped([h EXCEPT !.mem = m])
         /\ [h EXCEPT !.mem = m].mem = m
         /\ [h EXCEPT !.mem = m].flist = h.flist
<1>1. h = [mem |-> h.mem, flist |-> h.flist]
  BY DEF HeapTyped
<1>2. [h EXCEPT !.mem = m] = [mem |-> m, flist |-> h.flist]
  BY <1>1
<1> QED
  BY <1>2 DEF HeapTyped

-----------------------------------------------------------------------------
(* A whole block is handed out.                                            *)

\* A well-formed heap but for free neighbours: the allocators that never merge
\* have those.
Sound(h) ==
  /\ HeapTyped(h)
  /\ Layout(h.mem)
  /\ Flags(h.mem)
  /\ Linked(h, FreeBlocks(h.mem))

LEMMA SoundIs ==
  ASSUME NEW h PROVE WellFormed(h) <=> Sound(h) /\ Coalesced(h.mem)
BY DEF WellFormed, Sound

LEMMA TakeWholeSound ==
  ASSUME NEW h, Sound(h), NEW block \in FreeBlocks(h.mem)
  PROVE  /\ Sound(TakeWhole(h, block))
         /\ Coalesced(h.mem) => Coalesced(TakeWhole(h, block).mem)
         /\ DOMAIN TakeWhole(h, block).mem = DOMAIN h.mem
         /\ FreeBlocks(TakeWhole(h, block).mem) = FreeBlocks(h.mem) \ {block}
         /\ \A a \in DOMAIN h.mem : TakeWhole(h, block).mem[a].size = h.mem[a].size
         /\ block # Sentinel
<1> DEFINE d == Detach(h, block)
           x == Mark(d.mem, block, FALSE)
           g == TakeWhole(h, block)
           aft == After(h.mem, block)
<1>1. /\ HeapTyped(h) /\ Layout(h.mem) /\ Flags(h.mem)
      /\ Linked(h, FreeBlocks(h.mem)) /\ MemTyped(h.mem)
  BY DEF Sound, HeapTyped
<1>2. /\ block \in DOMAIN h.mem /\ HeapTyped(d) /\ SameTags(h.mem, d.mem)
      /\ Layout(d.mem) /\ MemTyped(d.mem)
      /\ \A a \in DOMAIN h.mem : After(d.mem, a) = After(h.mem, a)
      /\ Linked(d, FreeBlocks(h.mem) \ {block})
  BY <1>1, DetachListed DEF HeapTyped
<1>3. block # Sentinel /\ h.mem[block].free
  BY <1>1 DEF Flags, FreeBlocks
<1>4. g = [d EXCEPT !.mem = x]
  BY DEF TakeWhole
<1>5. DOMAIN x = DOMAIN d.mem /\ MemTyped(x) /\ DOMAIN d.mem = DOMAIN h.mem
  BY <1>2, MarkTyped DEF SameTags
<1> HIDE DEF d, x, g, aft
<1>6. g.mem = x /\ g.flist = d.flist /\ HeapTyped(g)
  BY <1>2, <1>4, <1>5, WithMem
<1>7. ASSUME NEW a \in DOMAIN h.mem
      PROVE  /\ x[a].size = h.mem[a].size /\ x[a].bsize = h.mem[a].bsize
             /\ x[a].next = d.mem[a].next /\ x[a].prev = d.mem[a].prev
             /\ x[a].free = IF a = block THEN FALSE ELSE h.mem[a].free
             /\ x[a].bfree = IF a = aft THEN FALSE ELSE h.mem[a].bfree
  <2>1. /\ a \in DOMAIN d.mem /\ After(d.mem, block) = aft
        /\ d.mem[a].size = h.mem[a].size /\ d.mem[a].bsize = h.mem[a].bsize
        /\ d.mem[a].free = h.mem[a].free /\ d.mem[a].bfree = h.mem[a].bfree
    BY <1>2, <1>5 DEF SameTags, aft
  <2>2. /\ x[a].size = d.mem[a].size /\ x[a].bsize = d.mem[a].bsize
        /\ x[a].next = d.mem[a].next /\ x[a].prev = d.mem[a].prev
        /\ x[a].free = IF a = block THEN FALSE ELSE d.mem[a].free
        /\ x[a].bfree = IF a = After(d.mem, block) THEN FALSE ELSE d.mem[a].bfree
    <3> DEFINE f == FALSE
    <3>1. x = Mark(d.mem, block, f) /\ f \in BOOLEAN
      BY DEF x
    <3> HIDE DEF f
    <3>2. /\ x[a].size = d.mem[a].size /\ x[a].bsize = d.mem[a].bsize
          /\ x[a].next = d.mem[a].next /\ x[a].prev = d.mem[a].prev
          /\ x[a].free = IF a = block THEN f ELSE d.mem[a].free
          /\ x[a].bfree = IF a = After(d.mem, block) THEN f ELSE d.mem[a].bfree
      BY <1>2, <2>1, <3>1, MarkFields
    <3> QED
      BY <3>2 DEF f
  <2> QED
    BY <2>1, <2>2
<1>8. SameSizes(h.mem, x)
  BY <1>5, <1>7 DEF SameSizes
<1>9. Layout(x) /\ \A a \in DOMAIN h.mem : After(x, a) = After(h.mem, a)
  BY <1>1, <1>8, SameSizesLayout
<1>10. FreeBlocks(x) = FreeBlocks(h.mem) \ {block}
  BY <1>5, <1>7 DEF FreeBlocks
<1>11. Flags(x)
  <2>1. ASSUME NEW a \in DOMAIN x \ {Sentinel}
        PROVE  x[After(x, a)].bfree = x[a].free
    <3>1. After(h.mem, a) \in DOMAIN h.mem /\ h.mem[After(h.mem, a)].bfree = h.mem[a].free
      BY <1>1, <1>5, Neighbours DEF Flags
    <3>2. After(h.mem, a) = aft <=> a = block
      BY <1>1, <1>2, <1>3, <1>5, Neighbours DEF aft
    <3> QED
      BY <3>1, <3>2, <1>5, <1>7, <1>9
  <2>2. ~x[0].bfree /\ ~x[Sentinel].free
    BY <1>1, <1>7 DEF Flags, Layout
  <2> QED
    BY <2>1, <2>2 DEF Flags
<1>12. Coalesced(h.mem) => Coalesced(x)
  BY <1>1, <1>5, <1>7 DEF Coalesced
<1>13. Linked(g, FreeBlocks(x))
  <2>1. SameLinks(d.mem, g.mem, FreeBlocks(x))
    BY <1>6, <1>7, <1>10 DEF SameLinks, FreeBlocks
  <2>2. FreeBlocks(x) \subseteq DOMAIN g.mem
    BY <1>6 DEF FreeBlocks
  <2> QED
    BY <2>1, <2>2, <1>2, <1>6, <1>10, LinkedFrame
<1>14. Sound(g)
  BY <1>6, <1>9, <1>11, <1>13 DEF Sound
<1> QED
  BY <1>3, <1>5, <1>6, <1>7, <1>10, <1>12, <1>14 DEF g

LEMMA TakeWholeHeap ==
  ASSUME NEW h, WellFormed(h), NEW block \in FreeBlocks(h.mem)
  PROVE  /\ WellFormed(TakeWhole(h, block))
         /\ DOMAIN TakeWhole(h, block).mem = DOMAIN h.mem
         /\ FreeBlocks(TakeWhole(h, block).mem) = FreeBlocks(h.mem) \ {block}
         /\ \A a \in DOMAIN h.mem : TakeWhole(h, block).mem[a].size = h.mem[a].size
         /\ block # Sentinel
BY TakeWholeSound, SoundIs

-----------------------------------------------------------------------------
(* The tail of a block is handed out.                                      *)

\* The block shrinks, its tail gets a header, and it is listed again.
Shrink(h, block, size) ==
  Insert([Detach(h, block) EXCEPT !.mem = Split(@, block, size)], block)

\* What is known of it: i is the heap, splt its new block and aft the block
\* behind that.
Shrunk(h, block, size, i, splt, aft) ==
  /\ HeapTyped(i) /\ MemTyped(i.mem) /\ Layout(i.mem)
  /\ Linked(i, FreeBlocks(h.mem))
  /\ splt \in Addr \ DOMAIN h.mem /\ splt # Sentinel
  /\ DOMAIN i.mem = DOMAIN h.mem \cup {splt}
  /\ i.mem[splt].size = size /\ i.mem[splt].free = FALSE /\ i.mem[splt].bfree = TRUE
  /\ \A a \in DOMAIN h.mem :
       /\ a # block => i.mem[a].size = h.mem[a].size
       /\ i.mem[a].free = h.mem[a].free /\ i.mem[a].bfree = h.mem[a].bfree
  /\ After(i.mem, block) = splt /\ After(i.mem, splt) = aft
  /\ \A a \in DOMAIN h.mem : a # block => After(i.mem, a) = After(h.mem, a)
  /\ block \in DOMAIN h.mem \ {Sentinel} /\ h.mem[block].free = TRUE
  /\ aft \in DOMAIN h.mem /\ h.mem[aft].bfree = TRUE

LEMMA ShrinkHeap ==
  ASSUME NEW h, Sound(h), NEW block \in FreeBlocks(h.mem),
         NEW size \in Nat \ {0}, h.mem[block].size >= LIMIT(size)
  PROVE  Shrunk(h, block, size, Shrink(h, block, size), SplitOff(h.mem, block, size),
                After(h.mem, block))
<1> DEFINE d == Detach(h, block)
           s == Split(d.mem, block, size)
           e == [d EXCEPT !.mem = s]
           i == Insert(e, block)
           splt == SplitOff(h.mem, block, size)
           aft == After(h.mem, block)
           F == FreeBlocks(h.mem)
<1>1. /\ HeapTyped(h) /\ Layout(h.mem) /\ Flags(h.mem)
      /\ Linked(h, F) /\ MemTyped(h.mem)
  BY DEF Sound, HeapTyped
<1>2. /\ block \in DOMAIN h.mem /\ HeapTyped(d) /\ SameTags(h.mem, d.mem)
      /\ Layout(d.mem) /\ MemTyped(d.mem) /\ DOMAIN d.mem = DOMAIN h.mem
      /\ \A a \in DOMAIN h.mem : After(d.mem, a) = After(h.mem, a)
      /\ Linked(d, F \ {block})
  <2> HIDE DEF F
  <2>1. /\ block \in DOMAIN h.mem /\ HeapTyped(d) /\ SameTags(h.mem, d.mem)
        /\ Layout(d.mem) /\ DOMAIN d.mem = DOMAIN h.mem
        /\ Linked(d, F \ {block})
    BY <1>1, DetachListed DEF F
  <2>2. \A a \in DOMAIN h.mem : After(d.mem, a) = After(h.mem, a)
    BY <1>1, <2>1, SameTagsLayout
  <2> QED
    BY <2>1, <2>2 DEF HeapTyped
<1>3. block # Sentinel /\ h.mem[block].free
  BY <1>1 DEF Flags, FreeBlocks
<1>4. d.mem[block].size = h.mem[block].size /\ d.mem[block].free = h.mem[block].free
  BY <1>2 DEF SameTags
<1>5. d.mem[block].size > size + HEAD
  <2>1. MIN(0) > 0 /\ MIN(0) \in Int /\ HEAD \in Int
    BY HeapAssumption DEF HeapAssumption, MIN
  <2>2. h.mem[block].size \in Int
    BY <1>1, <1>2, FieldTypes
  <2> QED
    BY <2>1, <2>2, <1>4 DEF LIMIT
<1>6. SplitOff(d.mem, block, size) = splt
  BY <1>4 DEF SplitOff, Remaining
<1>7. /\ splt \in Addr /\ splt \notin DOMAIN h.mem /\ U16(size) = size
      /\ Remaining(d.mem, block, size) \in 0 .. WORD - 1 /\ size \in 0 .. WORD - 1
      /\ splt + size + HEAD = aft
  BY <1>2, <1>3, <1>5, <1>6, SplitSizes
<1>8. /\ MemTyped(s) /\ Layout(s)
      /\ After(s, block) = splt /\ After(s, splt) = aft
      /\ \A a \in DOMAIN h.mem : a # block => After(s, a) = After(h.mem, a)
  <2>1. /\ MemTyped(s) /\ Layout(s)
        /\ After(s, block) = SplitOff(d.mem, block, size)
        /\ After(s, SplitOff(d.mem, block, size)) = After(d.mem, block)
        /\ \A a \in DOMAIN d.mem : a # block => After(s, a) = After(d.mem, a)
    BY <1>2, <1>3, <1>5, SplitLayout
  <2> HIDE DEF d, s, splt
  <2> QED
    BY <2>1, <1>2, <1>6
<1>9. /\ DOMAIN s = DOMAIN h.mem \cup {splt}
      /\ s[splt].size = size /\ s[splt].free = FALSE
      /\ s[splt].bfree = h.mem[block].free
  <2>1. DOMAIN s = DOMAIN d.mem \cup {SplitOff(d.mem, block, size)}
    BY DEF Split
  <2>2. s[SplitOff(d.mem, block, size)] =
          [bfree |-> d.mem[block].free, bsize |-> Remaining(d.mem, block, size),
           free |-> FALSE, size |-> U16(size), next |-> JUNK, prev |-> JUNK]
    BY <1>2, SplitNew
  <2> HIDE DEF s, splt, d
  <2> QED
    BY <2>1, <2>2, <1>2, <1>4, <1>6, <1>7
<1>10. ASSUME NEW a \in DOMAIN h.mem
       PROVE  /\ a # block => s[a].size = h.mem[a].size
              /\ s[a].free = h.mem[a].free /\ s[a].bfree = h.mem[a].bfree
              /\ s[a].next = d.mem[a].next /\ s[a].prev = d.mem[a].prev
  <2>1. /\ a # block => s[a].size = d.mem[a].size
        /\ s[a].free = d.mem[a].free /\ s[a].bfree = d.mem[a].bfree
        /\ s[a].next = d.mem[a].next /\ s[a].prev = d.mem[a].prev
    BY <1>2, <1>6, <1>7, SplitFields
  <2> QED
    BY <2>1, <1>2 DEF SameTags
<1>11. i = Shrink(h, block, size)
  BY DEF Shrink
<1> HIDE DEF d, s, splt, aft
<1>12. e.mem = s /\ e.flist = d.flist /\ HeapTyped(e)
  BY <1>2, <1>8, WithMem
<1> HIDE DEF e
<1>13. Linked(e, F \ {block})
  <2>1. F \ {block} \subseteq DOMAIN e.mem
    BY <1>9, <1>12 DEF FreeBlocks
  <2>2. SameLinks(d.mem, e.mem, F \ {block})
    BY <1>10, <1>12 DEF SameLinks, FreeBlocks
  <2> QED
    BY <2>1, <2>2, <1>2, <1>12, LinkedFrame
<1>14. /\ HeapTyped(i) /\ SameTags(s, i.mem) /\ MemTyped(i.mem)
       /\ DOMAIN i.mem = DOMAIN s
  BY <1>2, <1>9, <1>12, InsertTags DEF SameTags, HeapTyped
<1>15. Linked(i, F)
  <2>1. Linked(i, (F \ {block}) \cup {block})
    BY <1>2, <1>9, <1>12, <1>13, InsertLinked
  <2>2. (F \ {block}) \cup {block} = F
    OBVIOUS
  <2> QED
    BY <2>1, <2>2
<1> HIDE DEF i
<1>16. Layout(i.mem) /\ \A a \in DOMAIN s : After(i.mem, a) = After(s, a)
  BY <1>8, <1>9, <1>14, SameTagsLayout
<1>17. h.mem[block].free = TRUE /\ aft \in DOMAIN h.mem /\ h.mem[aft].bfree = TRUE
  <2>1. aft \in DOMAIN h.mem /\ h.mem[aft].bfree = h.mem[block].free
    BY <1>1, <1>2, <1>3, Neighbours DEF Flags, aft
  <2>2. h.mem[block].free \in BOOLEAN
    BY <1>1, <1>2, FieldTypes
  <2> QED
    BY <2>1, <2>2, <1>3
<1>18. splt # Sentinel
  BY <1>1, <1>7 DEF Layout
<1>19. /\ i.mem[splt].size = size
       /\ i.mem[splt].free = FALSE /\ i.mem[splt].bfree = TRUE
  BY <1>9, <1>14, <1>17 DEF SameTags
<1>20. \A a \in DOMAIN h.mem :
         /\ a # block => i.mem[a].size = h.mem[a].size
         /\ i.mem[a].free = h.mem[a].free /\ i.mem[a].bfree = h.mem[a].bfree
  BY <1>9, <1>10, <1>14 DEF SameTags
<1>21. /\ After(i.mem, block) = splt /\ After(i.mem, splt) = aft
       /\ \A a \in DOMAIN h.mem : a # block => After(i.mem, a) = After(h.mem, a)
  BY <1>2, <1>8, <1>9, <1>16
<1> QED
  BY <1>2, <1>3, <1>7, <1>9, <1>11, <1>14, <1>15, <1>16, <1>17, <1>18, <1>19, <1>20, <1>21
     DEF Shrunk, aft, splt, F

LEMMA TakeTailHeap ==
  ASSUME NEW h, WellFormed(h), NEW block \in FreeBlocks(h.mem),
         NEW size \in Nat \ {0}, h.mem[block].size >= LIMIT(size)
  PROVE  /\ WellFormed(TakeTail(h, block, size))
         /\ SplitOff(h.mem, block, size) \in Addr \ DOMAIN h.mem
         /\ SplitOff(h.mem, block, size) # Sentinel
         /\ DOMAIN TakeTail(h, block, size).mem =
              DOMAIN h.mem \cup {SplitOff(h.mem, block, size)}
         /\ FreeBlocks(TakeTail(h, block, size).mem) = FreeBlocks(h.mem)
         /\ \A a \in DOMAIN h.mem : a # block =>
              TakeTail(h, block, size).mem[a].size = h.mem[a].size
         /\ TakeTail(h, block, size).mem[SplitOff(h.mem, block, size)].size = size
<1> DEFINE i == Shrink(h, block, size)
           splt == SplitOff(h.mem, block, size)
           x == MarkSplit(i.mem, splt)
           g == TakeTail(h, block, size)
           aft == After(h.mem, block)
           F == FreeBlocks(h.mem)
<1>1. Sound(h) /\ HeapTyped(h) /\ MemTyped(h.mem) /\ Layout(h.mem) /\ Flags(h.mem)
      /\ Coalesced(h.mem)
  BY DEF WellFormed, Sound, HeapTyped
<1>2. Shrunk(h, block, size, i, splt, aft)
  BY <1>1, ShrinkHeap
<1>3. g = [i EXCEPT !.mem = x]
  BY DEF TakeTail, Shrink
<1> HIDE DEF i, splt, aft
<1>4. /\ HeapTyped(i) /\ MemTyped(i.mem) /\ Layout(i.mem) /\ Linked(i, F)
      /\ splt \in Addr \ DOMAIN h.mem /\ splt # Sentinel
      /\ DOMAIN i.mem = DOMAIN h.mem \cup {splt}
      /\ i.mem[splt].size = size /\ i.mem[splt].free = FALSE /\ i.mem[splt].bfree = TRUE
      /\ block \in DOMAIN h.mem \ {Sentinel} /\ h.mem[block].free = TRUE
      /\ aft \in DOMAIN h.mem /\ h.mem[aft].bfree = TRUE
  BY <1>2 DEF Shrunk
<1>5. /\ \A a \in DOMAIN h.mem :
           /\ a # block => i.mem[a].size = h.mem[a].size
           /\ i.mem[a].free = h.mem[a].free /\ i.mem[a].bfree = h.mem[a].bfree
      /\ After(i.mem, block) = splt /\ After(i.mem, splt) = aft
      /\ \A a \in DOMAIN h.mem : a # block => After(i.mem, a) = After(h.mem, a)
  BY <1>2 DEF Shrunk
<1>6. DOMAIN x = DOMAIN i.mem /\ MemTyped(x)
  BY <1>4, MarkSplitTyped
<1>7. ASSUME NEW a \in DOMAIN i.mem
       PROVE  /\ x[a].size = i.mem[a].size /\ x[a].bsize = i.mem[a].bsize
              /\ x[a].next = i.mem[a].next /\ x[a].prev = i.mem[a].prev
              /\ a = aft => ~x[a].free /\ ~x[a].bfree
              /\ a # aft => x[a].free = i.mem[a].free /\ x[a].bfree = i.mem[a].bfree
  BY <1>4, <1>5, MarkSplitFields
<1> HIDE DEF x, g
<1>8. g.mem = x /\ g.flist = i.flist /\ HeapTyped(g)
  BY <1>4, <1>3, <1>6, WithMem
<1>9. Layout(x) /\ \A a \in DOMAIN i.mem : After(x, a) = After(i.mem, a)
  <2>1. SameSizes(i.mem, x)
    BY <1>6, <1>7 DEF SameSizes
  <2> QED
    BY <2>1, <1>4, SameSizesLayout
<1>10. ~h.mem[aft].free /\ aft # splt
  BY <1>1, <1>4 DEF Coalesced
<1>11. ASSUME NEW a \in DOMAIN h.mem
       PROVE  /\ x[a].free = h.mem[a].free
              /\ a = aft => ~x[a].bfree
              /\ a # aft => x[a].bfree = h.mem[a].bfree
              /\ a # block => x[a].size = h.mem[a].size
  <2>1. h.mem[a].free \in BOOLEAN /\ x[a].free \in BOOLEAN
    BY <1>1, <1>4, <1>6, FieldTypes
  <2>2. x[a].free = h.mem[a].free
    BY <2>1, <1>4, <1>5, <1>7, <1>10
  <2> QED
    BY <2>2, <1>4, <1>5, <1>7
<1>12. x[splt].free = FALSE /\ x[splt].bfree = TRUE /\ x[splt].size = size
  BY <1>4, <1>7, <1>10
<1>13. FreeBlocks(x) = F
  BY <1>4, <1>6, <1>11, <1>12 DEF FreeBlocks
<1>14. Flags(x)
  <2>1. ASSUME NEW a \in DOMAIN x \ {Sentinel}
        PROVE  x[After(x, a)].bfree = x[a].free
    <3>1. CASE a = block
      <4>1. After(x, a) = splt
        BY <3>1, <1>4, <1>5, <1>9
      <4> QED
        BY <3>1, <4>1, <1>4, <1>11, <1>12
    <3>2. CASE a = splt
      <4>1. After(x, a) = aft
        BY <3>2, <1>4, <1>5, <1>9
      <4>2. x[aft].bfree \in BOOLEAN
        BY <1>4, <1>6, FieldTypes
      <4> QED
        BY <3>2, <4>1, <4>2, <1>4, <1>11, <1>12
    <3>3. CASE a # block /\ a # splt
      <4>1. a \in DOMAIN h.mem \ {Sentinel}
        BY <3>3, <1>4, <1>6
      <4>2. After(x, a) = After(h.mem, a)
        BY <4>1, <3>3, <1>4, <1>5, <1>9
      <4>3. After(h.mem, a) \in DOMAIN h.mem /\ After(h.mem, a) # aft
        BY <4>1, <3>3, <1>1, <1>4, Neighbours DEF aft
      <4>4. h.mem[After(h.mem, a)].bfree = h.mem[a].free
        BY <4>1, <1>1 DEF Flags
      <4> QED
        BY <4>1, <4>2, <4>3, <4>4, <1>11
    <3> QED
      BY <3>1, <3>2, <3>3
  <2>2. ~x[0].bfree /\ ~x[Sentinel].free
    <3>1. 0 \in DOMAIN h.mem /\ Sentinel \in DOMAIN h.mem
      BY <1>1 DEF Layout
    <3>2. ~h.mem[0].bfree /\ ~h.mem[Sentinel].free
      BY <1>1 DEF Flags
    <3> QED
      BY <3>1, <3>2, <1>11
  <2> QED
    BY <2>1, <2>2 DEF Flags
<1>15. Coalesced(x)
  <2> SUFFICES ASSUME NEW a \in DOMAIN x PROVE ~(x[a].free /\ x[a].bfree)
    BY DEF Coalesced
  <2>1. CASE a = splt
    BY <2>1, <1>12
  <2>2. CASE a # splt
    <3>1. a \in DOMAIN h.mem /\ ~(h.mem[a].free /\ h.mem[a].bfree)
      BY <2>2, <1>1, <1>4, <1>6 DEF Coalesced
    <3> QED
      BY <3>1, <1>11
  <2> QED
    BY <2>1, <2>2
<1>16. Linked(g, F)
  <2>1. SameLinks(i.mem, g.mem, F)
    BY <1>4, <1>7, <1>8 DEF SameLinks, FreeBlocks
  <2>2. F \subseteq DOMAIN g.mem
    BY <1>4, <1>6, <1>8 DEF FreeBlocks
  <2> QED
    BY <2>1, <2>2, <1>4, <1>8, LinkedFrame
<1>17. WellFormed(g)
  BY <1>8, <1>9, <1>13, <1>14, <1>15, <1>16 DEF WellFormed
<1> QED
  BY <1>4, <1>6, <1>8, <1>11, <1>12, <1>13, <1>17 DEF g, splt

-----------------------------------------------------------------------------
(***************************************************************************)
(* A block is given back.  While merge() runs, the block being merged is   *)
(* in nobody's hands: it is not in the list, whatever its status says, and *)
(* its successor's copy of the status need not agree.                      *)
(***************************************************************************)
Merging(h, block) ==
  /\ HeapTyped(h)
  /\ Layout(h.mem)
  /\ block \in DOMAIN h.mem \ {Sentinel}
  /\ ~h.mem[0].bfree /\ ~h.mem[Sentinel].free
  /\ \A a \in DOMAIN h.mem \ {Sentinel, block} :
       h.mem[After(h.mem, a)].bfree = h.mem[a].free
  /\ \A a \in DOMAIN h.mem \ {block, After(h.mem, block)} :
       ~(h.mem[a].free /\ h.mem[a].bfree)
  /\ Linked(h, FreeBlocks(h.mem) \ {block})

\* The blocks in use, the one being merged left out.
Taken(mem, block) == {a \in DOMAIN mem : ~mem[a].free /\ a # block}

\* Detaching a listed block does not disturb a merge.
LEMMA DetachMerging ==
  ASSUME NEW h, NEW block, Merging(h, block),
         NEW c \in FreeBlocks(h.mem) \ {block}
  PROVE  /\ HeapTyped(Detach(h, c)) /\ MemTyped(Detach(h, c).mem)
         /\ SameTags(h.mem, Detach(h, c).mem)
         /\ Layout(Detach(h, c).mem)
         /\ c \in DOMAIN h.mem \ {Sentinel}
         /\ \A a \in DOMAIN h.mem : After(Detach(h, c).mem, a) = After(h.mem, a)
         /\ Linked(Detach(h, c), (FreeBlocks(h.mem) \ {block}) \ {c})
<1> DEFINE L == FreeBlocks(h.mem) \ {block}
<1>1. HeapTyped(h) /\ Layout(h.mem) /\ Linked(h, L)
  BY DEF Merging
<1>2. c \in DOMAIN h.mem \ {Sentinel}
  BY DEF Merging, FreeBlocks
<1>3. c \in L
  OBVIOUS
<1> HIDE DEF L
<1>4. /\ HeapTyped(Detach(h, c)) /\ SameTags(h.mem, Detach(h, c).mem)
      /\ Layout(Detach(h, c).mem) /\ Linked(Detach(h, c), L \ {c})
  BY <1>1, <1>3, DetachListed
<1>5. \A a \in DOMAIN h.mem : After(Detach(h, c).mem, a) = After(h.mem, a)
  BY <1>1, <1>4, SameTagsLayout
<1> QED
  BY <1>2, <1>4, <1>5 DEF HeapTyped, L

(***************************************************************************)
(* One absorption: of the two neighbours low and high one is the block     *)
(* being merged, and the other, c, is free and listed.                     *)
(***************************************************************************)
LEMMA AbsorbMerging ==
  ASSUME NEW h, NEW block, Merging(h, block),
         NEW c \in FreeBlocks(h.mem) \ {block},
         NEW low \in DOMAIN h.mem \ {Sentinel},
         NEW high \in DOMAIN h.mem \ {Sentinel}, After(h.mem, low) = high,
         \/ low = block /\ high = c
         \/ low = c /\ high = block,
         NEW aft, After(h.mem, high) = aft
  PROVE  /\ Merging(TakeOver(h, c, low, high, aft), low)
         /\ Taken(TakeOver(h, c, low, high, aft).mem, low) = Taken(h.mem, block)
         /\ \A a \in Taken(h.mem, block) :
              TakeOver(h, c, low, high, aft).mem[a].size = h.mem[a].size
         /\ TakeOver(h, c, low, high, aft).mem[low].bfree = h.mem[low].bfree
         /\ After(TakeOver(h, c, low, high, aft).mem, low) = aft
         /\ TakeOver(h, c, low, high, aft).mem[aft].free = h.mem[aft].free
         /\ aft = low + JoinedSize(h.mem, low, high) + HEAD
<1> DEFINE d == Detach(h, c)
           x == Absorb(d.mem, low, high, aft)
           g == TakeOver(h, c, low, high, aft)
           L == (FreeBlocks(h.mem) \ {block}) \ {c}
<1>1. /\ HeapTyped(d) /\ MemTyped(d.mem) /\ SameTags(h.mem, d.mem)
      /\ Layout(d.mem)
      /\ \A a \in DOMAIN h.mem : After(d.mem, a) = After(h.mem, a)
      /\ Linked(d, L)
  BY DetachMerging
<1>2. MemTyped(h.mem) /\ Layout(h.mem)
  BY DEF Merging, HeapTyped
<1>3. DOMAIN d.mem = DOMAIN h.mem
  BY <1>1 DEF SameTags
<1>4. /\ low \in DOMAIN d.mem \ {Sentinel} /\ high # Sentinel
      /\ After(d.mem, low) = high /\ After(d.mem, high) = aft
  BY <1>1, <1>3
<1>5. JoinedSize(d.mem, low, high) = JoinedSize(h.mem, low, high)
  BY <1>1 DEF SameTags, JoinedSize
<1>6. DOMAIN x = DOMAIN h.mem \ {high}
  BY <1>3 DEF Absorb
<1>10. g = [d EXCEPT !.mem = x]
  BY DEF TakeOver
<1> HIDE DEF d, g, L
<1>7. /\ MemTyped(x) /\ Layout(x) /\ After(x, low) = aft
      /\ \A a \in DOMAIN x \ {Sentinel, low} : After(x, a) = After(d.mem, a)
      /\ aft = low + JoinedSize(d.mem, low, high) + HEAD
  BY <1>1, <1>4, AbsorbLayout
<1>8. low # high /\ aft # high /\ aft \in DOMAIN h.mem /\ high # 0 /\ aft # 0
  <2>1. /\ high > low + HEAD /\ aft > high + HEAD /\ aft \in DOMAIN h.mem
        /\ high # 0 /\ aft # 0
    BY <1>2, Neighbours
  <2>2. low \in Int /\ high \in Int /\ aft \in Int /\ HEAD \in Nat
    BY <1>2, <2>1, FieldTypes, HeapAssumption DEF HeapAssumption
  <2> QED
    BY <2>1, <2>2
<1>9. ASSUME NEW a \in DOMAIN h.mem, a # high
      PROVE  /\ a # low => x[a].size = h.mem[a].size
             /\ x[a].free = h.mem[a].free /\ x[a].bfree = h.mem[a].bfree
             /\ x[a].next = d.mem[a].next /\ x[a].prev = d.mem[a].prev
  <2>1. /\ a # low => x[a].size = d.mem[a].size
        /\ x[a].free = d.mem[a].free /\ x[a].bfree = d.mem[a].bfree
        /\ x[a].next = d.mem[a].next /\ x[a].prev = d.mem[a].prev
    BY <1>1, <1>3, <1>9, AbsorbFields
  <2> QED
    BY <2>1, <1>1 DEF SameTags
<1> HIDE DEF x
<1>11. g.mem = x /\ g.flist = d.flist /\ HeapTyped(g)
  BY <1>1, <1>7, <1>10, WithMem
<1>12. FreeBlocks(x) \ {low} = L
  <2>1. h.mem[c].free
    BY DEF FreeBlocks
  <2> QED
    BY <2>1, <1>6, <1>8, <1>9 DEF FreeBlocks, L
<1>13. Linked(g, FreeBlocks(x) \ {low})
  <2>1. L \subseteq DOMAIN x
    BY <1>12 DEF FreeBlocks
  <2>2. SameLinks(d.mem, g.mem, L)
    BY <2>1, <1>6, <1>9, <1>11 DEF SameLinks
  <2>3. Linked(g, L)
    BY <2>1, <2>2, <1>1, <1>11, LinkedFrame
  <2> QED
    BY <2>3, <1>12
<1>14. ~x[0].bfree /\ ~x[Sentinel].free
  <2>1. 0 \in DOMAIN h.mem /\ Sentinel \in DOMAIN h.mem
    BY <1>2 DEF Layout
  <2> QED
    BY <2>1, <1>8, <1>9 DEF Merging
<1>15. ASSUME NEW a \in DOMAIN x \ {Sentinel, low}
       PROVE  x[After(x, a)].bfree = x[a].free
  <2>1. a \in DOMAIN h.mem \ {Sentinel, block} /\ a # high
    BY <1>6
  <2>2. After(x, a) = After(h.mem, a)
    BY <2>1, <1>1, <1>7
  <2>3. After(h.mem, a) \in DOMAIN h.mem /\ After(h.mem, a) # high
    BY <2>1, <1>2, Neighbours
  <2>4. h.mem[After(h.mem, a)].bfree = h.mem[a].free
    BY <2>1 DEF Merging
  <2> QED
    BY <2>1, <2>2, <2>3, <2>4, <1>9
<1>16. ASSUME NEW a \in DOMAIN x \ {low, After(x, low)}
       PROVE  ~(x[a].free /\ x[a].bfree)
  <2>1. a \in DOMAIN h.mem \ {block, After(h.mem, block)} /\ a # high
    BY <1>6, <1>7
  <2>2. ~(h.mem[a].free /\ h.mem[a].bfree)
    BY <2>1 DEF Merging
  <2> QED
    BY <2>1, <2>2, <1>9
<1>17. Merging(g, low)
  BY <1>6, <1>7, <1>8, <1>11, <1>13, <1>14, <1>15, <1>16 DEF Merging
<1>18. Taken(x, low) = Taken(h.mem, block)
  <2>1. h.mem[c].free
    BY DEF FreeBlocks
  <2> QED
    BY <2>1, <1>6, <1>8, <1>9 DEF Taken
<1>19. ASSUME NEW a \in Taken(h.mem, block) PROVE x[a].size = h.mem[a].size
  <2>1. h.mem[c].free
    BY DEF FreeBlocks
  <2>2. a \in DOMAIN h.mem /\ a # low /\ a # high
    BY <2>1 DEF Taken
  <2> QED
    BY <2>2, <1>9
<1> QED
  BY <1>5, <1>7, <1>8, <1>9, <1>11, <1>17, <1>18, <1>19 DEF g

\* A block that its owner gives back can be merged.
LEMMA MergeStart ==
  ASSUME NEW h, WellFormed(h),
         NEW block \in DOMAIN h.mem \ (FreeBlocks(h.mem) \cup {Sentinel})
  PROVE  /\ Merging(h, block)
         /\ h.mem[block].bfree => /\ Before(h.mem, block) \in FreeBlocks(h.mem) \ {block}
                                  /\ Before(h.mem, block) \in DOMAIN h.mem \ {Sentinel}
                                  /\ After(h.mem, Before(h.mem, block)) = block
                                  /\ ~h.mem[Before(h.mem, block)].bfree
<1>1. /\ HeapTyped(h) /\ MemTyped(h.mem) /\ Layout(h.mem) /\ Flags(h.mem)
      /\ Coalesced(h.mem) /\ Linked(h, FreeBlocks(h.mem))
  BY DEF WellFormed, HeapTyped
<1>2. ~h.mem[block].free /\ block \in DOMAIN h.mem \ {Sentinel}
  BY DEF FreeBlocks
<1>3. FreeBlocks(h.mem) \ {block} = FreeBlocks(h.mem)
  OBVIOUS
<1>4. Merging(h, block)
  <2>1. \A a \in DOMAIN h.mem \ {Sentinel, block} :
          h.mem[After(h.mem, a)].bfree = h.mem[a].free
    BY <1>1 DEF Flags
  <2>2. \A a \in DOMAIN h.mem : ~(h.mem[a].free /\ h.mem[a].bfree)
    BY <1>1 DEF Coalesced
  <2>3. ~h.mem[0].bfree /\ ~h.mem[Sentinel].free
    BY <1>1 DEF Flags
  <2> QED
    BY <1>1, <1>2, <1>3, <2>1, <2>2, <2>3 DEF Merging
<1>5. ASSUME h.mem[block].bfree
      PROVE  /\ Before(h.mem, block) \in FreeBlocks(h.mem) \ {block}
             /\ Before(h.mem, block) \in DOMAIN h.mem \ {Sentinel}
             /\ After(h.mem, Before(h.mem, block)) = block
             /\ ~h.mem[Before(h.mem, block)].bfree
  <2> DEFINE bb == Before(h.mem, block)
  <2>1. block # 0
    BY <1>1, <1>5 DEF Flags
  <2>2. bb \in DOMAIN h.mem \ {Sentinel} /\ After(h.mem, bb) = block
    BY <2>1, <1>1, <1>2, Neighbours
  <2> HIDE DEF bb
  <2>3. h.mem[block].bfree = h.mem[bb].free
    BY <2>2, <1>1 DEF Flags
  <2>4. h.mem[bb].free
    BY <2>3, <1>5
  <2>5. ~h.mem[bb].bfree
    BY <2>2, <2>4, <1>1 DEF Coalesced
  <2> QED
    BY <2>2, <2>4, <2>5, <1>2 DEF bb, FreeBlocks
<1> QED
  BY <1>4, <1>5

\* The first half of merge(): the block before is not free any more.
LEMMA MergeBeforeStep ==
  ASSUME NEW h, WellFormed(h),
         NEW block \in DOMAIN h.mem \ (FreeBlocks(h.mem) \cup {Sentinel})
  PROVE  /\ Merging(MergeBefore(h, block), MergedBlock(h, block))
         /\ ~MergeBefore(h, block).mem[MergedBlock(h, block)].bfree
         /\ Taken(MergeBefore(h, block).mem, MergedBlock(h, block)) = Taken(h.mem, block)
         /\ \A a \in Taken(h.mem, block) :
              MergeBefore(h, block).mem[a].size = h.mem[a].size
<1>1. Merging(h, block)
  BY MergeStart
<1>2. CASE h.mem[block].bfree
  <2> DEFINE bb == Before(h.mem, block)
             aft == After(h.mem, block)
  <2>1. MergedBlock(h, block) = bb /\ MergeBefore(h, block) = TakeOver(h, bb, bb, block, aft)
    BY <1>2 DEF MergedBlock, MergeBefore
  <2>2. /\ bb \in FreeBlocks(h.mem) \ {block} /\ bb \in DOMAIN h.mem \ {Sentinel}
        /\ After(h.mem, bb) = block /\ ~h.mem[bb].bfree
    BY <1>2, MergeStart
  <2>3. block \in DOMAIN h.mem \ {Sentinel} /\ After(h.mem, block) = aft
    OBVIOUS
  <2> HIDE DEF bb, aft
  <2>4. /\ Merging(TakeOver(h, bb, bb, block, aft), bb)
        /\ Taken(TakeOver(h, bb, bb, block, aft).mem, bb) = Taken(h.mem, block)
        /\ \A a \in Taken(h.mem, block) :
             TakeOver(h, bb, bb, block, aft).mem[a].size = h.mem[a].size
        /\ TakeOver(h, bb, bb, block, aft).mem[bb].bfree = h.mem[bb].bfree
    BY <1>1, <2>2, <2>3, AbsorbMerging
  <2> QED
    BY <2>1, <2>2, <2>4
<1>3. CASE ~h.mem[block].bfree
  <2>1. MergedBlock(h, block) = block /\ MergeBefore(h, block) = h
    BY <1>3 DEF MergedBlock, MergeBefore
  <2> QED
    BY <1>1, <1>3, <2>1
<1> QED
  BY <1>2, <1>3

\* The second half of merge(): the block after is not free any more.
LEMMA MergeAfterStep ==
  ASSUME NEW h, NEW block, Merging(h, block), ~h.mem[block].bfree
  PROVE  /\ Merging(MergeAfter(h, block), block)
         /\ ~MergeAfter(h, block).mem[block].bfree
         /\ ~MergeAfter(h, block).mem[After(MergeAfter(h, block).mem, block)].free
         /\ Taken(MergeAfter(h, block).mem, block) = Taken(h.mem, block)
         /\ \A a \in Taken(h.mem, block) :
              MergeAfter(h, block).mem[a].size = h.mem[a].size
<1> DEFINE aft == After(h.mem, block)
           end == After(h.mem, aft)
<1>1. block \in DOMAIN h.mem \ {Sentinel} /\ MemTyped(h.mem) /\ Layout(h.mem)
  BY DEF Merging, HeapTyped
<1>2. aft \in DOMAIN h.mem /\ aft # block
  BY <1>1, Neighbours, FieldTypes, HeapAssumption DEF HeapAssumption
<1>3. CASE h.mem[aft].free
  <2>1. aft \in FreeBlocks(h.mem) \ {block} /\ aft \in DOMAIN h.mem \ {Sentinel}
    BY <1>2, <1>3 DEF Merging, FreeBlocks
  <2>2. /\ MergeAfter(h, block)
             = TakeOver(h, aft, block, aft, block + JoinedSize(h.mem, block, aft) + HEAD)
        /\ After(h.mem, block) = aft /\ After(h.mem, aft) = end
    BY <1>3 DEF MergeAfter
  <2>3. end \in DOMAIN h.mem \ {block, aft}
    <3>1. block \in Int /\ aft \in Int /\ HEAD \in Nat /\ aft > block + HEAD
      BY <1>1, <1>2, Neighbours, FieldTypes, HeapAssumption DEF HeapAssumption
    <3>2. end \in DOMAIN h.mem /\ end \in Int /\ end > aft + HEAD
      BY <1>1, <2>1, Neighbours, FieldTypes
    <3> QED
      BY <3>1, <3>2
  <2>4. h.mem[end].bfree = h.mem[aft].free
    BY <2>1 DEF Merging
  <2> HIDE DEF aft, end
  <2>5. ~h.mem[end].free
    BY <2>2, <2>3, <2>4, <1>3 DEF Merging
  <2>6. /\ Merging(TakeOver(h, aft, block, aft, end), block)
        /\ Taken(TakeOver(h, aft, block, aft, end).mem, block) = Taken(h.mem, block)
        /\ \A a \in Taken(h.mem, block) :
             TakeOver(h, aft, block, aft, end).mem[a].size = h.mem[a].size
        /\ TakeOver(h, aft, block, aft, end).mem[block].bfree = h.mem[block].bfree
        /\ After(TakeOver(h, aft, block, aft, end).mem, block) = end
        /\ TakeOver(h, aft, block, aft, end).mem[end].free = h.mem[end].free
        /\ end = block + JoinedSize(h.mem, block, aft) + HEAD
    BY <1>1, <2>1, <2>2, AbsorbMerging
  <2>7. MergeAfter(h, block) = TakeOver(h, aft, block, aft, end)
    BY <2>2, <2>6
  <2> QED
    BY <2>5, <2>6, <2>7
<1>4. CASE ~h.mem[aft].free
  <2>1. MergeAfter(h, block) = h
    BY <1>4 DEF MergeAfter
  <2> QED
    BY <1>4, <2>1
<1> QED
  BY <1>3, <1>4

\* The end of dfree(): the merged block is marked free and listed.
FreeAgain(h, block) == Insert([h EXCEPT !.mem = Mark(h.mem, block, TRUE)], block)

\* What is known of the heap g it leaves.
FreedAgain(h, block, g) ==
  /\ Sound(g)
  /\ DOMAIN g.mem = DOMAIN h.mem
  /\ \A a \in DOMAIN h.mem :
       /\ g.mem[a].size = h.mem[a].size
       /\ a # block => g.mem[a].free = h.mem[a].free
       /\ a # After(h.mem, block) => g.mem[a].bfree = h.mem[a].bfree
  /\ After(h.mem, block) # block
  /\ DOMAIN g.mem \ FreeBlocks(g.mem) = Taken(h.mem, block)

LEMMA FreeAgainSound ==
  ASSUME NEW h, HeapTyped(h), Layout(h.mem), NEW block \in DOMAIN h.mem \ {Sentinel},
         ~h.mem[0].bfree, ~h.mem[Sentinel].free,
         \A a \in DOMAIN h.mem \ {Sentinel, block} :
           h.mem[After(h.mem, a)].bfree = h.mem[a].free,
         Linked(h, FreeBlocks(h.mem) \ {block})
  PROVE  FreedAgain(h, block, FreeAgain(h, block))
<1> DEFINE g == FreeAgain(h, block)
           x == Mark(h.mem, block, TRUE)
           e == [h EXCEPT !.mem = x]
           aft == After(h.mem, block)
           L == FreeBlocks(h.mem) \ {block}
<1>1. /\ HeapTyped(h) /\ MemTyped(h.mem) /\ Layout(h.mem) /\ Linked(h, L)
      /\ block \in DOMAIN h.mem \ {Sentinel}
      /\ ~h.mem[0].bfree /\ ~h.mem[Sentinel].free
  BY DEF HeapTyped
<1>2. aft \in DOMAIN h.mem \ {0} /\ aft # block
  BY <1>1, Neighbours, FieldTypes, HeapAssumption DEF HeapAssumption
<1>3. DOMAIN x = DOMAIN h.mem /\ MemTyped(x)
  BY <1>1, MarkTyped
<1>4. ASSUME NEW a \in DOMAIN h.mem
      PROVE  /\ x[a].size = h.mem[a].size /\ x[a].bsize = h.mem[a].bsize
             /\ x[a].next = h.mem[a].next /\ x[a].prev = h.mem[a].prev
             /\ x[a].free = IF a = block THEN TRUE ELSE h.mem[a].free
             /\ x[a].bfree = IF a = aft THEN TRUE ELSE h.mem[a].bfree
  <2> DEFINE t == TRUE
  <2>1. x = Mark(h.mem, block, t) /\ t \in BOOLEAN
    OBVIOUS
  <2> HIDE DEF t, x
  <2>2. /\ x[a].size = h.mem[a].size /\ x[a].bsize = h.mem[a].bsize
        /\ x[a].next = h.mem[a].next /\ x[a].prev = h.mem[a].prev
        /\ x[a].free = IF a = block THEN t ELSE h.mem[a].free
        /\ x[a].bfree = IF a = aft THEN t ELSE h.mem[a].bfree
    BY <1>1, <2>1, MarkFields
  <2> QED
    BY <2>2 DEF t
<1>5. g = Insert(e, block)
  BY DEF FreeAgain
<1> HIDE DEF x, aft, L, g
<1>6. e.mem = x /\ e.flist = h.flist /\ HeapTyped(e)
  BY <1>1, <1>3, WithMem
<1> HIDE DEF e
<1>7. SameSizes(h.mem, x)
  BY <1>3, <1>4 DEF SameSizes
<1>8. Layout(x) /\ \A a \in DOMAIN h.mem : After(x, a) = After(h.mem, a)
  BY <1>1, <1>7, SameSizesLayout
<1>9. FreeBlocks(x) = L \cup {block} /\ block \notin L
  BY <1>1, <1>3, <1>4 DEF FreeBlocks, L
<1>10. Flags(x)
  <2>1. ASSUME NEW a \in DOMAIN x \ {Sentinel}
        PROVE  x[After(x, a)].bfree = x[a].free
    <3>1. CASE a = block
      BY <3>1, <1>2, <1>3, <1>4, <1>8 DEF aft
    <3>2. CASE a # block
      <4>1. After(h.mem, a) \in DOMAIN h.mem /\ After(h.mem, a) # aft
        BY <3>2, <1>1, <1>3, Neighbours DEF aft
      <4>2. h.mem[After(h.mem, a)].bfree = h.mem[a].free
        BY <3>2, <1>3
      <4> QED
        BY <3>2, <4>1, <4>2, <1>3, <1>4, <1>8
    <3> QED
      BY <3>1, <3>2
  <2>2. ~x[0].bfree /\ ~x[Sentinel].free
    BY <1>1, <1>2, <1>4 DEF Layout
  <2> QED
    BY <2>1, <2>2 DEF Flags
<1>12. Linked(e, L)
  <2>1. L \subseteq DOMAIN e.mem
    BY <1>3, <1>6 DEF L, FreeBlocks
  <2>2. SameLinks(h.mem, e.mem, L)
    BY <2>1, <1>3, <1>4, <1>6 DEF SameLinks
  <2> QED
    BY <2>1, <2>2, <1>1, <1>6, LinkedFrame
<1>13. Linked(g, FreeBlocks(x))
  BY <1>1, <1>3, <1>5, <1>6, <1>9, <1>12, InsertLinked
<1>14. HeapTyped(g) /\ SameTags(x, g.mem)
  BY <1>1, <1>3, <1>5, <1>6, InsertTags
<1>15. Layout(g.mem) /\ Flags(g.mem) /\ FreeBlocks(g.mem) = FreeBlocks(x)
  BY <1>8, <1>10, <1>14, SameTagsLayout
<1>16. Sound(g)
  BY <1>13, <1>14, <1>15 DEF Sound
<1>17. /\ DOMAIN g.mem = DOMAIN h.mem
       /\ \A a \in DOMAIN h.mem :
            /\ g.mem[a].size = h.mem[a].size
            /\ a # block => g.mem[a].free = h.mem[a].free
            /\ a # aft => g.mem[a].bfree = h.mem[a].bfree
  <2>1. /\ DOMAIN g.mem = DOMAIN h.mem
        /\ \A a \in DOMAIN h.mem :
             /\ g.mem[a].size = x[a].size
             /\ g.mem[a].free = x[a].free
             /\ g.mem[a].bfree = x[a].bfree
    BY <1>3, <1>14 DEF SameTags
  <2>2. \A a \in DOMAIN h.mem :
          /\ x[a].size = h.mem[a].size
          /\ a # block => x[a].free = h.mem[a].free
          /\ a # aft => x[a].bfree = h.mem[a].bfree
    BY <1>4
  <2> HIDE DEF x, g, aft
  <2> QED
    BY <2>1, <2>2
<1>18. DOMAIN g.mem \ FreeBlocks(g.mem) = Taken(h.mem, block)
  BY <1>9, <1>15, <1>17 DEF Taken, FreeBlocks, L
<1> QED
  BY <1>2, <1>16, <1>17, <1>18 DEF FreedAgain, g, aft

LEMMA MarkInsert ==
  ASSUME NEW h, NEW block, Merging(h, block), ~h.mem[block].bfree,
         ~h.mem[After(h.mem, block)].free
  PROVE  /\ WellFormed(FreeAgain(h, block))
         /\ DOMAIN FreeAgain(h, block).mem \ FreeBlocks(FreeAgain(h, block).mem)
              = Taken(h.mem, block)
         /\ \A a \in Taken(h.mem, block) :
              FreeAgain(h, block).mem[a].size = h.mem[a].size
<1> DEFINE g == FreeAgain(h, block)
           aft == After(h.mem, block)
<1>1. /\ HeapTyped(h) /\ Layout(h.mem) /\ Linked(h, FreeBlocks(h.mem) \ {block})
      /\ block \in DOMAIN h.mem \ {Sentinel}
      /\ ~h.mem[0].bfree /\ ~h.mem[Sentinel].free
      /\ \A a \in DOMAIN h.mem \ {Sentinel, block} :
           h.mem[After(h.mem, a)].bfree = h.mem[a].free
      /\ \A a \in DOMAIN h.mem \ {block, aft} : ~(h.mem[a].free /\ h.mem[a].bfree)
  BY DEF Merging
<1>2. FreedAgain(h, block, g)
  BY <1>1, FreeAgainSound
<1> HIDE DEF g
<1>3. Coalesced(g.mem)
  <2> SUFFICES ASSUME NEW a \in DOMAIN h.mem PROVE ~(g.mem[a].free /\ g.mem[a].bfree)
    BY <1>2 DEF Coalesced, FreedAgain
  <2>1. CASE a = block
    BY <2>1, <1>2 DEF FreedAgain
  <2>2. CASE a = aft
    BY <2>2, <1>2 DEF FreedAgain
  <2>3. CASE a # block /\ a # aft
    BY <2>3, <1>1, <1>2 DEF FreedAgain
  <2> QED
    BY <2>1, <2>2, <2>3
<1>4. \A a \in Taken(h.mem, block) : g.mem[a].size = h.mem[a].size
  BY <1>2 DEF FreedAgain, Taken
<1> QED
  BY <1>2, <1>3, <1>4, SoundIs DEF FreedAgain, g

\* dfree() leaves the other blocks that are in use as they were.
LEMMA GiveBackHeap ==
  ASSUME NEW h, WellFormed(h),
         NEW block \in DOMAIN h.mem \ (FreeBlocks(h.mem) \cup {Sentinel})
  PROVE  /\ WellFormed(GiveBack(h, block))
         /\ DOMAIN GiveBack(h, block).mem \ FreeBlocks(GiveBack(h, block).mem)
              = (DOMAIN h.mem \ FreeBlocks(h.mem)) \ {block}
         /\ \A a \in (DOMAIN h.mem \ FreeBlocks(h.mem)) \ {block} :
              GiveBack(h, block).mem[a].size = h.mem[a].size
<1> DEFINE b == MergedBlock(h, block)
           h1 == MergeBefore(h, block)
           h2 == MergeAfter(h1, b)
           g == GiveBack(h, block)
<1>1. /\ Merging(h1, b) /\ ~h1.mem[b].bfree
      /\ Taken(h1.mem, b) = Taken(h.mem, block)
      /\ \A a \in Taken(h.mem, block) : h1.mem[a].size = h.mem[a].size
  BY MergeBeforeStep
<1>2. g = FreeAgain(h2, b)
  BY DEF GiveBack, Merge, FreeAgain
<1> HIDE DEF b, h1, g
<1>3. /\ Merging(h2, b) /\ ~h2.mem[b].bfree /\ ~h2.mem[After(h2.mem, b)].free
      /\ Taken(h2.mem, b) = Taken(h1.mem, b)
      /\ \A a \in Taken(h1.mem, b) : h2.mem[a].size = h1.mem[a].size
  BY <1>1, MergeAfterStep
<1> HIDE DEF h2
<1>4. /\ WellFormed(g)
      /\ DOMAIN g.mem \ FreeBlocks(g.mem) = Taken(h2.mem, b)
      /\ \A a \in Taken(h2.mem, b) : g.mem[a].size = h2.mem[a].size
  BY <1>2, <1>3, MarkInsert
<1>5. Taken(h.mem, block) = (DOMAIN h.mem \ FreeBlocks(h.mem)) \ {block}
  BY DEF Taken, FreeBlocks
<1>6. \A a \in Taken(h.mem, block) : g.mem[a].size = h.mem[a].size
  BY <1>1, <1>3, <1>4
<1> QED
  BY <1>1, <1>3, <1>4, <1>5, <1>6 DEF g
=============================================================================
