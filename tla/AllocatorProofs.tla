--------------------------- MODULE AllocatorProofs --------------------------
(***************************************************************************)
(* Proofs about Allocator for any threads, requests, mappings and bounds:  *)
(* the heap stays sound, it is whole again when all is given back, and the *)
(* allocator implements the abstract heap.                                 *)
(***************************************************************************)
EXTENDS Allocator, FiniteSetTheorems, TLAPS

(***************************************************************************)
(* What is always true of the list of blocks, of any memory m.             *)
(***************************************************************************)
Bytes(m, b) == Header + m.block[b].size

Shaped(m) ==
    /\ DOMAIN m.block \subseteq Nat \ {0}
    /\ \A b \in DOMAIN m.block :
          m.block[b] \in [size : Nat, free : BOOLEAN, next : DOMAIN m.block \cup {Null}]
    /\ m.head \in DOMAIN m.block \cup {Null}
    /\ m.tail \in DOMAIN m.block \cup {Null}

\* Nobody points at the head, no two blocks at the same one, the tail at none.
Chained(m) ==
    /\ \A b, c \in DOMAIN m.block :
          m.block[b].next = m.block[c].next /\ m.block[b].next # Null => b = c
    /\ \A b \in DOMAIN m.block : m.block[b].next # Null => m.block[b].next # m.head
    /\ DOMAIN m.block # {} => m.head # Null
    /\ m.tail # Null => m.block[m.tail].next = Null

Disjoint(m) ==
    \A b, c \in DOMAIN m.block : b # c => Heap!Apart(b, Bytes(m, b), c, Bytes(m, c))

Sound(m) == Shaped(m) /\ Chained(m) /\ Disjoint(m)

\* Every byte of a block is mapped.  A merged block may lie in two mappings.
IsMapped(x) == \E p \in mapped : p[1] <= x /\ x < p[1] + p[2]

Covered ==
    \A b \in Blocks : \A x \in b..(b + Bytes(memory, b) - 1) : IsMapped(x)

Books ==
    /\ mapped \subseteq Nat \X Nat
    /\ \A p \in mapped : p[1] \in Bases /\ p[1] + p[2] <= Top
    /\ DOMAIN live \subseteq Nat
    /\ \A p \in DOMAIN live : live[p] \in 1..(Limit - Alignment)
    /\ held \in Int

(***************************************************************************)
(* One thread at a time is inside, and only it has anything in its locals. *)
(***************************************************************************)
Locked ==
    /\ lock \in {0, 1}
    /\ pc \in [Threads -> Places]
    /\ \A t \in Threads : pc[t] \in Inside => lock = 1
    /\ \A t, u \in Threads : pc[t] \in Inside /\ pc[u] \in Inside => t = u

LocalsOf(t) ==
    /\ local[t] \in [ptr : Nat, asked : 0..(Limit - Alignment), block : Nat]
    /\ pc[t] \in {"out", "try", "spin", "locked"} => local[t] = NoLocal
    /\ pc[t] \in {"find", "take", "grow"} =>
          local[t].asked >= 1 /\ local[t].ptr \in DOMAIN live \cup {Null}
    /\ pc[t] = "take" =>
          /\ local[t].block \in Blocks
          /\ memory.block[local[t].block].free
          /\ Align(local[t].asked) <= memory.block[local[t].block].size
    /\ pc[t] = "mark" => local[t].ptr \in DOMAIN live
    /\ pc[t] = "merge" => local[t].block \in Blocks

Locals == DOMAIN local = Threads /\ \A t \in Threads : LocalsOf(t)

HeapInv ==
    /\ Sound(memory)
    /\ Covered
    /\ Books
    /\ LiveBacked
    /\ Locked
    /\ Locals

-----------------------------------------------------------------------------
(***************************************************************************)
(* Sizes.  Within the sizes callers may ask for, rounding never wraps.     *)
(***************************************************************************)
LEMMA NoWrap ==
    ASSUME NEW n \in Nat, NEW k \in Nat, n < k
    PROVE  n % k = n
OBVIOUS

LEMMA NoWrapOver ==
    ASSUME NEW n \in Nat, NEW k \in Nat \ {0}, k <= n, n - k < k
    PROVE  n % k = n - k
OBVIOUS

LEMMA AlignCovers ==
    ASSUME NEW n \in 0..(Limit - Alignment)
    PROVE  Align(n) \in Nat /\ n <= Align(n)
<1>1. Limit \in Nat /\ n + 15 \in Nat /\ n + 15 < Limit
    BY AllocatorAssumption DEF Alignment
<1>2. (n + 15) % Limit = n + 15
    BY <1>1, NoWrap
<1>3. Align(n) = ((n + 15) \div 16) * 16
    BY <1>2 DEF Align, RoundDown, Alignment
<1> QED
    BY <1>1, <1>3

LEMMA MappingFits ==
    ASSUME NEW size \in Nat \ {0}, MappingSize(size) > 0
    PROVE  MappingSize(size) \in Nat /\ Header + size <= MappingSize(size)
<1> DEFINE h == Header + size
           r == (h + 4095) % Limit
<1>0. Limit \in Nat /\ Limit > 4096 /\ h \in Nat
    BY AllocatorAssumption DEF Header, PageSize
<1>2. AlignPage(h) = (r \div 4096) * 4096 /\ AlignPage(h) \in Nat
    <2>1. r \in Nat
        BY <1>0
    <2> QED
        BY <2>1 DEF AlignPage, RoundDown, PageSize
<1>1. /\ size <= Limit - 1 - Header
      /\ MappingSize(size) = AlignPage(h) /\ size <= AlignPage(h)
      /\ h < Limit
    <2>1. ~ (size > Limit - 1 - Header \/ AlignPage(Header + size) < size)
        BY DEF MappingSize
    <2> QED
        BY <1>0, <1>2, <2>1 DEF MappingSize, Header
<1>3. CASE h + 4095 < Limit
    <2>1. r = h + 4095
        BY <1>0, <1>3, NoWrap
    <2> QED
        BY <1>0, <1>1, <1>2, <2>1
<1>4. CASE h + 4095 >= Limit
    <2>1. /\ h + 4095 - Limit \in Nat /\ h + 4095 - Limit < Limit
          /\ h + 4095 - Limit < 4095
        BY <1>0, <1>1, <1>4
    <2>2. r = h + 4095 - Limit
        BY <1>0, <2>1, NoWrapOver
    <2>3. (r \div 4096) * 4096 = 0
        BY <2>1, <2>2
    <2> QED
        BY <1>0, <1>1, <1>2, <2>3
<1> QED
    BY <1>0, <1>3, <1>4

-----------------------------------------------------------------------------
(***************************************************************************)
(* What each operation makes of a sound list.                              *)
(***************************************************************************)
LEMMA Fields ==
    ASSUME NEW h, NEW t, NEW f
    PROVE  List(h, t, f).head = h /\ List(h, t, f).tail = t /\ List(h, t, f).block = f
BY DEF List

\* n is m with all of b but size bytes cut off into a free block.
Cut(n, m, b, size) ==
    LET rest == b + Header + size
        D == DOMAIN m.block
    IN  /\ n.head = m.head
        /\ n.tail = IF m.tail = b THEN rest ELSE m.tail
        /\ DOMAIN n.block = D \cup {rest}
        /\ rest \notin D /\ rest \in Nat \ {0}
        /\ n.block[rest].size = m.block[b].size - size - Header
        /\ n.block[rest].free = TRUE
        /\ n.block[rest].next = m.block[b].next
        /\ n.block[rest] \in [size : Nat, free : BOOLEAN, next : D \cup {Null}]
        /\ n.block[b] = Block(size, m.block[b].free, rest)
        /\ \A x \in D \ {b} : n.block[x] = m.block[x]

LEMMA SplitCuts ==
    ASSUME NEW m, Sound(m), NEW b \in DOMAIN m.block, NEW size \in Nat,
           m.block[b].size > size + Header + Alignment
    PROVE  Cut(Split(m, b, size), m, b, size)
<1> DEFINE n == Split(m, b, size)
           rest == b + Header + size
           D == DOMAIN m.block
           old == m.block[b]
           cut == [x \in D \cup {rest} |->
                      IF x = rest THEN Block(old.size - size - Header, TRUE, old.next)
                      ELSE IF x = b THEN Block(size, old.free, rest)
                      ELSE m.block[x]]
<1>1. /\ old \in [size : Nat, free : BOOLEAN, next : D \cup {Null}]
      /\ b \in Nat \ {0} /\ Header = 24 /\ Alignment = 16
    BY DEF Sound, Shaped, Header, Alignment
<1>2. rest \in Nat \ {0} /\ rest # b
    BY <1>1
<1>3. ASSUME NEW c \in D, c = rest
      PROVE  FALSE
    <2>1. /\ Heap!Apart(b, Bytes(m, b), c, Bytes(m, c))
          /\ m.block[c].size \in Nat
        BY <1>2, <1>3 DEF Sound, Disjoint, Shaped
    <2> QED
        BY <1>1, <1>3, <2>1 DEF Heap!Apart, Bytes
<1>4. n = List(m.head, IF m.tail = b THEN rest ELSE m.tail, cut)
    <2>1. ~ (old.size <= size + Header + Alignment)
        BY <1>1
    <2> QED
        BY <2>1 DEF Split
<1>5. /\ n.head = m.head
      /\ n.tail = IF m.tail = b THEN rest ELSE m.tail
      /\ n.block = cut
    BY <1>4, Fields
<1>6. /\ DOMAIN n.block = D \cup {rest}
      /\ n.block[rest] = Block(old.size - size - Header, TRUE, old.next)
      /\ n.block[b] = Block(size, old.free, rest)
      /\ \A x \in D \ {b} : n.block[x] = m.block[x]
    BY <1>2, <1>3, <1>5
<1>7. old.size - size - Header \in Nat
    BY <1>1
<1>8. /\ n.block[rest].size = m.block[b].size - size - Header
      /\ n.block[rest].free = TRUE
      /\ n.block[rest].next = m.block[b].next
      /\ n.block[rest] \in [size : Nat, free : BOOLEAN, next : D \cup {Null}]
    BY <1>1, <1>6, <1>7 DEF Block
<1> QED
    BY <1>2, <1>3, <1>5, <1>6, <1>8 DEF Cut

\* Every block of n lies in a block of m.
Within(n, m) ==
    \A x \in DOMAIN n.block : \E y \in DOMAIN m.block :
        y <= x /\ x + Bytes(n, x) <= y + Bytes(m, y)

LEMMA WithinItself ==
    ASSUME NEW m, Shaped(m)
    PROVE  Within(m, m)
BY DEF Within, Shaped, Bytes, Header

LEMMA SplitSound ==
    ASSUME NEW m, Sound(m), NEW b \in DOMAIN m.block, NEW size \in Nat
    PROVE  LET n == Split(m, b, size)
               D == DOMAIN m.block
           IN  /\ Sound(n) /\ Within(n, m)
               /\ D \subseteq DOMAIN n.block
               /\ \A x \in D : n.block[x].free = m.block[x].free
               /\ \A x \in D \ {b} : n.block[x].size = m.block[x].size
               /\ \A x \in DOMAIN n.block \ D : n.block[x].free
               /\ size <= m.block[b].size => size <= n.block[b].size
<1> DEFINE n == Split(m, b, size)
           rest == b + Header + size
           D == DOMAIN m.block
<1>0. /\ Shaped(m) /\ Chained(m) /\ Disjoint(m)
      /\ m.block[b] \in [size : Nat, free : BOOLEAN, next : D \cup {Null}]
      /\ b \in Nat \ {0}
    BY DEF Sound, Shaped
<1>1. CASE m.block[b].size <= size + Header + Alignment
    <2>1. n = m
        BY <1>1 DEF Split
    <2> QED
        BY <1>0, <2>1, WithinItself DEF Sound
<1>2. CASE ~ (m.block[b].size <= size + Header + Alignment)
    <2>0. m.block[b].size > size + Header + Alignment
        BY <1>0, <1>2 DEF Header, Alignment
    <2>1. /\ n.head = m.head
          /\ n.tail = IF m.tail = b THEN rest ELSE m.tail
          /\ DOMAIN n.block = D \cup {rest}
          /\ rest \notin D /\ rest \in Nat \ {0}
          /\ n.block[rest].size = m.block[b].size - size - Header
          /\ n.block[rest].free = TRUE
          /\ n.block[rest].next = m.block[b].next
          /\ n.block[rest] \in [size : Nat, free : BOOLEAN, next : D \cup {Null}]
          /\ n.block[b] = Block(size, m.block[b].free, rest)
          /\ \A x \in D \ {b} : n.block[x] = m.block[x]
        <3>1. Cut(n, m, b, size)
            BY <2>0, SplitCuts
        <3> HIDE DEF n
        <3> QED
            BY <3>1, Zenon DEF Cut
    <2>2. /\ n.block[b].size = size /\ n.block[b].free = m.block[b].free
          /\ n.block[b].next = rest
          /\ n.block[b] \in [size : Nat, free : BOOLEAN, next : D \cup {rest, Null}]
        BY <1>0, <2>1 DEF Block
    <2> HIDE DEF n, rest
    <2>3. Shaped(n)
        <3>1. \A x \in D : n.block[x] \in [size : Nat, free : BOOLEAN, next : D \cup {rest, Null}]
            BY <1>0, <2>1, <2>2 DEF Shaped
        <3>2. n.block[rest] \in [size : Nat, free : BOOLEAN, next : D \cup {rest, Null}]
            BY <2>1
        <3>3. \A x \in DOMAIN n.block :
                 n.block[x] \in [size : Nat, free : BOOLEAN, next : DOMAIN n.block \cup {Null}]
            BY <2>1, <3>1, <3>2
        <3> QED
            BY <1>0, <2>1, <3>3 DEF Shaped
    <2>4. Chained(n)
        <3>0. /\ rest # Null
              /\ \A x \in D : m.block[x].next # rest
              /\ m.head # rest
            BY <1>0, <2>1 DEF Shaped, Null
        <3>1. \A x \in DOMAIN n.block :
                 /\ x \in D \ {b} => n.block[x].next = m.block[x].next
                 /\ x = b => n.block[x].next = rest
                 /\ x = rest => n.block[x].next = m.block[b].next
                 /\ x \in D \ {b} \/ x = b \/ x = rest
            BY <2>1, <2>2
        <3>2. ASSUME NEW x \in DOMAIN n.block, NEW y \in DOMAIN n.block,
                     n.block[x].next = n.block[y].next, n.block[x].next # Null
              PROVE  x = y
            BY <1>0, <2>1, <3>0, <3>1, <3>2 DEF Chained
        <3>3. ASSUME NEW x \in DOMAIN n.block, n.block[x].next # Null
              PROVE  n.block[x].next # n.head
            BY <1>0, <2>1, <3>0, <3>1, <3>3 DEF Chained
        <3>4. n.head # Null
            BY <1>0, <2>1 DEF Chained
        <3>5. n.tail # Null => n.block[n.tail].next = Null
            <4>1. CASE m.tail = b
                BY <1>0, <2>1, <4>1 DEF Chained, Null
            <4>2. CASE m.tail # b
                BY <1>0, <2>1, <4>2 DEF Chained, Shaped
            <4> QED
                BY <4>1, <4>2
        <3> QED
            BY <3>2, <3>3, <3>4, <3>5 DEF Chained
    <2>5. /\ Bytes(n, b) = Header + size
          /\ Bytes(n, rest) = m.block[b].size - size
          /\ Bytes(m, b) = Header + m.block[b].size
          /\ \A x \in D \ {b} : Bytes(n, x) = Bytes(m, x)
          /\ \A x \in D : Bytes(m, x) \in Nat /\ Bytes(m, x) > 0 /\ x \in Nat
          /\ rest = b + Header + size /\ Header = 24
          /\ size + Header < m.block[b].size
        BY <1>0, <2>0, <2>1, <2>2 DEF Bytes, Header, Shaped, rest, Alignment
    <2>6. Within(n, m)
        BY <1>0, <2>1, <2>5 DEF Within
    <2>7. Disjoint(n)
        <3> SUFFICES ASSUME NEW x \in DOMAIN n.block, NEW y \in DOMAIN n.block, x # y
                     PROVE  Heap!Apart(x, Bytes(n, x), y, Bytes(n, y))
            BY DEF Disjoint
        <3>1. \A c \in D \ {b} : Heap!Apart(b, Bytes(m, b), c, Bytes(m, c))
            BY <1>0 DEF Disjoint
        <3>2. CASE x \in D \ {b} /\ y \in D \ {b}
            BY <1>0, <2>5, <3>2 DEF Disjoint
        <3>3. CASE x \in {b, rest} /\ y \in {b, rest}
            BY <1>0, <2>5, <3>3 DEF Heap!Apart
        <3>4. CASE x \in {b, rest} /\ y \in D \ {b}
            BY <1>0, <2>5, <3>1, <3>4 DEF Heap!Apart
        <3>5. CASE x \in D \ {b} /\ y \in {b, rest}
            BY <1>0, <2>5, <3>1, <3>5 DEF Heap!Apart
        <3> QED
            BY <2>1, <3>2, <3>3, <3>4, <3>5
    <2> QED
        BY <2>1, <2>2, <2>3, <2>4, <2>6, <2>7 DEF Sound, n
<1> QED
    BY <1>1, <1>2

\* n is m with the mark of b set to free.
Remarked(n, m, b, free) ==
    /\ Sound(n) /\ Within(n, m)
    /\ DOMAIN n.block = DOMAIN m.block
    /\ n.head = m.head
    /\ n.block[b].free = free
    /\ \A x \in DOMAIN m.block \ {b} : n.block[x].free = m.block[x].free
    /\ \A x \in DOMAIN m.block : n.block[x].size = m.block[x].size

LEMMA SetFreeSound ==
    ASSUME NEW m, Sound(m), NEW b \in DOMAIN m.block, NEW free \in BOOLEAN
    PROVE  Remarked(SetFree(m, b, free), m, b, free)
<1> DEFINE n == SetFree(m, b, free)
           D == DOMAIN m.block
<1>0. /\ Shaped(m) /\ Chained(m) /\ Disjoint(m)
      /\ m.block[b] \in [size : Nat, free : BOOLEAN, next : D \cup {Null}]
    BY DEF Sound, Shaped
<1>1. /\ n.head = m.head /\ n.tail = m.tail
      /\ n.block = [m.block EXCEPT ![b] = Block(m.block[b].size, free, m.block[b].next)]
    BY Fields DEF SetFree
<1>2. /\ DOMAIN n.block = D
      /\ n.block[b] = Block(m.block[b].size, free, m.block[b].next)
      /\ \A x \in D \ {b} : n.block[x] = m.block[x]
    BY <1>1
<1> HIDE DEF n
<1>3. /\ n.block[b].size = m.block[b].size
      /\ n.block[b].free = free
      /\ n.block[b].next = m.block[b].next
      /\ n.block[b] \in [size : Nat, free : BOOLEAN, next : D \cup {Null}]
    BY <1>0, <1>2 DEF Block
<1>4. \A x \in D : n.block[x].size = m.block[x].size /\ n.block[x].next = m.block[x].next
    BY <1>2, <1>3
<1>5. Shaped(n)
    BY <1>0, <1>1, <1>2, <1>3 DEF Shaped
<1>6. Chained(n)
    BY <1>0, <1>1, <1>2, <1>4 DEF Chained, Shaped
<1>7. \A x \in D : Bytes(n, x) = Bytes(m, x)
    BY <1>4 DEF Bytes
<1>8. Disjoint(n)
    BY <1>0, <1>2, <1>7 DEF Disjoint
<1>9. Within(n, m)
    BY <1>0, <1>2, <1>7, WithinItself DEF Within
<1> QED
    BY <1>1, <1>2, <1>3, <1>4, <1>5, <1>6, <1>8, <1>9 DEF Sound, n, Remarked

LEMMA AppendedSound ==
    ASSUME NEW m, Sound(m), NEW b \in Nat \ {0}, NEW size \in Nat, b \notin DOMAIN m.block,
           \A c \in DOMAIN m.block : Heap!Apart(c, Bytes(m, c), b, Header + size)
    PROVE  LET n == Appended(m, b, size)
               D == DOMAIN m.block
           IN  /\ Sound(n)
               /\ DOMAIN n.block = D \cup {b}
               /\ n.block[b].size = size /\ ~ n.block[b].free
               /\ \A x \in D : /\ n.block[x].free = m.block[x].free
                               /\ n.block[x].size = m.block[x].size
<1> DEFINE n == Appended(m, b, size)
           D == DOMAIN m.block
           old == m.tail
           more == [x \in D \cup {b} |->
                       IF x = b THEN Block(size, FALSE, Null)
                       ELSE IF x = m.tail THEN Block(m.block[x].size, m.block[x].free, b)
                       ELSE m.block[x]]
<1>0. Shaped(m) /\ Chained(m) /\ Disjoint(m) /\ 0 \notin D /\ Null = 0
    BY DEF Sound, Shaped, Null
<1>1. n = List(IF m.tail = Null THEN b ELSE m.head, b, more)
    BY DEF Appended
<1>2. /\ n.head = (IF m.tail = Null THEN b ELSE m.head)
      /\ n.tail = b
      /\ n.block = more
    BY <1>1, Fields
<1>3. /\ DOMAIN n.block = D \cup {b}
      /\ n.block[b] = Block(size, FALSE, Null)
      /\ \A x \in D \ {old} : n.block[x] = m.block[x]
      /\ old \in D => n.block[old] = Block(m.block[old].size, m.block[old].free, b)
    BY <1>2
<1> HIDE DEF n, old
<1>4. /\ n.block[b].size = size /\ n.block[b].free = FALSE /\ n.block[b].next = Null
      /\ n.block[b] \in [size : Nat, free : BOOLEAN, next : D \cup {b, Null}]
    BY <1>3 DEF Block
<1>5. old \in D =>
          /\ n.block[old].size = m.block[old].size
          /\ n.block[old].free = m.block[old].free
          /\ n.block[old].next = b
          /\ n.block[old] \in [size : Nat, free : BOOLEAN, next : D \cup {b, Null}]
    BY <1>0, <1>3 DEF Block, Shaped
<1>6. \A x \in D : /\ n.block[x].free = m.block[x].free
                   /\ n.block[x].size = m.block[x].size
                   /\ n.block[x].next = IF x = old THEN b ELSE m.block[x].next
    BY <1>3, <1>5
<1>7. Shaped(n)
    <2>1. \A x \in D : n.block[x] \in [size : Nat, free : BOOLEAN, next : D \cup {b, Null}]
        BY <1>0, <1>3, <1>5 DEF Shaped
    <2>2. n.head \in D \cup {b, Null}
        BY <1>0, <1>2 DEF Shaped
    <2> QED
        BY <1>0, <1>2, <1>3, <1>4, <2>1, <2>2 DEF Shaped
<1>8. Chained(n)
    <2>0. /\ old \in D \cup {Null} /\ b # Null
          /\ \A x \in D : m.block[x].next \in D \cup {Null}
          /\ m.head \in D \cup {Null}
          /\ old = m.tail
        BY <1>0 DEF Shaped, old
    <2>1. ASSUME NEW x \in DOMAIN n.block, NEW y \in DOMAIN n.block,
                 n.block[x].next = n.block[y].next, n.block[x].next # Null
          PROVE  x = y
        <3>1. x \in D /\ y \in D
            BY <1>3, <1>4, <2>1
        <3> QED
            BY <1>0, <1>6, <2>0, <2>1, <3>1 DEF Chained
    <2>2. ASSUME NEW x \in DOMAIN n.block, n.block[x].next # Null
          PROVE  n.block[x].next # n.head
        <3>1. x \in D
            BY <1>3, <1>4, <2>2
        <3>2. CASE m.tail = Null
            <4>1. x # old /\ n.head = b
                BY <1>0, <1>2, <2>0, <3>1, <3>2
            <4>2. n.block[x].next \in D
                BY <1>6, <2>0, <2>2, <3>1, <4>1
            <4> QED
                BY <4>1, <4>2
        <3>3. CASE m.tail # Null
            BY <1>0, <1>2, <1>6, <2>0, <2>2, <3>1, <3>3 DEF Chained
        <3> QED
            BY <3>2, <3>3
    <2>3. n.head # Null
        BY <1>0, <1>2, <2>0 DEF Chained
    <2> QED
        BY <1>2, <1>4, <2>1, <2>2, <2>3 DEF Chained
<1>9. Disjoint(n)
    <2>1. \A x \in D : Bytes(n, x) = Bytes(m, x)
        BY <1>6 DEF Bytes
    <2>2. Bytes(n, b) = Header + size
        BY <1>4 DEF Bytes
    <2>3. \A c \in D : Heap!Apart(c, Bytes(n, c), b, Bytes(n, b)) /\ Heap!Apart(b, Bytes(n, b), c, Bytes(n, c))
        BY <2>1, <2>2 DEF Heap!Apart
    <2> QED
        BY <1>0, <1>3, <2>1, <2>3 DEF Disjoint
<1> QED
    BY <1>3, <1>4, <1>6, <1>7, <1>8, <1>9 DEF Sound, n

LEMMA MergedSound ==
    ASSUME NEW m, Sound(m), NEW b \in DOMAIN m.block, m.block[b].next # Null, Mergeable(m, b)
    PROVE  LET n == Merged(m, b)
               D == DOMAIN m.block
               c == m.block[b].next
           IN  /\ Sound(n)
               /\ c \in D /\ c # b /\ m.block[c].free /\ m.block[b].free
               /\ DOMAIN n.block = D \ {c}
               /\ n.block[b].free = m.block[b].free
               /\ c = b + Bytes(m, b) /\ Bytes(n, b) = Bytes(m, b) + Bytes(m, c)
               /\ \A x \in D \ {b, c} : n.block[x] = m.block[x]
<1> DEFINE n == Merged(m, b)
           D == DOMAIN m.block
           c == m.block[b].next
           fewer == [x \in D \ {c} |->
                        IF x = b
                        THEN Block(m.block[b].size + Header + m.block[c].size, m.block[b].free,
                                   m.block[c].next)
                        ELSE m.block[x]]
<1>0. Shaped(m) /\ Chained(m) /\ Disjoint(m)
    BY DEF Sound
<1>1. /\ c \in D /\ c \in Nat \ {0} /\ b \in Nat \ {0}
      /\ m.block[b] \in [size : Nat, free : BOOLEAN, next : D \cup {Null}]
      /\ m.block[c] \in [size : Nat, free : BOOLEAN, next : D \cup {Null}]
    BY <1>0 DEF Shaped
<1>2. m.block[c].free /\ m.block[b].free /\ c = b + Header + m.block[b].size
    BY DEF Mergeable, Adjacent
<1>3. c # b
    BY <1>1, <1>2 DEF Header
<1>4. n = List(m.head, IF m.block[c].next = Null THEN b ELSE m.tail, fewer)
    BY DEF Merged
<1> HIDE DEF n, c, fewer
<1>5. /\ n.head = m.head
      /\ n.tail = (IF m.block[c].next = Null THEN b ELSE m.tail)
      /\ n.block = fewer
    BY <1>4, Fields
<1>6. /\ DOMAIN n.block = D \ {c}
      /\ n.block[b] = Block(m.block[b].size + Header + m.block[c].size, m.block[b].free,
                            m.block[c].next)
      /\ \A x \in D \ {b, c} : n.block[x] = m.block[x]
    BY <1>1, <1>3, <1>5 DEF fewer
<1>7. /\ n.block[b].free = m.block[b].free
      /\ n.block[b].next = m.block[c].next
      /\ n.block[b].size = m.block[b].size + Header + m.block[c].size
      /\ n.block[b] \in [size : Nat, free : BOOLEAN, next : D \cup {Null}]
    <2>1. m.block[b].size + Header + m.block[c].size \in Nat
        BY <1>1 DEF Header
    <2> QED
        BY <1>1, <1>6, <2>1 DEF Block
<1>8. /\ c = b + Bytes(m, b) /\ Bytes(n, b) = Bytes(m, b) + Bytes(m, c)
      /\ Bytes(m, b) \in Nat /\ Bytes(m, c) \in Nat
      /\ Bytes(m, b) > 0 /\ Bytes(m, c) > 0
      /\ \A x \in D \ {b, c} : Bytes(n, x) = Bytes(m, x)
    <2>1. \A x \in D \ {b, c} : Bytes(n, x) = Bytes(m, x)
        BY <1>6 DEF Bytes
    <2>2. m.block[b].size \in Nat /\ m.block[c].size \in Nat
        BY <1>1
    <2> QED
        BY <1>1, <1>2, <1>7, <2>1, <2>2 DEF Bytes, Header
<1>9. c = m.block[b].next
    BY DEF c
<1>10. \A x \in D \ {b, c} : n.block[x].next = m.block[x].next /\ m.block[x].next # c
    BY <1>0, <1>1, <1>6, <1>9 DEF Chained
<1>11. m.block[c].next # c
    BY <1>0, <1>1, <1>3, <1>9 DEF Chained
<1>12. m.head # c
    BY <1>0, <1>1, <1>9 DEF Chained
<1>13. Shaped(n)
    <2>1. \A x \in D \ {b, c} : n.block[x] \in [size : Nat, free : BOOLEAN, next : (D \ {c}) \cup {Null}]
        BY <1>0, <1>6, <1>10 DEF Shaped
    <2>2. n.block[b] \in [size : Nat, free : BOOLEAN, next : (D \ {c}) \cup {Null}]
        BY <1>7, <1>11
    <2>3. n.head \in (D \ {c}) \cup {Null}
        BY <1>0, <1>5, <1>12 DEF Shaped
    <2>4. n.tail \in (D \ {c}) \cup {Null}
        BY <1>0, <1>1, <1>3, <1>5 DEF Shaped, Chained
    <2> QED
        BY <1>0, <1>6, <2>1, <2>2, <2>3, <2>4 DEF Shaped
<1>14. Chained(n)
    <2>1. \A x \in DOMAIN n.block : \E y \in D :
             n.block[x].next = m.block[y].next /\ y = (IF x = b THEN c ELSE x)
        BY <1>1, <1>6, <1>7
    <2>2. ASSUME NEW x \in DOMAIN n.block, NEW y \in DOMAIN n.block,
                 n.block[x].next = n.block[y].next, n.block[x].next # Null
          PROVE  x = y
        BY <1>0, <1>6, <2>1, <2>2 DEF Chained
    <2>3. ASSUME NEW x \in DOMAIN n.block, n.block[x].next # Null
          PROVE  n.block[x].next # n.head
        BY <1>0, <1>5, <2>1, <2>3 DEF Chained
    <2>4. n.head # Null
        BY <1>0, <1>1, <1>5 DEF Chained
    <2>5. n.tail # Null => n.block[n.tail].next = Null
        <3>1. CASE m.block[c].next = Null
            BY <1>5, <1>7, <3>1
        <3>2. CASE m.block[c].next # Null
            <4>1. m.tail # c /\ m.tail # b /\ n.tail = m.tail
                BY <1>0, <1>1, <1>5, <1>9, <3>2 DEF Chained, Null
            <4> QED
                BY <1>0, <1>10, <4>1 DEF Chained, Shaped
        <3> QED
            BY <3>1, <3>2
    <2> QED
        BY <2>2, <2>3, <2>4, <2>5 DEF Chained
<1>15. Disjoint(n)
    <2> SUFFICES ASSUME NEW x \in D \ {c}, NEW y \in D \ {c}, x # y
                 PROVE  Heap!Apart(x, Bytes(n, x), y, Bytes(n, y))
        BY <1>6 DEF Disjoint
    <2>0. /\ x \in Nat /\ y \in Nat /\ Bytes(m, x) \in Nat /\ Bytes(m, y) \in Nat
          /\ Bytes(m, x) > 0 /\ Bytes(m, y) > 0
        BY <1>0 DEF Shaped, Bytes, Header
    <2>1. CASE x # b /\ y # b
        BY <1>0, <1>8, <2>1 DEF Disjoint
    <2>2. CASE x = b
        <3>1. Heap!Apart(b, Bytes(m, b), y, Bytes(m, y)) /\ Heap!Apart(c, Bytes(m, c), y, Bytes(m, y))
            BY <1>0, <1>1, <2>2 DEF Disjoint
        <3>2. Bytes(n, y) = Bytes(m, y)
            BY <1>8, <2>2
        <3> QED
            BY <1>1, <1>8, <2>0, <2>2, <3>1, <3>2 DEF Heap!Apart
    <2>3. CASE y = b
        <3>1. Heap!Apart(b, Bytes(m, b), x, Bytes(m, x)) /\ Heap!Apart(c, Bytes(m, c), x, Bytes(m, x))
            BY <1>0, <1>1, <2>3 DEF Disjoint
        <3>2. Bytes(n, x) = Bytes(m, x)
            BY <1>8, <2>3
        <3> QED
            BY <1>1, <1>8, <2>0, <2>3, <3>1, <3>2 DEF Heap!Apart
    <2> QED
        BY <2>1, <2>2, <2>3
<1> QED
    BY <1>1, <1>2, <1>3, <1>6, <1>7, <1>8, <1>13, <1>14, <1>15 DEF Sound, n, c

-----------------------------------------------------------------------------
(***************************************************************************)
(* LiveBacked, said of each block and of each pointer.                     *)
(***************************************************************************)
Backs(m, l) ==
    /\ \A b \in DOMAIN m.block : ~ m.block[b].free <=> b + Header \in DOMAIN l
    /\ \A p \in DOMAIN l : p - Header \in DOMAIN m.block /\ l[p] <= m.block[p - Header].size

LEMMA BacksIs ==
    ASSUME NEW m, NEW l, DOMAIN m.block \subseteq Nat, DOMAIN l \subseteq Nat
    PROVE  Backs(m, l) <=>
              /\ {b \in DOMAIN m.block : ~ m.block[b].free} = {p - Header : p \in DOMAIN l}
              /\ \A p \in DOMAIN l : l[p] <= m.block[p - Header].size
<1>1. /\ \A b \in DOMAIN m.block : b \in Nat /\ (b + Header) - Header = b
      /\ \A p \in DOMAIN l : p \in Nat /\ (p - Header) + Header = p
    BY DEF Header
<1>2. ASSUME Backs(m, l)
      PROVE  {b \in DOMAIN m.block : ~ m.block[b].free} = {p - Header : p \in DOMAIN l}
    <2>1. ASSUME NEW b \in DOMAIN m.block, ~ m.block[b].free
          PROVE  b \in {p - Header : p \in DOMAIN l}
        <3>1. b + Header \in DOMAIN l /\ b = (b + Header) - Header
            BY <1>1, <1>2, <2>1 DEF Backs
        <3> QED
            BY <3>1
    <2>2. ASSUME NEW p \in DOMAIN l
          PROVE  p - Header \in DOMAIN m.block /\ ~ m.block[p - Header].free
        <3>1. p - Header \in DOMAIN m.block
            BY <1>2 DEF Backs
        <3> QED
            BY <1>1, <1>2, <3>1 DEF Backs
    <2> QED
        BY <2>1, <2>2
<1>3. ASSUME {b \in DOMAIN m.block : ~ m.block[b].free} = {p - Header : p \in DOMAIN l}
      PROVE  /\ \A b \in DOMAIN m.block : ~ m.block[b].free <=> b + Header \in DOMAIN l
             /\ \A p \in DOMAIN l : p - Header \in DOMAIN m.block
    <2>1. ASSUME NEW p \in DOMAIN l
          PROVE  p - Header \in DOMAIN m.block /\ ~ m.block[p - Header].free
        BY <1>3
    <2>2. ASSUME NEW b \in DOMAIN m.block, ~ m.block[b].free
          PROVE  b + Header \in DOMAIN l
        <3>1. PICK p \in DOMAIN l : b = p - Header
            BY <1>3, <2>2
        <3>2. b + Header = p
            BY <1>1, <3>1
        <3> QED
            BY <3>2
    <2>3. ASSUME NEW b \in DOMAIN m.block, b + Header \in DOMAIN l
          PROVE  ~ m.block[b].free
        <3>1. b = (b + Header) - Header
            BY <1>1
        <3> QED
            BY <2>1, <2>3, <3>1
    <2> QED
        BY <2>1, <2>2, <2>3
<1> QED
    BY <1>2, <1>3 DEF Backs

LEMMA BacksNow == HeapInv => Backs(memory, live)
<1> SUFFICES ASSUME HeapInv
             PROVE  Backs(memory, live)
    OBVIOUS
<1>1. DOMAIN memory.block \subseteq Nat /\ DOMAIN live \subseteq Nat
    BY DEF HeapInv, Sound, Shaped, Books
<1>2. /\ {b \in DOMAIN memory.block : ~ memory.block[b].free} = {p - Header : p \in DOMAIN live}
      /\ \A p \in DOMAIN live : live[p] <= memory.block[p - Header].size
    BY DEF HeapInv, LiveBacked, Blocks
<1> QED
    BY <1>1, <1>2, BacksIs

LEMMA BackedThen ==
    ASSUME Shaped(memory'), DOMAIN live' \subseteq Nat, Backs(memory', live')
    PROVE  LiveBacked'
<1>1. DOMAIN memory'.block \subseteq Nat
    BY DEF Shaped
<1>2. /\ {b \in DOMAIN memory'.block : ~ memory'.block[b].free} = {p - Header : p \in DOMAIN live'}
      /\ \A p \in DOMAIN live' : live'[p] <= memory'.block[p - Header].size
    BY <1>1, BacksIs
<1> QED
    BY <1>2 DEF LiveBacked, Blocks

\* Pointers and their sizes of which the books keep.
SizesOK(l) == DOMAIN l \subseteq Nat /\ \A p \in DOMAIN l : l[p] \in 1..(Limit - Alignment)

(***************************************************************************)
(* The part of the invariant that is about memory, and what keeps it.      *)
(***************************************************************************)
MemInv == Sound(memory) /\ Covered /\ Books /\ LiveBacked

LEMMA CoveredStays ==
    ASSUME HeapInv, Shaped(memory'), Within(memory', memory), UNCHANGED mapped
    PROVE  Covered'
<1> SUFFICES ASSUME NEW b \in DOMAIN memory'.block,
                    NEW x \in b..(b + Bytes(memory', b) - 1)
             PROVE  \E p \in mapped : p[1] <= x /\ x < p[1] + p[2]
    BY DEF Covered, IsMapped, Blocks
<1>1. PICK y \in DOMAIN memory.block : y <= b /\ b + Bytes(memory', b) <= y + Bytes(memory, y)
    BY DEF Within
<1>2. /\ y \in Nat /\ b \in Nat /\ Bytes(memory, y) \in Nat /\ Bytes(memory', b) \in Nat
    BY DEF HeapInv, Sound, Shaped, Bytes, Header
<1>3. x \in y..(y + Bytes(memory, y) - 1)
    BY <1>1, <1>2
<1> QED
    BY <1>3 DEF HeapInv, Covered, IsMapped, Blocks

LEMMA MemInvThen ==
    ASSUME HeapInv, Sound(memory'), Within(memory', memory), UNCHANGED mapped,
           SizesOK(live'), held' \in Int, Backs(memory', live')
    PROVE  MemInv'
<1>1. Covered'
    BY CoveredStays DEF Sound
<1>2. LiveBacked'
    BY BackedThen DEF Sound, SizesOK
<1>3. Books'
    BY DEF HeapInv, Books, SizesOK
<1> QED
    BY <1>1, <1>2, <1>3 DEF MemInv

LEMMA ResizeKeepsMem ==
    ASSUME HeapInv, NEW t \in Threads, NEW p \in DOMAIN live, NEW n \in 1..(Limit - Alignment),
           Resize(t, p, n), UNCHANGED mapped
    PROVE  MemInv'
<1> DEFINE b == p - Header
<1>1. /\ Sound(memory) /\ Backs(memory, live)
      /\ b \in DOMAIN memory.block /\ p \in Nat
      /\ SizesOK(live) /\ held \in Int
    BY BacksNow DEF HeapInv, Backs, Books, SizesOK
<1>2. /\ Align(n) \in Nat /\ n <= Align(n)
      /\ Align(n) <= memory.block[b].size
      /\ memory.block[b].size \in Nat
    <2>1. memory.block[b].size \in Nat
        BY <1>1 DEF Sound, Shaped
    <2>2. n \in 0..(Limit - Alignment) /\ n \in Nat
        BY AllocatorAssumption DEF Alignment
    <2> QED
        BY <2>1, <2>2, AlignCovers DEF Resize
<1>3. /\ memory' = Split(memory, b, Align(n)) /\ live' = [live EXCEPT ![p] = n]
      /\ UNCHANGED held
    BY DEF Resize
<1>4. /\ Sound(memory') /\ Within(memory', memory)
      /\ DOMAIN memory.block \subseteq DOMAIN memory'.block
      /\ \A x \in DOMAIN memory.block : memory'.block[x].free = memory.block[x].free
      /\ \A x \in DOMAIN memory.block \ {b} : memory'.block[x].size = memory.block[x].size
      /\ \A x \in DOMAIN memory'.block \ DOMAIN memory.block : memory'.block[x].free
      /\ Align(n) <= memory.block[b].size => Align(n) <= memory'.block[b].size
    BY <1>1, <1>2, <1>3, SplitSound
<1>5. SizesOK(live')
    BY <1>1, <1>3 DEF SizesOK
<1>6. Backs(memory', live')
    <2>1. ASSUME NEW x \in DOMAIN memory'.block
          PROVE  ~ memory'.block[x].free <=> x + Header \in DOMAIN live'
        <3>1. CASE x \in DOMAIN memory.block
            BY <1>1, <1>3, <1>4, <3>1 DEF Backs
        <3>2. CASE x \notin DOMAIN memory.block
            <4>1. x + Header \notin DOMAIN live
                <5>1. x \in Nat /\ (x + Header) - Header = x
                    BY <1>4 DEF Sound, Shaped, Header
                <5> QED
                    BY <1>1, <3>2, <5>1 DEF Backs
            <4> QED
                BY <1>3, <1>4, <3>2, <4>1
        <3> QED
            BY <3>1, <3>2
    <2>2. ASSUME NEW q \in DOMAIN live'
          PROVE  q - Header \in DOMAIN memory'.block /\ live'[q] <= memory'.block[q - Header].size
        <3>1. q \in DOMAIN live /\ q - Header \in DOMAIN memory.block /\ q \in Nat
            BY <1>1, <1>3, <2>2 DEF Backs, SizesOK
        <3>2. CASE q = p
            <4>1. memory'.block[b].size \in Nat
                BY <1>1, <1>4 DEF Sound, Shaped
            <4> QED
                BY <1>2, <1>3, <1>4, <3>1, <3>2, <4>1
        <3>3. CASE q # p
            <4>1. q - Header # b
                BY <1>1, <3>1, <3>3 DEF Header
            <4> QED
                BY <1>1, <1>3, <1>4, <3>1, <3>3, <4>1 DEF Backs
        <3> QED
            BY <3>2, <3>3
    <2> QED
        BY <2>1, <2>2 DEF Backs
<1> QED
    BY <1>1, <1>3, <1>4, <1>5, <1>6, MemInvThen

\* The block at b is handed out for size bytes: what was m is n, what was l is k.
HandsOut(n, m, k, l, b, size) ==
    /\ b \in DOMAIN n.block /\ ~ n.block[b].free /\ size <= n.block[b].size
    /\ b \in DOMAIN m.block => m.block[b].free
    /\ DOMAIN m.block \subseteq DOMAIN n.block
    /\ \A x \in DOMAIN m.block \ {b} : /\ n.block[x].free = m.block[x].free
                                       /\ n.block[x].size = m.block[x].size
    /\ \A x \in DOMAIN n.block \ (DOMAIN m.block \cup {b}) : n.block[x].free
    /\ k = [q \in DOMAIN l \cup {b + Header} |-> IF q = b + Header THEN size ELSE l[q]]

LEMMA HandedOutBacked ==
    ASSUME NEW n, NEW m, NEW k, NEW l, NEW b, NEW size \in 1..(Limit - Alignment),
           Shaped(m), Shaped(n), SizesOK(l), Backs(m, l), HandsOut(n, m, k, l, b, size)
    PROVE  Backs(n, k) /\ SizesOK(k) /\ b + Header \notin DOMAIN l
<1>0. /\ b \in Nat \ {0} /\ b + Header \in Nat
      /\ \A x \in DOMAIN n.block : x \in Nat /\ (x + Header) - Header = x
      /\ \A q \in DOMAIN l : q \in Nat /\ (q - Header) + Header = q
    BY DEF HandsOut, Shaped, SizesOK, Header
<1>1. b + Header \notin DOMAIN l
    <2>1. CASE b \in DOMAIN m.block
        BY <2>1 DEF Backs, HandsOut
    <2>2. CASE b \notin DOMAIN m.block
        <3>1. (b + Header) - Header = b
            BY <1>0 DEF Header
        <3> QED
            BY <2>2, <3>1 DEF Backs
    <2> QED
        BY <2>1, <2>2
<1>2. /\ DOMAIN k = DOMAIN l \cup {b + Header}
      /\ k[b + Header] = size
      /\ \A q \in DOMAIN l : k[q] = l[q]
    BY <1>1 DEF HandsOut
<1>3. SizesOK(k)
    BY <1>0, <1>2 DEF SizesOK
<1>4. ASSUME NEW x \in DOMAIN n.block
      PROVE  ~ n.block[x].free <=> x + Header \in DOMAIN k
    <2>1. CASE x = b
        BY <1>2, <2>1 DEF HandsOut
    <2>2. CASE x # b
        <3>1. x + Header # b + Header
            BY <1>0, <2>2 DEF Header
        <3>2. CASE x \in DOMAIN m.block
            BY <1>2, <2>2, <3>1, <3>2 DEF HandsOut, Backs
        <3>3. CASE x \notin DOMAIN m.block
            <4>1. x + Header \notin DOMAIN l
                BY <1>0, <3>3 DEF Backs
            <4> QED
                BY <1>2, <2>2, <3>1, <3>3, <4>1 DEF HandsOut
        <3> QED
            BY <3>2, <3>3
    <2> QED
        BY <2>1, <2>2
<1>5. ASSUME NEW q \in DOMAIN k
      PROVE  q - Header \in DOMAIN n.block /\ k[q] <= n.block[q - Header].size
    <2>1. CASE q = b + Header
        <3>1. q - Header = b
            BY <1>0, <2>1 DEF Header
        <3> QED
            BY <1>2, <2>1, <3>1 DEF HandsOut
    <2>2. CASE q # b + Header
        <3>1. q \in DOMAIN l /\ q - Header \in DOMAIN m.block /\ l[q] <= m.block[q - Header].size
            BY <1>2, <2>2 DEF Backs
        <3>2. q - Header # b
            BY <1>0, <2>2, <3>1
        <3> QED
            BY <1>2, <3>1, <3>2 DEF HandsOut
    <2> QED
        BY <2>1, <2>2
<1> QED
    BY <1>1, <1>3, <1>4, <1>5 DEF Backs

LEMMA TakeKeepsMem ==
    ASSUME HeapInv, NEW t \in Threads, Take(t)
    PROVE  /\ MemInv'
           /\ local[t].block + Header \notin DOMAIN live
<1> DEFINE b == local[t].block
           n == local[t].asked
           m == SetFree(memory, b, FALSE)
<1>1. /\ Sound(memory) /\ Backs(memory, live) /\ SizesOK(live) /\ held \in Int
      /\ b \in DOMAIN memory.block /\ memory.block[b].free
      /\ n \in 1..(Limit - Alignment) /\ Align(n) <= memory.block[b].size
    <2>1. LocalsOf(t) /\ pc[t] = "take"
        BY DEF HeapInv, Locals, Take, At
    <2>2. n \in 1..(Limit - Alignment)
        BY <2>1, AllocatorAssumption DEF LocalsOf, Alignment
    <2> QED
        BY <2>1, <2>2, BacksNow DEF HeapInv, Books, SizesOK, LocalsOf, Blocks
<1>2. /\ Align(n) \in Nat /\ n <= Align(n) /\ memory.block[b].size \in Nat
      /\ Shaped(memory) /\ n \in Nat
    <2>1. n \in 0..(Limit - Alignment) /\ n \in Nat
        BY <1>1, AllocatorAssumption DEF Alignment
    <2> QED
        BY <1>1, <2>1, AlignCovers DEF Sound, Shaped
<1>3. /\ memory' = Split(m, b, Align(n)) /\ held' = held + 1 /\ UNCHANGED mapped
      /\ live' = [q \in DOMAIN live \cup {b + Header} |-> IF q = b + Header THEN n ELSE live[q]]
    BY DEF Take, HandOut
<1> HIDE DEF b, n
<1>4. /\ Sound(m) /\ Within(m, memory)
      /\ DOMAIN m.block = DOMAIN memory.block
      /\ m.block[b].free = FALSE
      /\ \A x \in DOMAIN memory.block \ {b} : m.block[x].free = memory.block[x].free
      /\ \A x \in DOMAIN memory.block : m.block[x].size = memory.block[x].size
    <2>1. FALSE \in BOOLEAN
        OBVIOUS
    <2>2. Remarked(m, memory, b, FALSE)
        BY <1>1, <2>1, SetFreeSound, Zenon
    <2> QED
        BY <2>2, Zenon DEF Remarked
<1> HIDE DEF m
<1>5. /\ Sound(memory') /\ Within(memory', m)
      /\ DOMAIN m.block \subseteq DOMAIN memory'.block
      /\ \A x \in DOMAIN m.block : memory'.block[x].free = m.block[x].free
      /\ \A x \in DOMAIN m.block \ {b} : memory'.block[x].size = m.block[x].size
      /\ \A x \in DOMAIN memory'.block \ DOMAIN m.block : memory'.block[x].free
      /\ Align(n) <= m.block[b].size => Align(n) <= memory'.block[b].size
    BY <1>1, <1>2, <1>3, <1>4, SplitSound
<1>6. Within(memory', memory)
    <2> SUFFICES ASSUME NEW x \in DOMAIN memory'.block
                 PROVE  \E z \in DOMAIN memory.block :
                           z <= x /\ x + Bytes(memory', x) <= z + Bytes(memory, z)
        BY DEF Within
    <2>1. PICK y \in DOMAIN m.block : y <= x /\ x + Bytes(memory', x) <= y + Bytes(m, y)
        BY <1>5 DEF Within
    <2>2. y \in DOMAIN memory.block /\ Bytes(m, y) = Bytes(memory, y)
        BY <1>4, <2>1 DEF Bytes
    <2> QED
        BY <2>1, <2>2
<1>7. n <= memory'.block[b].size
    <2>1. memory'.block[b].size \in Nat
        BY <1>1, <1>4, <1>5 DEF Sound, Shaped
    <2> QED
        BY <1>1, <1>2, <1>4, <1>5, <2>1
<1>8. HandsOut(memory', memory, live', live, b, n)
    BY <1>1, <1>3, <1>4, <1>5, <1>7 DEF HandsOut
<1>9. Backs(memory', live') /\ SizesOK(live') /\ b + Header \notin DOMAIN live
    <2>1. PICK M, L : M = memory' /\ L = live'
        OBVIOUS
    <2>2. Shaped(M) /\ HandsOut(M, memory, L, live, b, n)
        BY <1>5, <1>8, <2>1 DEF Sound
    <2>3. Backs(M, L) /\ SizesOK(L) /\ b + Header \notin DOMAIN live
        BY <1>1, <1>2, <2>2, HandedOutBacked
    <2> QED
        BY <2>1, <2>3
<1> QED
    BY <1>1, <1>3, <1>5, <1>6, <1>9, MemInvThen DEF b

(***************************************************************************)
(* A new mapping shares no byte with a block: a common byte would be       *)
(* mapped twice.                                                           *)
(***************************************************************************)
LEMMA NewPagesApart ==
    ASSUME HeapInv, NEW base \in Bases, NEW length \in Nat, Mappable(base, length),
           NEW c \in Blocks
    PROVE  Heap!Apart(c, Bytes(memory, c), base, length) /\ c # base
<1>1. /\ c \in Nat /\ base \in Nat /\ Bytes(memory, c) \in Nat
      /\ Bytes(memory, c) > 0 /\ length > 0
    BY AllocatorAssumption DEF HeapInv, Sound, Shaped, Bytes, Header, Blocks, Mappable
<1>2. ASSUME NEW x \in Nat, c <= x, x < c + Bytes(memory, c), base <= x, x < base + length
      PROVE  FALSE
    <2>1. x \in c..(c + Bytes(memory, c) - 1)
        BY <1>1, <1>2
    <2>2. PICK q \in mapped : q[1] <= x /\ x < q[1] + q[2]
        BY <2>1 DEF HeapInv, Covered, IsMapped
    <2>3. base + length <= q[1] \/ q[1] + q[2] <= base
        BY <2>2 DEF Mappable
    <2>4. q[1] \in Nat /\ q[2] \in Nat
        BY <2>2 DEF HeapInv, Books
    <2> QED
        BY <1>1, <1>2, <2>2, <2>3, <2>4
<1>3. ASSUME ~ Heap!Apart(c, Bytes(memory, c), base, length)
      PROVE  FALSE
    <2>1. c < base + length /\ base < c + Bytes(memory, c)
        BY <1>1, <1>3 DEF Heap!Apart
    <2>2. CASE c <= base
        BY <1>1, <1>2, <2>1, <2>2
    <2>3. CASE base < c
        BY <1>1, <1>2, <2>1, <2>3
    <2> QED
        BY <1>1, <2>2, <2>3
<1> QED
    BY <1>1, <1>2, <1>3

LEMMA GrowKeepsMem ==
    ASSUME HeapInv, NEW t \in Threads, Grow(t)
    PROVE  /\ MemInv'
           /\ \E p : /\ p \notin DOMAIN live
                     /\ live' = [q \in DOMAIN live \cup {p} |->
                                    IF q = p THEN local[t].asked ELSE live[q]]
<1> DEFINE n == local[t].asked
           size == Align(n)
           length == MappingSize(size)
<1>1. /\ Sound(memory) /\ Backs(memory, live) /\ SizesOK(live) /\ held \in Int
      /\ n \in 1..(Limit - Alignment) /\ n \in Nat \ {0}
    <2>1. LocalsOf(t) /\ pc[t] = "grow"
        BY DEF HeapInv, Locals, Grow, At
    <2>2. n \in 1..(Limit - Alignment) /\ n \in Nat \ {0}
        BY <2>1, AllocatorAssumption DEF LocalsOf, Alignment
    <2> QED
        BY <2>2, BacksNow DEF HeapInv, Books, SizesOK
<1>2. PICK b \in Bases :
          /\ Mappable(b, length)
          /\ mapped' = mapped \cup {<<b, length>>}
          /\ memory' = Split(Appended(memory, b, length - Header), b, size)
          /\ HandOut(b + Header, n)
    BY DEF Grow
<1>3. size \in Nat \ {0} /\ n <= size
    <2>1. n \in 0..(Limit - Alignment)
        BY <1>1, AllocatorAssumption DEF Alignment
    <2> QED
        BY <1>1, <2>1, AlignCovers
<1>4. length \in Nat /\ Header + size <= length
    <2>1. length > 0
        BY <1>2 DEF Mappable
    <2> QED
        BY <1>3, <2>1, MappingFits
<1> DEFINE m == Appended(memory, b, length - Header)
<1>5. /\ length - Header \in Nat /\ size <= length - Header
      /\ b \in Nat \ {0}
      /\ Header + (length - Header) = length
    BY <1>3, <1>4, AllocatorAssumption DEF Header
<1>6. /\ b \notin DOMAIN memory.block
      /\ \A c \in DOMAIN memory.block : Heap!Apart(c, Bytes(memory, c), b, Header + (length - Header))
    BY <1>2, <1>4, <1>5, NewPagesApart DEF Blocks
<1> HIDE DEF n, size, length
<1>7. /\ Sound(m)
      /\ DOMAIN m.block = DOMAIN memory.block \cup {b}
      /\ m.block[b].size = length - Header /\ ~ m.block[b].free
      /\ \A x \in DOMAIN memory.block : /\ m.block[x].free = memory.block[x].free
                                        /\ m.block[x].size = memory.block[x].size
    BY <1>1, <1>5, <1>6, AppendedSound
<1> HIDE DEF m
<1>8. /\ Sound(memory') /\ Within(memory', m)
      /\ DOMAIN m.block \subseteq DOMAIN memory'.block
      /\ \A x \in DOMAIN m.block : memory'.block[x].free = m.block[x].free
      /\ \A x \in DOMAIN m.block \ {b} : memory'.block[x].size = m.block[x].size
      /\ \A x \in DOMAIN memory'.block \ DOMAIN m.block : memory'.block[x].free
      /\ size <= m.block[b].size => size <= memory'.block[b].size
    <2>1. memory' = Split(m, b, size) /\ b \in DOMAIN m.block
        BY <1>2, <1>7 DEF m
    <2> QED
        BY <1>3, <1>7, <2>1, SplitSound
<1>9. n <= memory'.block[b].size
    <2>1. memory'.block[b].size \in Nat
        BY <1>7, <1>8 DEF Sound, Shaped
    <2> QED
        BY <1>1, <1>3, <1>5, <1>7, <1>8, <2>1
<1>10. /\ live' = [q \in DOMAIN live \cup {b + Header} |-> IF q = b + Header THEN n ELSE live[q]]
       /\ held' = held + 1
    BY <1>2 DEF HandOut
<1>11. HandsOut(memory', memory, live', live, b, n)
    BY <1>6, <1>7, <1>8, <1>9, <1>10 DEF HandsOut
<1>12. Backs(memory', live') /\ SizesOK(live') /\ b + Header \notin DOMAIN live
    <2>1. PICK M, L : M = memory' /\ L = live'
        OBVIOUS
    <2>2. Shaped(memory) /\ Shaped(M) /\ HandsOut(M, memory, L, live, b, n)
        BY <1>1, <1>8, <1>11, <2>1 DEF Sound
    <2>3. Backs(M, L) /\ SizesOK(L) /\ b + Header \notin DOMAIN live
        BY <1>1, <2>2, HandedOutBacked
    <2> QED
        BY <2>1, <2>3
<1>13. Covered'
    <2> SUFFICES ASSUME NEW c \in DOMAIN memory'.block,
                        NEW x \in c..(c + Bytes(memory', c) - 1)
                 PROVE  \E p \in mapped' : p[1] <= x /\ x < p[1] + p[2]
        BY DEF Covered, IsMapped, Blocks
    <2>1. PICK y \in DOMAIN m.block : y <= c /\ c + Bytes(memory', c) <= y + Bytes(m, y)
        BY <1>8 DEF Within
    <2>2. /\ y \in Nat /\ c \in Nat /\ Bytes(m, y) \in Nat /\ Bytes(memory', c) \in Nat
        BY <1>7, <1>8, <2>1 DEF Sound, Shaped, Bytes, Header
    <2>3. x \in y..(y + Bytes(m, y) - 1)
        BY <2>1, <2>2
    <2>4. CASE y = b
        <3>1. Bytes(m, b) = length
            BY <1>5, <1>7 DEF Bytes
        <3>2. /\ <<b, length>> \in mapped'
              /\ <<b, length>>[1] = b /\ <<b, length>>[2] = length
            BY <1>2
        <3>3. b <= x /\ x < b + length
            BY <1>4, <1>5, <2>3, <2>4, <3>1
        <3> QED
            BY <3>2, <3>3
    <2>5. CASE y # b
        <3>1. y \in DOMAIN memory.block /\ Bytes(m, y) = Bytes(memory, y)
            BY <1>7, <2>1, <2>5 DEF Bytes
        <3>2. IsMapped(x)
            BY <2>3, <3>1 DEF HeapInv, Covered, Blocks
        <3> QED
            BY <1>2, <3>2 DEF IsMapped
    <2> QED
        BY <2>4, <2>5
<1>14. Books'
    <2>1. b + length <= Top
        BY <1>2 DEF Mappable
    <2> QED
        BY <1>1, <1>2, <1>4, <1>5, <1>10, <1>12, <2>1 DEF HeapInv, Books, SizesOK
<1>15. LiveBacked'
    BY <1>8, <1>12, BackedThen DEF Sound, SizesOK
<1> QED
    BY <1>8, <1>10, <1>12, <1>13, <1>14, <1>15 DEF MemInv, n

LEMMA MarkKeepsMem ==
    ASSUME HeapInv, NEW t \in Threads, Mark(t)
    PROVE  /\ MemInv'
           /\ local[t].ptr \in DOMAIN live
           /\ memory.head \in DOMAIN memory'.block
<1> DEFINE p == local[t].ptr
           b == p - Header
<1>1. /\ Sound(memory) /\ Backs(memory, live) /\ SizesOK(live) /\ held \in Int
      /\ p \in DOMAIN live /\ b \in DOMAIN memory.block /\ p \in Nat
    <2>1. LocalsOf(t) /\ pc[t] = "mark"
        BY DEF HeapInv, Locals, Mark, At
    <2> QED
        BY <2>1, BacksNow DEF HeapInv, Books, SizesOK, LocalsOf, Backs
<1>2. /\ memory' = SetFree(memory, b, TRUE) /\ held' = held - 1 /\ UNCHANGED mapped
      /\ live' = [q \in DOMAIN live \ {p} |-> live[q]]
    BY DEF Mark
<1>3. b + Header = p /\ \A x \in DOMAIN memory.block : x + Header = p => x = b
    BY <1>1 DEF Sound, Shaped, Header
<1> HIDE DEF p, b
<1>4. /\ Sound(memory') /\ Within(memory', memory)
      /\ DOMAIN memory'.block = DOMAIN memory.block
      /\ memory'.block[b].free = TRUE
      /\ \A x \in DOMAIN memory.block \ {b} : memory'.block[x].free = memory.block[x].free
      /\ \A x \in DOMAIN memory.block : memory'.block[x].size = memory.block[x].size
    <2>1. TRUE \in BOOLEAN
        OBVIOUS
    <2>2. Remarked(SetFree(memory, b, TRUE), memory, b, TRUE)
        BY <1>1, <2>1, SetFreeSound, Zenon
    <2>3. Remarked(memory', memory, b, TRUE)
        BY <1>2, <2>2, Zenon
    <2> QED
        BY <2>3, Zenon DEF Remarked
<1>5. SizesOK(live')
    BY <1>1, <1>2 DEF SizesOK
<1>6. Backs(memory', live')
    <2>1. ASSUME NEW x \in DOMAIN memory'.block
          PROVE  ~ memory'.block[x].free <=> x + Header \in DOMAIN live'
        <3>1. CASE x = b
            BY <1>2, <1>3, <1>4, <3>1
        <3>2. CASE x # b
            <4>1. x + Header # p
                BY <1>3, <1>4, <3>2
            <4> QED
                BY <1>1, <1>2, <1>4, <3>2, <4>1 DEF Backs
        <3> QED
            BY <3>1, <3>2
    <2>2. \A q \in DOMAIN live' :
             q - Header \in DOMAIN memory'.block /\ live'[q] <= memory'.block[q - Header].size
        BY <1>1, <1>2, <1>4 DEF Backs
    <2> QED
        BY <2>1, <2>2 DEF Backs
<1>7. memory.head \in DOMAIN memory.block
    BY <1>1 DEF Sound, Shaped, Chained
<1>8. held' \in Int
    BY <1>1, <1>2
<1> QED
    BY <1>1, <1>2, <1>4, <1>5, <1>6, <1>7, <1>8, MemInvThen DEF p

LEMMA MergeKeepsMem ==
    ASSUME HeapInv, NEW b \in Blocks, memory.block[b].next # Null, Mergeable(memory, b),
           memory' = Merged(memory, b), UNCHANGED <<mapped, live, held>>
    PROVE  MemInv' /\ b \in Blocks'
<1> DEFINE c == memory.block[b].next
           D == DOMAIN memory.block
<1>1. /\ Sound(memory) /\ Backs(memory, live) /\ SizesOK(live) /\ held \in Int
      /\ b \in D
    BY BacksNow DEF HeapInv, Books, SizesOK, Blocks
<1>2. /\ Sound(memory')
      /\ c \in D /\ c # b /\ memory.block[c].free /\ memory.block[b].free
      /\ DOMAIN memory'.block = D \ {c}
      /\ memory'.block[b].free = memory.block[b].free
      /\ c = b + Bytes(memory, b) /\ Bytes(memory', b) = Bytes(memory, b) + Bytes(memory, c)
      /\ \A x \in D \ {b, c} : memory'.block[x] = memory.block[x]
    BY <1>1, MergedSound
<1> HIDE DEF c
<1>3. /\ \A x \in D : x \in Nat /\ Bytes(memory, x) \in Nat /\ memory.block[x].size \in Nat
    BY <1>1 DEF Sound, Shaped, Bytes, Header
<1>4. \A x \in D \ {b, c} : Bytes(memory', x) = Bytes(memory, x)
    BY <1>2 DEF Bytes
<1>5. Covered'
    <2> SUFFICES ASSUME NEW a \in D \ {c}, NEW x \in a..(a + Bytes(memory', a) - 1)
                 PROVE  \E q \in mapped : q[1] <= x /\ x < q[1] + q[2]
        BY <1>2 DEF Covered, IsMapped, Blocks
    <2>0. \A y \in D : \A z \in y..(y + Bytes(memory, y) - 1) :
             \E q \in mapped : q[1] <= z /\ z < q[1] + q[2]
        BY DEF HeapInv, Covered, IsMapped, Blocks
    <2>1. CASE a # b
        BY <1>4, <2>0, <2>1
    <2>2. CASE a = b
        <3>1. \/ x \in b..(b + Bytes(memory, b) - 1)
              \/ x \in c..(c + Bytes(memory, c) - 1)
            BY <1>1, <1>2, <1>3, <2>2
        <3> QED
            BY <1>1, <1>2, <2>0, <3>1
    <2> QED
        BY <2>1, <2>2
<1>6. Backs(memory', live')
    <2>1. ASSUME NEW x \in D \ {c}
          PROVE  ~ memory'.block[x].free <=> x + Header \in DOMAIN live
        BY <1>1, <1>2 DEF Backs
    <2>2. ASSUME NEW q \in DOMAIN live
          PROVE  /\ q - Header \in D \ {c}
                 /\ live[q] <= memory'.block[q - Header].size
        <3>1. /\ q \in Nat /\ (q - Header) + Header = q
              /\ q - Header \in D /\ live[q] <= memory.block[q - Header].size
            BY <1>1 DEF Backs, SizesOK, Header
        <3>2. ~ memory.block[q - Header].free
            BY <1>1, <3>1 DEF Backs
        <3>3. q - Header # c /\ q - Header # b
            BY <1>2, <3>2
        <3> QED
            BY <1>2, <3>1, <3>3
    <2> QED
        BY <1>2, <2>1, <2>2 DEF Backs
<1>7. LiveBacked'
    BY <1>1, <1>2, <1>6, BackedThen DEF Sound, SizesOK
<1>8. Books'
    BY DEF HeapInv, Books
<1> QED
    BY <1>1, <1>2, <1>5, <1>7, <1>8 DEF MemInv, Blocks

-----------------------------------------------------------------------------
(***************************************************************************)
(* The lock, and the locals of the thread inside.                          *)
(***************************************************************************)

\* What a thread that works inside without leaving does to pc, local and lock.
StaysInside(t) ==
    /\ pc[t] \in Inside
    /\ \E place \in Inside : pc' = [pc EXCEPT ![t] = place]
    /\ DOMAIN local' = Threads
    /\ \A u \in Threads \ {t} : local'[u] = local[u]
    /\ UNCHANGED lock

LEMMA WorkStaysInside ==
    ASSUME HeapInv, NEW t \in Threads, Work(t), ~ Unlock(t)
    PROVE  StaysInside(t)
<1>0. /\ DOMAIN local = Threads
      /\ pc = [pc EXCEPT ![t] = pc[t]]
    BY DEF HeapInv, Locals, Locked
<1> USE DEF StaysInside, At, Goes, Inside
<1>1. CASE BeginMalloc(t)
    BY <1>0, <1>1 DEF BeginMalloc
<1>2. CASE BeginFree(t)
    BY <1>0, <1>2 DEF BeginFree
<1>3. CASE BeginRealloc(t)
    <2>1. pc[t] = "locked" /\ UNCHANGED lock
        BY <1>3 DEF BeginRealloc
    <2>2. /\ \E place \in {"unlock", "find"} : pc' = [pc EXCEPT ![t] = place]
          /\ \/ UNCHANGED local
             \/ \E r : local' = [local EXCEPT ![t] = r]
        BY <1>3 DEF BeginRealloc, Resize
    <2> QED
        BY <1>0, <2>1, <2>2
<1>4. CASE Find(t)
    <2>1. pc[t] = "find" /\ UNCHANGED lock
        BY <1>4 DEF Find
    <2>2. /\ \E place \in {"grow", "take"} : pc' = [pc EXCEPT ![t] = place]
          /\ \/ UNCHANGED local
             \/ \E r : local' = [local EXCEPT ![t] = r]
        BY <1>4 DEF Find
    <2> QED
        BY <1>0, <2>1, <2>2
<1>5. CASE Take(t)
    BY <1>0, <1>5 DEF Take, AfterMalloc
<1>6. CASE Grow(t)
    BY <1>0, <1>6 DEF Grow, AfterMalloc
<1>7. CASE GrowFails(t)
    BY <1>0, <1>7 DEF GrowFails
<1>8. CASE Mark(t)
    BY <1>0, <1>8 DEF Mark
<1>9. CASE Merge(t)
    BY <1>0, <1>9 DEF Merge
<1> QED
    BY <1>1, <1>2, <1>3, <1>4, <1>5, <1>6, <1>7, <1>8, <1>9 DEF Work

LEMMA InsideIsPlace == Inside \subseteq Places
BY DEF Places

LEMMA LockedKept == HeapInv /\ [Next]_vars => Locked'
<1> SUFFICES ASSUME HeapInv, [Next]_vars
             PROVE  Locked'
    OBVIOUS
<1>0. Locked /\ DOMAIN local = Threads
    BY DEF HeapInv, Locals
<1>1. ASSUME NEW t \in Threads, Call(t)
      PROVE  Locked'
    BY <1>0, <1>1 DEF Call, Locked, At, Goes, Places, Inside
<1>2. ASSUME NEW t \in Threads, Exchange(t)
      PROVE  Locked'
    BY <1>0, <1>2 DEF Exchange, Locked, At, Goes, Places, Inside
<1>3. ASSUME NEW t \in Threads, Spin(t)
      PROVE  Locked'
    BY <1>0, <1>3 DEF Spin, Locked, At, Goes, Places, Inside
<1>4. ASSUME NEW t \in Threads, Unlock(t)
      PROVE  Locked'
    BY <1>0, <1>4 DEF Unlock, Locked, At, Goes, Places, Inside
<1>5. ASSUME NEW t \in Threads, Work(t), ~ Unlock(t)
      PROVE  Locked'
    <2>1. StaysInside(t)
        BY <1>5, WorkStaysInside
    <2> QED
        BY <1>0, <2>1, InsideIsPlace DEF StaysInside, Locked
<1>6. CASE UNCHANGED vars
    BY <1>0, <1>6 DEF vars, Locked
<1> QED
    BY <1>1, <1>2, <1>3, <1>4, <1>5, <1>6 DEF Next

\* A thread outside has nothing in its locals that a step inside could disturb.
LEMMA LocalsOfOthers ==
    ASSUME HeapInv, NEW t \in Threads, StaysInside(t), LocalsOf(t)'
    PROVE  Locals'
<1> SUFFICES ASSUME NEW u \in Threads, u # t
             PROVE  LocalsOf(u)'
    BY DEF Locals, StaysInside
<1>1. pc'[u] = pc[u] /\ local'[u] = local[u] /\ LocalsOf(u)
    BY DEF StaysInside, HeapInv, Locked, Locals
<1>2. pc[u] \notin Inside
    BY DEF StaysInside, HeapInv, Locked
<1> QED
    BY <1>1, <1>2 DEF LocalsOf, Inside

LEMMA OutsideKeepsLocals ==
    ASSUME HeapInv, NEW t \in Threads, Call(t) \/ Exchange(t) \/ Spin(t) \/ Unlock(t)
    PROVE  Locals' /\ UNCHANGED <<memory, mapped, live, held>>
<1>0. /\ Locked /\ DOMAIN local = Threads
      /\ \A u \in Threads : LocalsOf(u)
    BY DEF HeapInv, Locals
<1>1. UNCHANGED <<memory, mapped, live, held>>
    BY DEF Call, Exchange, Spin, Unlock, handVars
<1>2. ASSUME NEW u \in Threads
      PROVE  LocalsOf(u)'
    <2>1. CASE Call(t) \/ Exchange(t) \/ Spin(t)
        <3>1. /\ UNCHANGED local
              /\ pc'[u] = pc[u] \/ (pc[u] \in {"out", "try", "spin"} /\ pc'[u] \in {"try", "locked", "spin"})
            BY <1>0, <2>1 DEF Call, Exchange, Spin, At, Goes, Locked
        <3> QED
            BY <1>0, <1>1, <3>1 DEF LocalsOf, Blocks
    <2>2. CASE Unlock(t)
        <3>1. CASE u = t
            <4>1. local'[u] = NoLocal /\ pc'[u] = "out"
                BY <1>0, <2>2, <3>1 DEF Unlock, Goes, Locked
            <4>2. NoLocal \in [ptr : Nat, asked : 0..(Limit - Alignment), block : Nat]
                BY AllocatorAssumption DEF NoLocal, Null, Alignment, PageSize
            <4> QED
                BY <4>1, <4>2 DEF LocalsOf
        <3>2. CASE u # t
            <4>1. local'[u] = local[u] /\ pc'[u] = pc[u]
                BY <1>0, <2>2, <3>2 DEF Unlock, Goes, Locked
            <4> QED
                BY <1>0, <1>1, <4>1 DEF LocalsOf, Blocks
        <3> QED
            BY <3>1, <3>2
    <2> QED
        BY <2>1, <2>2
<1>3. DOMAIN local' = Threads
    BY <1>0 DEF Call, Exchange, Spin, Unlock
<1> QED
    BY <1>1, <1>2, <1>3 DEF Locals

LEMMA MemInvSame ==
    ASSUME HeapInv, UNCHANGED <<memory, mapped, live, held>>
    PROVE  MemInv'
<1>1. Sound(memory') /\ Within(memory', memory)
    BY WithinItself DEF HeapInv, Sound
<1>2. Backs(memory', live') /\ SizesOK(live') /\ held' \in Int
    BY BacksNow DEF HeapInv, Books, SizesOK
<1> QED
    BY <1>1, <1>2, MemInvThen

LEMMA AskedIsSize == 1..(Limit - Alignment) \subseteq 0..(Limit - Alignment)
BY AllocatorAssumption DEF Alignment

LEMMA BeginKeeps ==
    ASSUME HeapInv, NEW t \in Threads, BeginMalloc(t) \/ BeginFree(t) \/ BeginRealloc(t)
    PROVE  MemInv' /\ LocalsOf(t)'
<1>0. /\ local[t] = NoLocal /\ DOMAIN local = Threads /\ DOMAIN pc = Threads
      /\ NoLocal = [ptr |-> Null, asked |-> 0, block |-> Null]
      /\ Null \in Nat /\ 0 \in 0..(Limit - Alignment) /\ 1 \in 1..(Limit - Alignment)
      /\ \A n \in Requests : n \in 0..(Limit - Alignment)
    <2>1. LocalsOf(t) /\ pc[t] = "locked"
        BY DEF HeapInv, Locals, BeginMalloc, BeginFree, BeginRealloc, At
    <2>2. 0 \in 0..(Limit - Alignment) /\ 1 \in 1..(Limit - Alignment)
        BY AllocatorAssumption DEF Alignment, PageSize
    <2> QED
        BY <2>1, <2>2, AllocatorAssumption DEF LocalsOf, NoLocal, Null, HeapInv, Locals, Locked
<1>1. CASE BeginMalloc(t)
    <2>1. UNCHANGED <<memory, mapped, live, held>> /\ pc'[t] = "find"
        BY <1>0, <1>1 DEF BeginMalloc, handVars, Goes
    <2>2. PICK n \in 1..(Limit - Alignment) : local'[t] = [NoLocal EXCEPT !.asked = n]
        <3>1. PICK k \in Requests :
                 local' = [local EXCEPT ![t] = [NoLocal EXCEPT !.asked = IF k = 0 THEN 1 ELSE k]]
            BY <1>1 DEF BeginMalloc
        <3>2. (IF k = 0 THEN 1 ELSE k) \in 1..(Limit - Alignment)
            BY <1>0
        <3> QED
            BY <1>0, <3>1, <3>2
    <2>3. /\ local'[t].ptr = Null /\ local'[t].asked = n
          /\ local'[t] \in [ptr : Nat, asked : 0..(Limit - Alignment), block : Nat]
        BY <1>0, <2>2, AskedIsSize
    <2>4. LocalsOf(t)'
        BY <2>1, <2>3 DEF LocalsOf
    <2> QED
        BY <2>1, <2>4, MemInvSame
<1>2. CASE BeginFree(t)
    <2>1. UNCHANGED <<memory, mapped, live, held>>
        BY <1>2 DEF BeginFree, handVars
    <2>2. CASE pc'[t] = "unlock" /\ local'[t] = NoLocal
        <3>1. LocalsOf(t)'
            BY <1>0, <2>2 DEF LocalsOf
        <3> QED
            BY <2>1, <3>1, MemInvSame
    <2>3. ASSUME NEW p \in DOMAIN live, pc'[t] = "mark",
                 local'[t] = [NoLocal EXCEPT !.ptr = p]
          PROVE  LocalsOf(t)' /\ MemInv'
        <3>1. p \in Nat
            BY DEF HeapInv, Books
        <3>2. /\ local'[t].ptr = p
              /\ local'[t] \in [ptr : Nat, asked : 0..(Limit - Alignment), block : Nat]
            BY <1>0, <2>3, <3>1
        <3>3. LocalsOf(t)'
            BY <2>1, <2>3, <3>2 DEF LocalsOf
        <3> QED
            BY <2>1, <3>3, MemInvSame
    <2> QED
        BY <1>0, <1>2, <2>2, <2>3 DEF BeginFree, Goes
<1>3. CASE BeginRealloc(t)
    <2>1. PICK p \in DOMAIN live, n \in Requests \ {0} :
             \/ Resize(t, p, n)
             \/ /\ local' = [local EXCEPT ![t] = [ptr |-> p, asked |-> n, block |-> Null]]
                /\ Goes(t, "find")
                /\ UNCHANGED <<memory, handVars>>
        BY <1>3 DEF BeginRealloc
    <2>2. n \in 1..(Limit - Alignment) /\ UNCHANGED mapped
        BY <1>0, <1>3 DEF BeginRealloc
    <2>3. CASE Resize(t, p, n)
        <3>1. MemInv'
            BY <2>2, <2>3, ResizeKeepsMem
        <3>2. pc'[t] = "unlock" /\ local'[t] = NoLocal
            BY <1>0, <2>3 DEF Resize, Goes
        <3>3. LocalsOf(t)'
            BY <1>0, <3>2 DEF LocalsOf
        <3> QED
            BY <3>1, <3>3
    <2>4. CASE /\ local' = [local EXCEPT ![t] = [ptr |-> p, asked |-> n, block |-> Null]]
               /\ Goes(t, "find")
               /\ UNCHANGED <<memory, handVars>>
        <3>1. UNCHANGED <<memory, mapped, live, held>> /\ pc'[t] = "find"
            BY <1>0, <2>2, <2>4 DEF handVars, Goes
        <3>2. p \in Nat
            BY DEF HeapInv, Books
        <3>3. /\ local'[t].ptr = p /\ local'[t].asked = n
              /\ local'[t] \in [ptr : Nat, asked : 0..(Limit - Alignment), block : Nat]
            BY <1>0, <2>2, <2>4, <3>2, AskedIsSize
        <3>4. LocalsOf(t)'
            BY <2>2, <3>1, <3>3 DEF LocalsOf
        <3> QED
            BY <3>1, <3>4, MemInvSame
    <2> QED
        BY <2>1, <2>3, <2>4
<1> QED
    BY <1>1, <1>2, <1>3

LEMMA FindKeeps ==
    ASSUME HeapInv, NEW t \in Threads, Find(t)
    PROVE  MemInv' /\ LocalsOf(t)'
<1>0. /\ LocalsOf(t) /\ pc[t] = "find" /\ DOMAIN local = Threads /\ DOMAIN pc = Threads
      /\ UNCHANGED <<memory, mapped, live, held>>
    BY DEF HeapInv, Locals, Locked, Find, At, handVars
<1>1. CASE UNCHANGED local /\ Goes(t, "grow")
    BY <1>0, <1>1, MemInvSame DEF Goes, LocalsOf
<1>2. ASSUME NEW b \in Fitting(Align(local[t].asked)), Goes(t, "take"),
             local' = [local EXCEPT ![t] = [local[t] EXCEPT !.block = b]]
      PROVE  MemInv' /\ LocalsOf(t)'
    <2>1. /\ b \in Blocks /\ memory.block[b].free
          /\ memory.block[b].size >= Align(local[t].asked)
          /\ b \in Nat /\ memory.block[b].size \in Nat
        BY <1>2 DEF Fitting, HeapInv, Sound, Shaped, Blocks
    <2>2. Align(local[t].asked) \in Nat
        BY <1>0, AlignCovers DEF LocalsOf
    <2>3. /\ local'[t].block = b /\ local'[t].asked = local[t].asked
          /\ local'[t].ptr = local[t].ptr
          /\ local'[t] \in [ptr : Nat, asked : 0..(Limit - Alignment), block : Nat]
          /\ pc'[t] = "take"
        BY <1>0, <1>2, <2>1 DEF Goes, LocalsOf
    <2>4. Align(local[t].asked) <= memory.block[b].size
        BY <2>1, <2>2
    <2>5. LocalsOf(t)'
        BY <1>0, <2>1, <2>3, <2>4 DEF LocalsOf, Blocks
    <2> QED
        BY <1>0, <2>5, MemInvSame
<1> QED
    BY <1>1, <1>2 DEF Find

LEMMA MallocKeeps ==
    ASSUME HeapInv, NEW t \in Threads, Take(t) \/ Grow(t) \/ GrowFails(t)
    PROVE  MemInv' /\ LocalsOf(t)'
<1>0. /\ LocalsOf(t) /\ pc[t] \in {"take", "grow"} /\ DOMAIN pc = Threads
      /\ UNCHANGED local
    BY DEF HeapInv, Locals, Locked, Take, Grow, GrowFails, At
<1>1. CASE GrowFails(t)
    <2>1. UNCHANGED <<memory, mapped, live, held>> /\ pc'[t] = "unlock"
        BY <1>0, <1>1 DEF GrowFails, handVars, Goes
    <2> QED
        BY <1>0, <2>1, MemInvSame DEF LocalsOf
<1>2. CASE Take(t) \/ Grow(t)
    <2>1. MemInv'
        BY <1>2, TakeKeepsMem, GrowKeepsMem
    <2>2. DOMAIN live \subseteq DOMAIN live'
        BY <1>2 DEF Take, Grow, HandOut
    <2>3. \/ pc'[t] = "unlock"
          \/ pc'[t] = "mark" /\ local[t].ptr # Null
        BY <1>0, <1>2 DEF Take, Grow, AfterMalloc, Goes
    <2>4. LocalsOf(t)'
        BY <1>0, <2>2, <2>3 DEF LocalsOf
    <2> QED
        BY <2>1, <2>4
<1> QED
    BY <1>1, <1>2

LEMMA FreeKeeps ==
    ASSUME HeapInv, NEW t \in Threads, Mark(t) \/ Merge(t)
    PROVE  MemInv' /\ LocalsOf(t)'
<1>0. LocalsOf(t) /\ DOMAIN local = Threads /\ DOMAIN pc = Threads
    BY DEF HeapInv, Locals, Locked
<1>1. CASE Mark(t)
    <2>1. MemInv' /\ memory.head \in DOMAIN memory'.block
        BY <1>1, MarkKeepsMem
    <2>2. /\ pc'[t] = "merge"
          /\ local'[t] = [local[t] EXCEPT !.block = memory.head]
        BY <1>0, <1>1 DEF Mark, Goes
    <2>3. memory.head \in Nat
        BY <2>1 DEF MemInv, Sound, Shaped
    <2>4. /\ local'[t].block = memory.head
          /\ local'[t] \in [ptr : Nat, asked : 0..(Limit - Alignment), block : Nat]
        BY <1>0, <2>2, <2>3 DEF LocalsOf
    <2>5. LocalsOf(t)'
        BY <2>1, <2>2, <2>4 DEF LocalsOf, Blocks
    <2> QED
        BY <2>1, <2>5
<1>2. CASE Merge(t)
    <2> DEFINE b == local[t].block
               c == memory.block[b].next
    <2>0. b \in Blocks /\ pc[t] = "merge" /\ UNCHANGED <<mapped, live, held>>
        BY <1>0, <1>2 DEF Merge, At, LocalsOf, handVars
    <2>1. CASE Goes(t, "unlock") /\ UNCHANGED <<memory, local>>
        <3>1. pc'[t] = "unlock"
            BY <1>0, <2>1 DEF Goes
        <3> QED
            BY <1>0, <2>0, <2>1, <3>1, MemInvSame DEF LocalsOf
    <2>2. CASE /\ c # Null /\ Mergeable(memory, b)
               /\ memory' = Merged(memory, b)
               /\ UNCHANGED <<pc, local>>
        <3>1. MemInv' /\ b \in Blocks'
            BY <2>0, <2>2, MergeKeepsMem
        <3> QED
            BY <1>0, <2>0, <2>2, <3>1 DEF LocalsOf
    <2>3. CASE /\ c # Null
               /\ local' = [local EXCEPT ![t] = [local[t] EXCEPT !.block = c]]
               /\ UNCHANGED <<memory, pc>>
        <3>1. c \in Blocks /\ c \in Nat
            BY <2>0, <2>3 DEF HeapInv, Sound, Shaped, Blocks
        <3>2. /\ local'[t].block = c
              /\ local'[t] \in [ptr : Nat, asked : 0..(Limit - Alignment), block : Nat]
            BY <1>0, <2>3, <3>1 DEF LocalsOf
        <3>3. LocalsOf(t)'
            BY <2>0, <2>3, <3>1, <3>2 DEF LocalsOf, Blocks
        <3> QED
            BY <2>0, <2>3, <3>3, MemInvSame
    <2> QED
        BY <1>2, <2>1, <2>2, <2>3 DEF Merge
<1> QED
    BY <1>1, <1>2

LEMMA HeapInvInductive == HeapInv /\ [Next]_vars => HeapInv'
<1> SUFFICES ASSUME HeapInv, [Next]_vars
             PROVE  HeapInv'
    OBVIOUS
<1>0. Locked'
    BY LockedKept
<1>1. ASSUME NEW t \in Threads, Work(t), ~ Unlock(t)
      PROVE  MemInv' /\ Locals'
    <2>1. MemInv' /\ LocalsOf(t)'
        BY <1>1, BeginKeeps, FindKeeps, MallocKeeps, FreeKeeps DEF Work
    <2> QED
        BY <1>1, <2>1, WorkStaysInside, LocalsOfOthers
<1>2. ASSUME NEW t \in Threads, Call(t) \/ Exchange(t) \/ Spin(t) \/ Unlock(t)
      PROVE  MemInv' /\ Locals'
    BY <1>2, OutsideKeepsLocals, MemInvSame
<1>3. ASSUME UNCHANGED vars
      PROVE  MemInv' /\ Locals'
    <2>1. UNCHANGED <<memory, mapped, live, held, pc, local>>
        BY <1>3 DEF vars, handVars
    <2>2. Locals'
        BY <2>1 DEF HeapInv, Locals, LocalsOf, Blocks
    <2> QED
        BY <2>1, <2>2, MemInvSame
<1>4. MemInv' /\ Locals'
    BY <1>1, <1>2, <1>3 DEF Next
<1> QED
    BY <1>0, <1>4 DEF MemInv, HeapInv

LEMMA HeapInvInit == Init => HeapInv
<1> SUFFICES ASSUME Init
             PROVE  HeapInv
    OBVIOUS
<1> USE DEF Init
<1>1. memory.head = Null /\ memory.tail = Null /\ DOMAIN memory.block = {}
    OBVIOUS
<1>2. Sound(memory)
    BY <1>1 DEF Sound, Shaped, Chained, Disjoint
<1>3. Covered /\ Books /\ LiveBacked
    BY <1>1 DEF Covered, Books, LiveBacked, Blocks
<1>4. Locked
    BY DEF Locked, Places, Inside
<1>5. Locals
    <2>1. NoLocal \in [ptr : Nat, asked : 0..(Limit - Alignment), block : Nat]
        BY AllocatorAssumption DEF NoLocal, Null, Alignment, PageSize
    <2> QED
        BY <2>1 DEF Locals, LocalsOf
<1> QED
    BY <1>2, <1>3, <1>4, <1>5 DEF HeapInv

LEMMA HeapInvAlways == Spec => []HeapInv
BY HeapInvInit, HeapInvInductive, PTL DEF Spec

LEMMA TypesAndBlocks == HeapInv => TypeOK /\ BlocksApart /\ LiveBacked
<1> SUFFICES ASSUME HeapInv
             PROVE  TypeOK /\ BlocksApart /\ LiveBacked
    OBVIOUS
<1>1. BlocksApart /\ LiveBacked
    BY DEF HeapInv, Sound, Disjoint, BlocksApart, Bytes, Blocks
<1>2. \A t \in Threads : /\ local[t].ptr \in DOMAIN live \cup {Null} \/ pc[t] \in {"merge", "unlock"}
                         /\ local[t].asked \in 0..(Limit - Alignment)
                         /\ pc[t] = "merge" => local[t].block \in Blocks
    <2> SUFFICES ASSUME NEW t \in Threads
                 PROVE  /\ local[t].ptr \in DOMAIN live \cup {Null} \/ pc[t] \in {"merge", "unlock"}
                        /\ local[t].asked \in 0..(Limit - Alignment)
                        /\ pc[t] = "merge" => local[t].block \in Blocks
        OBVIOUS
    <2>1. LocalsOf(t) /\ pc[t] \in Places
        BY DEF HeapInv, Locals, Locked
    <2>2. NoLocal.ptr = Null
        BY DEF NoLocal
    <2> QED
        BY <2>1, <2>2 DEF LocalsOf, Places, Inside
<1>3. /\ \A b \in Blocks : memory.block[b] \in [size : Nat, free : BOOLEAN, next : Blocks \cup {Null}]
      /\ {memory.head, memory.tail} \subseteq Blocks \cup {Null}
    BY DEF HeapInv, Sound, Shaped, Blocks
<1>4. /\ \A m \in mapped : m[1] \in Bases /\ m[2] \in Nat /\ m[1] + m[2] <= Top
      /\ \A p \in DOMAIN live : live[p] \in 1..(Limit - Alignment)
      /\ held \in Int
    BY DEF HeapInv, Books
<1> QED
    BY <1>1, <1>2, <1>3, <1>4 DEF TypeOK, HeapInv, Locked

(***************************************************************************)
(* The bytes of two pointers handed out have none in common.               *)
(***************************************************************************)
LEMMA LiveApart ==
    ASSUME NEW m, NEW l, Sound(m), SizesOK(l), Backs(m, l),
           NEW p \in DOMAIN l, NEW q \in DOMAIN l, p # q
    PROVE  Heap!Apart(p, l[p], q, l[q])
<1> DEFINE b == p - Header
           c == q - Header
<1>1. /\ p \in Nat /\ q \in Nat /\ p = b + 24 /\ q = c + 24
      /\ l[p] \in Nat /\ l[q] \in Nat
    BY AllocatorAssumption DEF SizesOK, Header, Alignment
<1>2. /\ b \in DOMAIN m.block /\ c \in DOMAIN m.block /\ b # c
      /\ l[p] <= m.block[b].size /\ l[q] <= m.block[c].size
    BY <1>1 DEF Backs
<1>3. /\ b \in Nat /\ c \in Nat /\ m.block[b].size \in Nat /\ m.block[c].size \in Nat
    BY <1>2 DEF Sound, Shaped
<1>4. Heap!Apart(b, 24 + m.block[b].size, c, 24 + m.block[c].size)
    BY <1>2 DEF Sound, Disjoint, Bytes, Header
<1> HIDE DEF b, c
<1> QED
    BY <1>1, <1>2, <1>3, <1>4 DEF Heap!Apart

\* Room in the abstract heap, for a pointer that is handed out afterwards.
LEMMA RoomAfter ==
    ASSUME HeapInv, HeapInv', NEW p \in DOMAIN live',
           \A q \in DOMAIN live \ {p} : q \in DOMAIN live' /\ live'[q] = live[q]
    PROVE  Heap!IsRoom(p, live'[p])
<1>1. PICK M, L : M = memory' /\ L = live'
    OBVIOUS
<1>2. Backs(memory, live)'
    <2>1. DOMAIN memory'.block \subseteq Nat /\ DOMAIN live' \subseteq Nat
        BY DEF HeapInv, Sound, Shaped, Books
    <2>2. /\ {b \in DOMAIN memory'.block : ~ memory'.block[b].free} = {x - Header : x \in DOMAIN live'}
          /\ \A x \in DOMAIN live' : live'[x] <= memory'.block[x - Header].size
        BY DEF HeapInv, LiveBacked, Blocks
    <2>3. Backs(memory', live')
        BY <2>1, <2>2, BacksIs
    <2> QED
        BY <2>3
<1>3. Sound(M) /\ SizesOK(L) /\ Backs(M, L)
    BY <1>1, <1>2 DEF HeapInv, Books, SizesOK
<1>4. \A q \in DOMAIN live \ {p} : Heap!Apart(p, L[p], q, L[q])
    BY <1>1, <1>3, LiveApart
<1>5. p \in Nat \ {0} /\ L[p] \in Nat \ {0}
    <2>1. p - Header \in DOMAIN M.block
        BY <1>1, <1>3 DEF Backs
    <2>2. p - Header \in Nat /\ p \in Nat /\ L[p] \in Nat \ {0}
        BY <1>1, <1>3, <2>1, AllocatorAssumption DEF Sound, Shaped, SizesOK, Alignment
    <2> QED
        BY <2>2 DEF Header
<1> QED
    BY <1>1, <1>4, <1>5 DEF Heap!IsRoom

(***************************************************************************)
(* The allocator implements the abstract heap: handing out is Allocate,    *)
(* resizing in place Resize, marking a block free Release, and every other *)
(* step is invisible.                                                      *)
(***************************************************************************)
THEOREM AllocatorImplementsHeap == Spec => ImplementsHeap
<1>1. Init => Heap!Init
    BY DEF Init, Heap!Init, Heap!Nothing
<1>2. HeapInv /\ HeapInv' /\ [Next]_vars => [Heap!Next]_<<live, held>>
    <2> SUFFICES ASSUME HeapInv, HeapInv', [Next]_vars
                 PROVE  Heap!Next \/ UNCHANGED <<live, held>>
        OBVIOUS
    <2>1. ASSUME NEW p, NEW n, p \notin DOMAIN live, held' = held + 1,
                 live' = [q \in DOMAIN live \cup {p} |-> IF q = p THEN n ELSE live[q]]
          PROVE  Heap!Next
        <3>1. /\ p \in DOMAIN live' /\ live'[p] = n
              /\ \A q \in DOMAIN live \ {p} : q \in DOMAIN live' /\ live'[q] = live[q]
            BY <2>1
        <3>2. Heap!IsRoom(p, live'[p])
            BY <3>1, RoomAfter
        <3>3. Heap!Allocate(p, live'[p])
            BY <2>1, <3>1, <3>2 DEF Heap!Allocate
        <3> QED
            BY <3>1, <3>3 DEF Heap!Next
    <2>2. ASSUME NEW t \in Threads, Take(t)
          PROVE  Heap!Next
        BY <2>1, <2>2, TakeKeepsMem DEF Take, HandOut
    <2>3. ASSUME NEW t \in Threads, Grow(t)
          PROVE  Heap!Next
        <3>1. held' = held + 1
            BY <2>3 DEF Grow, HandOut
        <3> QED
            BY <2>1, <2>3, <3>1, GrowKeepsMem
    <2>4. ASSUME NEW t \in Threads, BeginRealloc(t)
          PROVE  Heap!Next \/ UNCHANGED <<live, held>>
        <3>1. PICK p \in DOMAIN live, n \in Requests \ {0} :
                 Resize(t, p, n) \/ UNCHANGED <<memory, handVars>>
            BY <2>4 DEF BeginRealloc
        <3>2. CASE Resize(t, p, n)
            <4>1. /\ p \in DOMAIN live' /\ live' = [live EXCEPT ![p] = n] /\ live'[p] = n
                  /\ \A q \in DOMAIN live \ {p} : q \in DOMAIN live' /\ live'[q] = live[q]
                  /\ UNCHANGED held
                BY <3>2 DEF Resize
            <4>2. Heap!IsRoom(p, live'[p])
                BY <4>1, RoomAfter
            <4>3. Heap!Resize(p, live'[p])
                BY <4>1, <4>2 DEF Heap!Resize
            <4> QED
                BY <4>1, <4>3 DEF Heap!Next
        <3>3. CASE UNCHANGED <<memory, handVars>>
            BY <3>3 DEF handVars
        <3> QED
            BY <3>1, <3>2, <3>3
    <2>5. ASSUME NEW t \in Threads, Mark(t)
          PROVE  Heap!Next
        <3>1. local[t].ptr \in DOMAIN live
            BY <2>5, MarkKeepsMem
        <3>2. Heap!Release(local[t].ptr)
            BY <2>5, <3>1 DEF Mark, Heap!Release
        <3> QED
            BY <3>1, <3>2 DEF Heap!Next
    <2>6. ASSUME NEW t \in Threads,
                 \/ BeginMalloc(t) \/ BeginFree(t) \/ Find(t) \/ GrowFails(t) \/ Merge(t)
                 \/ Unlock(t) \/ Call(t) \/ Exchange(t) \/ Spin(t)
          PROVE  UNCHANGED <<live, held>>
        BY <2>6 DEF BeginMalloc, BeginFree, Find, GrowFails, Merge, Unlock, Call, Exchange,
                    Spin, handVars
    <2>7. CASE UNCHANGED vars
        BY <2>7 DEF vars, handVars
    <2> QED
        BY <2>2, <2>3, <2>4, <2>5, <2>6, <2>7 DEF Next, Work
<1> QED
    BY <1>1, <1>2, HeapInvAlways, PTL DEF Spec, ImplementsHeap, Heap!Spec

-----------------------------------------------------------------------------
(***************************************************************************)
(* Induction without an induction rule: a set of numbers has a least one,  *)
(* a family of subsets of a finite set a smallest one.                     *)
(***************************************************************************)
LEMMA Least ==
    ASSUME NEW S \in SUBSET Nat, S # {}
    PROVE  \E m \in S : \A k \in S : m <= k
<1> DEFINE R == StrictSubsetOrdering(Nat)
           F == FiniteSubsetsOf(Nat)
           T == {0..k : k \in S}
<1>1. IsWellFoundedOn(R, F)
    BY FS_StrictSubsetOrderingWellFounded
<1>2. T \subseteq F /\ T # {}
    <2>1. \A k \in S : 0..k \subseteq Nat /\ IsFiniteSet(0..k)
        BY FS_Interval
    <2> QED
        BY <2>1 DEF FiniteSubsetsOf
<1>3. \E x \in T : \A y \in T : ~ (<<y, x>> \in R)
    <2> HIDE DEF R, F, T
    <2> QED
        BY <1>1, <1>2, WFMin
<1>4. PICK m \in S : \A k \in S : ~ (<<0..k, 0..m>> \in R)
    BY <1>3
<1>5. ASSUME NEW k \in S, k < m
      PROVE  FALSE
    <2>1. 0..k \subseteq 0..m /\ 0..k # 0..m /\ 0..m \subseteq Nat /\ 0..k \subseteq Nat
        <3>1. m \in 0..m /\ m \notin 0..k
            BY <1>5
        <3> QED
            BY <1>5, <3>1
    <2>2. <<0..k, 0..m>> \in R
        BY <2>1 DEF StrictSubsetOrdering
    <2> QED
        BY <1>4, <2>2
<1> QED
    BY <1>5

LEMMA SmallestSet ==
    ASSUME NEW S, IsFiniteSet(S), NEW T \in SUBSET (SUBSET S), T # {}
    PROVE  \E x \in T : \A y \in T : y \subseteq x => y = x
<1> DEFINE R == StrictSubsetOrdering(S)
           F == FiniteSubsetsOf(S)
<1>1. IsWellFoundedOn(R, F)
    BY FS_StrictSubsetOrderingWellFounded
<1>2. T \subseteq F
    BY FS_FiniteSubsetsOfFinite
<1>3. \E x \in T : \A y \in T : ~ (<<y, x>> \in R)
    <2> HIDE DEF R, F
    <2> QED
        BY <1>1, <1>2, WFMin
<1>4. PICK x \in T : \A y \in T : ~ (<<y, x>> \in R)
    BY <1>3
<1>5. ASSUME NEW y \in T, y \subseteq x
      PROVE  y = x
    <2>1. ~ (<<y, x>> \in R)
        BY <1>4
    <2> QED
        BY <1>5, <2>1 DEF StrictSubsetOrdering
<1> QED
    BY <1>5

LEMMA FiniteImage ==
    ASSUME NEW S, IsFiniteSet(S), NEW ext
    PROVE  /\ IsFiniteSet({ext[x] : x \in S})
           /\ Cardinality({ext[x] : x \in S}) <= Cardinality(S)
<1> DEFINE T == {ext[x] : x \in S}
           g == [x \in S |-> ext[x]]
<1>1. g \in Surjection(S, T)
    BY DEF Surjection
<1> QED
    BY <1>1, FS_Surjection

\* f adds up the sizes of ext[x] over a subset of S, one member after another.
Adds(f, S, ext) ==
    f = [s \in SUBSET S |->
            IF s = {} THEN 0
            ELSE Cardinality(ext[CHOOSE x \in s : TRUE]) + f[s \ {CHOOSE x \in s : TRUE}]]

\* The size of all of them together.
Total(S, ext) == [s \in SUBSET S |-> Cardinality(UNION {ext[x] : x \in s})]

LEMMA AddsUnion ==
    ASSUME NEW S, IsFiniteSet(S), NEW ext, \A x \in S : IsFiniteSet(ext[x]),
           \A x, y \in S : x # y => ext[x] \cap ext[y] = {}
    PROVE  Adds(Total(S, ext), S, ext)
<1> DEFINE All(s) == UNION {ext[x] : x \in s}
           g == [s \in SUBSET S |-> Cardinality(All(s))]
<1>1. ASSUME NEW s \in SUBSET S, s = {}
      PROVE  g[s] = 0
    BY <1>1, FS_EmptySet
<1>2. ASSUME NEW s \in SUBSET S, NEW x \in s
      PROVE  g[s] = Cardinality(ext[x]) + g[s \ {x}]
    <2>1. IsFiniteSet(s \ {x})
        BY FS_Subset
    <2>2. IsFiniteSet({ext[y] : y \in s \ {x}})
        BY <2>1, FiniteImage
    <2>3. IsFiniteSet(All(s \ {x})) /\ IsFiniteSet(ext[x])
        BY <2>2, FS_UNION
    <2>4. All(s) = ext[x] \cup All(s \ {x}) /\ ext[x] \cap All(s \ {x}) = {}
        OBVIOUS
    <2>5. Cardinality(All(s)) = Cardinality(ext[x]) + Cardinality(All(s \ {x}))
        <3>1. Cardinality(ext[x]) \in Nat /\ Cardinality(All(s \ {x})) \in Nat
            BY <2>3, FS_CardinalityType
        <3>2. PICK A, B : A = ext[x] /\ B = All(s \ {x})
            OBVIOUS
        <3>3. /\ IsFiniteSet(A) /\ IsFiniteSet(B) /\ A \cap B = {}
              /\ Cardinality(A) \in Nat /\ Cardinality(B) \in Nat
            BY <2>3, <2>4, <3>1, <3>2
        <3>4. Cardinality(A \cup B) = Cardinality(A) + Cardinality(B) - Cardinality(A \cap B)
            BY <3>3, FS_Union
        <3>5. Cardinality({}) = 0
            BY FS_EmptySet
        <3>6. Cardinality(A \cap B) = 0
            BY <3>3, <3>5
        <3>7. Cardinality(A \cup B) = Cardinality(A) + Cardinality(B)
            BY <3>3, <3>4, <3>6
        <3> QED
            BY <2>4, <3>2, <3>7
    <2> HIDE DEF All
    <2> QED
        BY <2>5
<1>3. ASSUME NEW s \in SUBSET S, s # {}
      PROVE  (CHOOSE x \in s : TRUE) \in s
    BY <1>3
<1> HIDE DEF All
<1>4. g = [s \in SUBSET S |->
            IF s = {} THEN 0
            ELSE Cardinality(ext[CHOOSE x \in s : TRUE]) + g[s \ {CHOOSE x \in s : TRUE}]]
    <2>1. ASSUME NEW s \in SUBSET S
          PROVE  g[s] = IF s = {} THEN 0
            ELSE Cardinality(ext[CHOOSE x \in s : TRUE]) + g[s \ {CHOOSE x \in s : TRUE}]
        <3> HIDE DEF g
        <3> QED
            BY <1>1, <1>2, <1>3
    <2> QED
        BY <2>1
<1> QED
    BY <1>4 DEF Adds, All, Total

LEMMA AddsOnce ==
    ASSUME NEW S, IsFiniteSet(S), NEW ext, NEW f, NEW g, Adds(f, S, ext), Adds(g, S, ext)
    PROVE  f = g
<1> DEFINE D == {s \in SUBSET S : f[s] # g[s]}
<1>1. ASSUME NEW s \in SUBSET S
      PROVE  /\ f[s] = IF s = {} THEN 0
                   ELSE Cardinality(ext[CHOOSE x \in s : TRUE]) + f[s \ {CHOOSE x \in s : TRUE}]
             /\ g[s] = IF s = {} THEN 0
                   ELSE Cardinality(ext[CHOOSE x \in s : TRUE]) + g[s \ {CHOOSE x \in s : TRUE}]
    BY Zenon DEF Adds
<1>2. ASSUME D # {}
      PROVE  FALSE
    <2>1. PICK s \in D : \A t \in D : t \subseteq s => t = s
        <3>1. D \in SUBSET (SUBSET S)
            OBVIOUS
        <3> HIDE DEF D
        <3> QED
            BY <1>2, <3>1, SmallestSet
    <2>2. s # {}
        BY <1>1
    <2>3. PICK x : x \in s /\ x = CHOOSE y \in s : TRUE
        BY <2>2
    <2>4. s \ {x} \in SUBSET S /\ s \ {x} \notin D
        BY <2>1, <2>3
    <2>5. f[s \ {x}] = g[s \ {x}]
        BY <2>4
    <2>6. f[s] = g[s]
        BY <1>1, <2>2, <2>3, <2>5
    <2> QED
        BY <2>6
<1>3. \A s \in SUBSET S : f[s] = g[s]
    BY <1>2
<1>4. /\ f = [s \in SUBSET S |-> f[s]]
      /\ g = [s \in SUBSET S |-> g[s]]
    BY Zenon DEF Adds
<1> QED
    BY <1>3, <1>4

(***************************************************************************)
(* Added up over finitely many sets apart from each other, the sizes are   *)
(* the size of their union.                                                *)
(***************************************************************************)
LEMMA SumIsUnion ==
    ASSUME NEW S, IsFiniteSet(S), NEW ext, \A x \in S : IsFiniteSet(ext[x]),
           \A x, y \in S : x # y => ext[x] \cap ext[y] = {}
    PROVE  \A f : Adds(f, S, ext) <=> f = Total(S, ext)
BY AddsUnion, AddsOnce

\* The bytes of block b of m.
Span(m) == [b \in DOMAIN m.block |-> b..(b + Bytes(m, b) - 1)]

\* The bytes of a mapping.
Pages(k) == [p \in k |-> p[1]..(p[1] + p[2] - 1)]

LEMMA BlocksAddUp ==
    ASSUME NEW m, Sound(m), IsFiniteSet(DOMAIN m.block)
    PROVE  LET extent(b) == Header + m.block[b].size
           IN  MapThenSumSet(extent, DOMAIN m.block) =
               Cardinality(UNION {Span(m)[b] : b \in DOMAIN m.block})
<1> DEFINE S == DOMAIN m.block
           ext == Span(m)
           Eq(f) == f = [s \in SUBSET S |->
                            IF s = {} THEN 0
                            ELSE (Header + m.block[CHOOSE x \in s : TRUE].size)
                                 + f[s \ {CHOOSE x \in s : TRUE}]]
           g == Total(S, ext)
<1>1. ASSUME NEW x \in S
      PROVE  IsFiniteSet(ext[x]) /\ Cardinality(ext[x]) = Header + m.block[x].size
    <2>1. /\ x \in Nat /\ m.block[x].size \in Nat /\ Bytes(m, x) = 24 + m.block[x].size
          /\ Header = 24
        BY DEF Sound, Shaped, Bytes, Header
    <2>2. ext[x] = x..(x + Bytes(m, x) - 1)
        BY DEF Span
    <2>3. PICK a \in Int, u \in Int : a = x /\ u = x + Bytes(m, x) - 1
        BY <2>1
    <2>4. IsFiniteSet(a..u) /\ Cardinality(a..u) = IF a > u THEN 0 ELSE u - a + 1
        BY FS_Interval
    <2> QED
        BY <2>1, <2>2, <2>3, <2>4, SMTT(40)
<1>2. ASSUME NEW x \in S, NEW y \in S, x # y
      PROVE  ext[x] \cap ext[y] = {}
    <2>1. /\ Heap!Apart(x, Bytes(m, x), y, Bytes(m, y))
          /\ x \in Nat /\ y \in Nat /\ Bytes(m, x) \in Nat /\ Bytes(m, y) \in Nat
        BY <1>2 DEF Sound, Disjoint, Shaped, Bytes, Header
    <2> QED
        BY <2>1 DEF Heap!Apart, Span
<1>3. \A f : Eq(f) <=> Adds(f, S, ext)
    <2>1. ASSUME NEW s \in SUBSET S, s # {}
          PROVE  Cardinality(ext[CHOOSE x \in s : TRUE]) = Header + m.block[CHOOSE x \in s : TRUE].size
        <3>1. (CHOOSE x \in s : TRUE) \in S
            BY <2>1
        <3> QED
            BY <1>1, <3>1
    <2> HIDE DEF ext
    <2>2. ASSUME NEW f
          PROVE  [s \in SUBSET S |->
                            IF s = {} THEN 0
                            ELSE (Header + m.block[CHOOSE x \in s : TRUE].size)
                                 + f[s \ {CHOOSE x \in s : TRUE}]]
                 = [s \in SUBSET S |->
            IF s = {} THEN 0
            ELSE Cardinality(ext[CHOOSE x \in s : TRUE]) + f[s \ {CHOOSE x \in s : TRUE}]]
        BY <2>1
    <2> QED
        BY <2>2 DEF Adds
<1>4. \A f : Eq(f) <=> f = g
    <2>1. \A f : Adds(f, S, ext) <=> f = g
        <3>1. /\ IsFiniteSet(S)
              /\ \A x \in S : IsFiniteSet(ext[x])
              /\ \A x, y \in S : x # y => ext[x] \cap ext[y] = {}
            BY <1>1, <1>2
        <3> HIDE DEF ext, S
        <3> QED
            BY <3>1, SumIsUnion
    <2> HIDE DEF Eq, g
    <2> QED
        BY <1>3, <2>1
<1>5. (CHOOSE f : Eq(f)) = g
    <2> HIDE DEF Eq, g
    <2> QED
        BY <1>4
<1>6. g[S] = Cardinality(UNION {ext[b] : b \in S})
    BY DEF Total
<1> QED
    BY <1>5, <1>6 DEF MapThenSumSet, MapThenFoldSet

\* Mappings of the kernel: never empty, and no byte is mapped twice.
PagesOK(k) ==
    /\ IsFiniteSet(k)
    /\ k \subseteq Nat \X Nat
    /\ \A p \in k : p[2] > 0
    /\ \A p, q \in k : p # q => Heap!Apart(p[1], p[2], q[1], q[2])

LEMMA PagesAddUp ==
    ASSUME NEW S, PagesOK(S)
    PROVE  LET length(p) == p[2]
           IN  MapThenSumSet(length, S) = Cardinality(UNION {Pages(S)[p] : p \in S})
<1> DEFINE ext == Pages(S)
           Eq(f) == f = [s \in SUBSET S |->
                            IF s = {} THEN 0
                            ELSE (CHOOSE x \in s : TRUE)[2] + f[s \ {CHOOSE x \in s : TRUE}]]
           g == Total(S, ext)
<1>1. ASSUME NEW p \in S
      PROVE  IsFiniteSet(ext[p]) /\ Cardinality(ext[p]) = p[2]
    <2>1. PICK a \in Nat, l \in Nat : p[1] = a /\ p[2] = l /\ l > 0
        BY DEF PagesOK
    <2>2. PICK c \in Int, u \in Int : c = a /\ u = a + l - 1
        OBVIOUS
    <2>3. IsFiniteSet(c..u) /\ Cardinality(c..u) = IF c > u THEN 0 ELSE u - c + 1
        BY FS_Interval
    <2>4. ext[p] = c..u
        BY <2>1, <2>2 DEF Pages
    <2> QED
        BY <2>1, <2>2, <2>3, <2>4
<1>2. ASSUME NEW p \in S, NEW q \in S, p # q
      PROVE  ext[p] \cap ext[q] = {}
    <2>1. /\ Heap!Apart(p[1], p[2], q[1], q[2])
          /\ p[1] \in Nat /\ p[2] \in Nat /\ q[1] \in Nat /\ q[2] \in Nat
        BY <1>2 DEF PagesOK
    <2> QED
        BY <2>1 DEF Heap!Apart, Pages
<1>3. \A f : Eq(f) <=> Adds(f, S, ext)
    <2>1. ASSUME NEW s \in SUBSET S, s # {}
          PROVE  Cardinality(ext[CHOOSE x \in s : TRUE]) = (CHOOSE x \in s : TRUE)[2]
        <3>1. (CHOOSE x \in s : TRUE) \in S
            BY <2>1
        <3> QED
            BY <1>1, <3>1
    <2> HIDE DEF ext
    <2>2. ASSUME NEW f
          PROVE  [s \in SUBSET S |->
                     IF s = {} THEN 0
                     ELSE (CHOOSE x \in s : TRUE)[2] + f[s \ {CHOOSE x \in s : TRUE}]]
                 = [s \in SUBSET S |->
                     IF s = {} THEN 0
                     ELSE Cardinality(ext[CHOOSE x \in s : TRUE]) + f[s \ {CHOOSE x \in s : TRUE}]]
        BY <2>1
    <2> QED
        BY <2>2 DEF Adds
<1>4. \A f : Eq(f) <=> f = g
    <2>1. /\ IsFiniteSet(S)
          /\ \A x \in S : IsFiniteSet(ext[x])
          /\ \A x, y \in S : x # y => ext[x] \cap ext[y] = {}
        BY <1>1, <1>2 DEF PagesOK
    <2> HIDE DEF ext
    <2>2. \A f : Adds(f, S, ext) <=> f = g
        BY <2>1, SumIsUnion
    <2> HIDE DEF Eq, g
    <2> QED
        BY <1>3, <2>2
<1>5. (CHOOSE f : Eq(f)) = g
    <2> HIDE DEF Eq, g
    <2> QED
        BY <1>4
<1>6. g[S] = Cardinality(UNION {ext[p] : p \in S})
    BY DEF Total
<1> QED
    BY <1>5, <1>6 DEF MapThenSumSet, MapThenFoldSet

-----------------------------------------------------------------------------
(***************************************************************************)
(* The order of the list: o[i] is the block after i others.                *)
(***************************************************************************)
Ordered(m, n, o) ==
    /\ o \in [0..(n - 1) -> DOMAIN m.block]
    /\ \A b \in DOMAIN m.block : \E i \in 0..(n - 1) : o[i] = b
    /\ \A i, j \in 0..(n - 1) : o[i] = o[j] => i = j
    /\ \A i \in 0..(n - 1) : m.block[o[i]].next = IF i = n - 1 THEN Null ELSE o[i + 1]
    /\ n > 0 => o[0] = m.head /\ o[n - 1] = m.tail
    /\ n = 0 => m.head = Null /\ m.tail = Null

Counts(m, n) == n \in Nat /\ IsFiniteSet(DOMAIN m.block) /\ Cardinality(DOMAIN m.block) = n

\* o and q begin with the same blocks up to the i-th.
SameUpTo(o, q, i) == \A j \in 0..i : o[j] = q[j]

LEMMA OrderSplit ==
    ASSUME NEW m, NEW w, NEW b \in DOMAIN m.block, NEW size, Shaped(m), Cut(w, m, b, size),
           NEW n, Counts(m, n), NEW o, Ordered(m, n, o)
    PROVE  /\ Counts(w, n + 1)
           /\ \E q : Ordered(w, n + 1, q)
<1> DEFINE D == DOMAIN m.block
           rest == b + Header + size
<1>0. n \in Nat /\ IsFiniteSet(D) /\ Cardinality(D) = n /\ n # 0
    <2>1. Cardinality(D) # 0
        BY FS_EmptySet DEF Counts
    <2> QED
        BY <2>1 DEF Counts
<1>1. /\ w.head = m.head
      /\ w.tail = IF m.tail = b THEN rest ELSE m.tail
      /\ DOMAIN w.block = D \cup {rest} /\ rest \notin D
      /\ w.block[rest].next = m.block[b].next
      /\ w.block[b].next = rest
      /\ \A x \in D \ {b} : w.block[x].next = m.block[x].next
    BY DEF Cut, Block
<1> HIDE DEF rest
<1>2. Counts(w, n + 1)
    <2>1. PICK S : S = D
        OBVIOUS
    <2>2. IsFiniteSet(S \cup {rest}) /\ Cardinality(S \cup {rest}) = n + 1
        BY <1>0, <1>1, <2>1, FS_AddElement
    <2> QED
        BY <1>0, <1>1, <2>1, <2>2 DEF Counts
<1>3. PICK i \in 0..(n - 1) : o[i] = b
    BY DEF Ordered
<1> DEFINE q == [j \in 0..n |-> IF j <= i THEN o[j] ELSE IF j = i + 1 THEN rest ELSE o[j - 1]]
<1>4. /\ i \in Nat /\ i < n
      /\ \A j \in Nat : j <= i => q[j] = o[j]
      /\ q[i + 1] = rest
      /\ \A j \in Nat : j > i /\ j < n => q[j + 1] = o[j]
    BY <1>0, <1>3
<1>5. /\ o \in [0..(n - 1) -> D]
      /\ \A x \in D : \E j \in 0..(n - 1) : o[j] = x
      /\ \A j, k \in 0..(n - 1) : o[j] = o[k] => j = k
      /\ \A j \in 0..(n - 1) : m.block[o[j]].next = IF j = n - 1 THEN Null ELSE o[j + 1]
      /\ o[0] = m.head /\ o[n - 1] = m.tail
    BY <1>0 DEF Ordered
<1>6. q \in [0..n -> D \cup {rest}]
    BY <1>0, <1>3, <1>5
<1>7. \A x \in D \cup {rest} : \E j \in 0..n : q[j] = x
    <2>1. i + 1 \in 0..n /\ q[i + 1] = rest
        BY <1>0
    <2>2. ASSUME NEW x \in D
          PROVE  \E j \in 0..n : q[j] = x
        <3>1. PICK j \in 0..(n - 1) : o[j] = x
            BY <1>5
        <3>2. CASE j <= i
            BY <1>0, <3>1, <3>2
        <3>3. CASE j > i
            <4>1. j + 1 \in 0..n /\ j \in Nat /\ j < n
                BY <1>0
            <4> HIDE DEF q
            <4>2. q[j + 1] = o[j]
                BY <1>4, <3>3, <4>1
            <4> QED
                BY <3>1, <4>1, <4>2
        <3> QED
            BY <1>0, <3>2, <3>3
    <2> HIDE DEF q
    <2> QED
        BY <2>1, <2>2
<1>8. \A j, k \in 0..n : q[j] = q[k] => j = k
    BY <1>0, <1>1, <1>5
<1> HIDE DEF q
<1>9. ASSUME NEW j \in 0..n
      PROVE  w.block[q[j]].next = IF j = n THEN Null ELSE q[j + 1]
    <2>1. CASE j < i
        <3>1. /\ q[j] = o[j] /\ q[j + 1] = o[j + 1] /\ j \in 0..(n - 1) /\ j # n - 1 /\ j # n
              /\ j \in Nat /\ j + 1 \in Nat
            BY <1>0, <1>4, <2>1
        <3>2. o[j] \in D /\ o[j] # b
            BY <1>0, <1>3, <1>5, <2>1, <3>1
        <3> QED
            BY <1>1, <1>5, <3>1, <3>2
    <2>2. CASE j = i
        <3>1. q[j] = b /\ q[j + 1] = rest /\ j # n
            BY <1>0, <1>3, <1>4, <2>2
        <3> QED
            BY <1>1, <3>1
    <2>3. CASE j = i + 1
        <3>1. q[j] = rest /\ w.block[rest].next = m.block[o[i]].next
            BY <1>1, <1>3, <1>4, <2>3
        <3>2. m.block[o[i]].next = IF i = n - 1 THEN Null ELSE o[i + 1]
            BY <1>3, <1>5
        <3>3. j # n => q[j + 1] = o[i + 1] /\ i # n - 1
            BY <1>0, <1>4, <2>3
        <3> QED
            BY <1>0, <1>4, <2>3, <3>1, <3>2, <3>3
    <2>4. CASE j > i + 1
        <3>1. PICK k \in Nat : j = k + 1 /\ k > i /\ k < n
            <4>1. j - 1 \in Nat
                BY <1>4, <2>4
            <4> QED
                BY <1>0, <1>4, <2>4, <4>1
        <3>2. q[j] = o[k] /\ (j # n => q[j + 1] = o[j])
            BY <1>0, <1>4, <3>1
        <3>3. o[k] \in D /\ o[k] # b /\ k \in 0..(n - 1)
            BY <1>0, <1>3, <1>4, <1>5, <3>1
        <3>4. m.block[o[k]].next = IF k = n - 1 THEN Null ELSE o[j]
            BY <1>5, <3>1, <3>3
        <3> QED
            BY <1>0, <1>1, <3>1, <3>2, <3>3, <3>4
    <2> QED
        BY <1>0, <1>4, <2>1, <2>2, <2>3, <2>4
<1>10. q[0] = w.head /\ q[n] = w.tail
    <2>1. q[0] = o[0]
        BY <1>0, <1>4
    <2>2. CASE i = n - 1
        <3>1. q[n] = rest /\ m.tail = b
            BY <1>0, <1>3, <1>4, <1>5, <2>2
        <3> QED
            BY <1>1, <1>5, <2>1, <3>1
    <2>3. CASE i # n - 1
        <3>1. PICK k \in Nat : n = k + 1 /\ k > i /\ k < n
            <4>1. n - 1 \in Nat
                BY <1>0
            <4> QED
                BY <1>0, <1>4, <2>3, <4>1
        <3>2. q[n] = o[k] /\ o[k] = m.tail
            BY <1>0, <1>4, <1>5, <3>1
        <3>3. o[k] # b
            BY <1>0, <1>3, <1>4, <1>5, <3>1
        <3> QED
            BY <1>1, <1>5, <2>1, <3>2, <3>3
    <2> QED
        BY <2>2, <2>3
<1>11. Ordered(w, n + 1, q)
    <2>1. (n + 1) - 1 = n /\ n + 1 > 0 /\ n + 1 # 0
        BY <1>0
    <2> QED
        BY <1>1, <1>6, <1>7, <1>8, <1>9, <1>10, <2>1 DEF Ordered
<1> QED
    BY <1>2, <1>11

LEMMA OrderAppended ==
    ASSUME NEW m, NEW b, NEW size, Shaped(m), b \in Nat \ {0}, b \notin DOMAIN m.block,
           NEW n, Counts(m, n), NEW o, Ordered(m, n, o)
    PROVE  /\ Counts(Appended(m, b, size), n + 1)
           /\ \E q : Ordered(Appended(m, b, size), n + 1, q)
<1> DEFINE w == Appended(m, b, size)
           D == DOMAIN m.block
           q == [j \in 0..n |-> IF j < n THEN o[j] ELSE b]
<1>0. /\ n \in Nat /\ IsFiniteSet(D) /\ Cardinality(D) = n
      /\ Null = 0 /\ 0 \notin D /\ m.tail \in D \cup {Null}
    BY DEF Counts, Shaped, Null
<1>1. /\ w.head = IF m.tail = Null THEN b ELSE m.head
      /\ w.tail = b
      /\ DOMAIN w.block = D \cup {b}
      /\ w.block[b].next = Null
      /\ \A x \in D : w.block[x].next = IF x = m.tail THEN b ELSE m.block[x].next
    BY <1>0, Fields DEF Appended, Block
<1> HIDE DEF w
<1>2. Counts(w, n + 1)
    <2>1. PICK S : S = D
        OBVIOUS
    <2>2. IsFiniteSet(S \cup {b}) /\ Cardinality(S \cup {b}) = n + 1
        BY <1>0, <2>1, FS_AddElement
    <2> QED
        BY <1>0, <1>1, <2>1, <2>2 DEF Counts
<1>3. /\ o \in [0..(n - 1) -> D]
      /\ \A x \in D : \E j \in 0..(n - 1) : o[j] = x
      /\ \A j, k \in 0..(n - 1) : o[j] = o[k] => j = k
      /\ \A j \in 0..(n - 1) : m.block[o[j]].next = IF j = n - 1 THEN Null ELSE o[j + 1]
      /\ n > 0 => o[0] = m.head /\ o[n - 1] = m.tail
      /\ n = 0 => m.head = Null /\ m.tail = Null
    BY DEF Ordered
<1>4. /\ \A j \in 0..(n - 1) : q[j] = o[j] /\ j \in 0..n
      /\ q[n] = b /\ n \in 0..n
      /\ \A j \in 0..n : j = n \/ j \in 0..(n - 1)
      /\ q \in [0..n -> D \cup {b}]
    BY <1>0, <1>3
<1> HIDE DEF q
<1>5. \A x \in D \cup {b} : \E j \in 0..n : q[j] = x
    BY <1>3, <1>4
<1>6. ASSUME NEW j \in 0..n, NEW k \in 0..n, q[j] = q[k]
      PROVE  j = k
    <2>1. CASE j \in 0..(n - 1) /\ k \in 0..(n - 1)
        BY <1>3, <1>4, <1>6, <2>1
    <2>2. \A l \in 0..(n - 1) : q[l] # b
        BY <1>3, <1>4
    <2> QED
        BY <1>4, <1>6, <2>1, <2>2
<1>7. ASSUME NEW j \in 0..n
      PROVE  w.block[q[j]].next = IF j = n THEN Null ELSE q[j + 1]
    <2>1. CASE j = n
        BY <1>1, <1>4, <2>1
    <2>2. CASE j \in 0..(n - 1)
        <3>1. /\ q[j] = o[j] /\ o[j] \in D /\ j # n
              /\ w.block[o[j]].next = IF o[j] = m.tail THEN b ELSE m.block[o[j]].next
            BY <1>0, <1>1, <1>3, <1>4, <2>2
        <3>2. CASE j = n - 1
            BY <1>0, <1>3, <1>4, <2>2, <3>1, <3>2
        <3>3. CASE j # n - 1
            <4>1. j + 1 \in 0..(n - 1) /\ n - 1 \in 0..(n - 1) /\ n > 0
                BY <1>0, <2>2, <3>3
            <4>2. o[j] # m.tail
                BY <1>3, <2>2, <3>3, <4>1
            <4> QED
                BY <1>3, <1>4, <2>2, <3>1, <3>3, <4>1, <4>2
        <3> QED
            BY <3>2, <3>3
    <2> QED
        BY <1>4, <2>1, <2>2
<1>8. q[0] = w.head /\ q[n] = w.tail
    <2>1. CASE n = 0
        BY <1>1, <1>3, <1>4, <2>1
    <2>2. CASE n > 0
        <3>1. 0 \in 0..(n - 1) /\ n - 1 \in 0..(n - 1)
            BY <1>0, <2>2
        <3>2. m.tail # Null
            BY <1>0, <1>3, <2>2, <3>1
        <3> QED
            BY <1>1, <1>3, <1>4, <2>2, <3>1, <3>2
    <2> QED
        BY <1>0, <2>1, <2>2
<1>9. Ordered(w, n + 1, q)
    <2>1. (n + 1) - 1 = n /\ n + 1 > 0 /\ n + 1 # 0
        BY <1>0
    <2> QED
        BY <1>1, <1>4, <1>5, <1>6, <1>7, <1>8, <2>1 DEF Ordered
<1> QED
    BY <1>2, <1>9 DEF w

\* w is m with the block after b made a part of b.
Joined(w, m, b) ==
    LET c == m.block[b].next
        D == DOMAIN m.block
    IN  /\ c \in D \ {b}
        /\ w.head = m.head
        /\ w.tail = IF m.block[c].next = Null THEN b ELSE m.tail
        /\ DOMAIN w.block = D \ {c}
        /\ w.block[b].next = m.block[c].next
        /\ w.block[b].free = m.block[b].free
        /\ Bytes(w, b) = Bytes(m, b) + Bytes(m, c)
        /\ c = b + Bytes(m, b)
        /\ \A x \in D \ {b, c} : w.block[x] = m.block[x]

LEMMA MergedJoins ==
    ASSUME NEW m, Sound(m), NEW b \in DOMAIN m.block, m.block[b].next # Null, Mergeable(m, b)
    PROVE  Joined(Merged(m, b), m, b)
<1> DEFINE w == Merged(m, b)
           D == DOMAIN m.block
           c == m.block[b].next
           fewer == [x \in D \ {c} |->
                        IF x = b
                        THEN Block(m.block[b].size + Header + m.block[c].size, m.block[b].free,
                                   m.block[c].next)
                        ELSE m.block[x]]
<1>1. /\ c \in D /\ c # b
      /\ DOMAIN w.block = D \ {c}
      /\ w.block[b].free = m.block[b].free
      /\ c = b + Bytes(m, b) /\ Bytes(w, b) = Bytes(m, b) + Bytes(m, c)
      /\ \A x \in D \ {b, c} : w.block[x] = m.block[x]
    BY MergedSound
<1>2. w = List(m.head, IF m.block[c].next = Null THEN b ELSE m.tail, fewer)
    BY DEF Merged
<1> HIDE DEF w, c, fewer
<1>3. /\ w.head = m.head
      /\ w.tail = (IF m.block[c].next = Null THEN b ELSE m.tail)
      /\ w.block = fewer
    BY <1>2, Fields
<1>4. w.block[b].next = m.block[c].next
    BY <1>1, <1>3 DEF Block, fewer
<1> QED
    BY <1>1, <1>3, <1>4 DEF Joined, w, c

LEMMA OrderJoined ==
    ASSUME NEW m, NEW w, NEW b \in DOMAIN m.block, Shaped(m), Joined(w, m, b),
           NEW n, Counts(m, n), NEW o, Ordered(m, n, o), NEW i \in 0..(n - 1), o[i] = b
    PROVE  /\ Counts(w, n - 1) /\ i < n - 1
           /\ \E q : Ordered(w, n - 1, q) /\ \A j \in 0..i : q[j] = o[j]
<1> DEFINE c == m.block[b].next
           D == DOMAIN m.block
           q == [j \in 0..(n - 2) |-> IF j <= i THEN o[j] ELSE o[j + 1]]
<1>0. n \in Nat /\ IsFiniteSet(D) /\ Cardinality(D) = n /\ i \in Nat /\ i < n
    BY DEF Counts
<1>1. /\ c \in D /\ c # b
      /\ w.head = m.head
      /\ w.tail = IF m.block[c].next = Null THEN b ELSE m.tail
      /\ DOMAIN w.block = D \ {c}
      /\ w.block[b].next = m.block[c].next
      /\ \A x \in D \ {b, c} : w.block[x].next = m.block[x].next
    BY DEF Joined
<1>2. /\ o \in [0..(n - 1) -> D]
      /\ \A x \in D : \E j \in 0..(n - 1) : o[j] = x
      /\ \A j, k \in 0..(n - 1) : o[j] = o[k] => j = k
      /\ \A j \in 0..(n - 1) : m.block[o[j]].next = IF j = n - 1 THEN Null ELSE o[j + 1]
      /\ o[0] = m.head /\ o[n - 1] = m.tail
    BY <1>0 DEF Ordered
<1>3. i < n - 1 /\ o[i + 1] = c /\ i + 1 \in 0..(n - 1)
    <2>1. c # Null
        BY <1>1 DEF Shaped, Null
    <2>2. i # n - 1 /\ c = o[i + 1]
        BY <1>2, <2>1
    <2> QED
        BY <1>0, <2>2
<1> HIDE DEF c
<1>4. Counts(w, n - 1)
    <2>1. PICK S : S = D
        OBVIOUS
    <2>2. IsFiniteSet(S \ {c}) /\ Cardinality(S \ {c}) = n - 1
        BY <1>0, <1>1, <2>1, FS_RemoveElement
    <2> QED
        BY <1>0, <1>1, <1>3, <2>1, <2>2 DEF Counts
<1>5. /\ \A j \in Nat : j <= i => q[j] = o[j]
      /\ \A j \in Nat : i < j /\ j < n - 1 => q[j] = o[j + 1]
      /\ \A j \in 0..(n - 1) : o[j] \in D /\ (o[j] = c => j = i + 1) /\ (o[j] = b => j = i)
    BY <1>0, <1>2, <1>3
<1>6. q \in [0..(n - 2) -> D \ {c}]
    BY <1>0, <1>3, <1>5
<1>7. \A j, k \in 0..(n - 2) : q[j] = q[k] => j = k
    BY <1>0, <1>2, <1>3
<1> HIDE DEF q
<1>8. ASSUME NEW x \in D \ {c}
      PROVE  \E j \in 0..(n - 2) : q[j] = x
    <2>1. PICK k \in 0..(n - 1) : o[k] = x
        BY <1>2
    <2>2. k # i + 1
        BY <1>3, <2>1
    <2>3. CASE k <= i
        <3>1. k \in 0..(n - 2) /\ k \in Nat
            BY <1>0, <1>3, <2>3
        <3> QED
            BY <1>5, <2>1, <2>3, <3>1
    <2>4. CASE k > i
        <3>1. PICK j \in Nat : k = j + 1 /\ i < j /\ j < n - 1
            <4>1. k - 1 \in Nat
                BY <1>0, <2>4
            <4> QED
                BY <1>0, <2>2, <2>4, <4>1
        <3>2. j \in 0..(n - 2) /\ q[j] = x
            BY <1>0, <1>5, <2>1, <3>1
        <3> QED
            BY <3>2
    <2> QED
        BY <1>0, <2>3, <2>4
<1>9. ASSUME NEW j \in 0..(n - 2)
      PROVE  w.block[q[j]].next = IF j = n - 2 THEN Null ELSE q[j + 1]
    <2>0. j \in Nat /\ j <= n - 2 /\ j + 1 \in Nat /\ j \in 0..(n - 1) /\ j + 1 \in 0..(n - 1)
        BY <1>0
    <2>1. CASE j < i
        <3>1. q[j] = o[j] /\ q[j + 1] = o[j + 1] /\ j # n - 1 /\ j # n - 2 /\ j # i /\ j # i + 1
            BY <1>0, <1>3, <1>5, <2>0, <2>1
        <3>2. o[j] \in D \ {b, c}
            BY <1>5, <2>0, <3>1
        <3> QED
            BY <1>1, <1>2, <2>0, <3>1, <3>2
    <2>2. CASE j = i
        <3>1. q[j] = b /\ w.block[b].next = m.block[o[i + 1]].next
            BY <1>0, <1>1, <1>3, <1>5, <2>2
        <3>2. m.block[o[i + 1]].next = IF i + 1 = n - 1 THEN Null ELSE o[(i + 1) + 1]
            BY <1>2, <1>3
        <3>3. j # n - 2 => q[j + 1] = o[(i + 1) + 1]
            BY <1>0, <1>3, <1>5, <2>0, <2>2
        <3> QED
            BY <1>0, <2>2, <3>1, <3>2, <3>3
    <2>3. CASE j > i
        <3>1. q[j] = o[j + 1] /\ j + 1 # i /\ j + 1 # i + 1
            BY <1>0, <1>5, <2>0, <2>3
        <3>2. o[j + 1] \in D \ {b, c}
            BY <1>5, <2>0, <3>1
        <3>3. m.block[o[j + 1]].next = IF j + 1 = n - 1 THEN Null ELSE o[(j + 1) + 1]
            BY <1>2, <2>0
        <3>4. j # n - 2 => q[j + 1] = o[(j + 1) + 1]
            BY <1>0, <1>5, <2>0, <2>3
        <3> QED
            BY <1>0, <1>1, <2>0, <3>1, <3>2, <3>3, <3>4
    <2> QED
        BY <1>0, <2>0, <2>1, <2>2, <2>3
<1>10. q[0] = w.head /\ q[n - 2] = w.tail
    <2>1. q[0] = o[0]
        BY <1>0, <1>5
    <2>2. m.block[c].next = IF i + 1 = n - 1 THEN Null ELSE o[(i + 1) + 1]
        BY <1>2, <1>3
    <2>3. CASE i = n - 2
        <3>1. q[n - 2] = b /\ m.block[c].next = Null
            BY <1>0, <1>5, <2>2, <2>3
        <3> QED
            BY <1>1, <1>2, <2>1, <3>1
    <2>4. CASE i # n - 2
        <3>1. n - 2 \in Nat /\ i < n - 2 /\ n - 2 < n - 1 /\ (n - 2) + 1 = n - 1
            BY <1>0, <1>3, <2>4
        <3>2. q[n - 2] = o[n - 1]
            BY <1>5, <3>1
        <3>3. o[(i + 1) + 1] \in D /\ i + 1 # n - 1
            <4>1. (i + 1) + 1 \in 0..(n - 1)
                BY <1>0, <3>1
            <4> QED
                BY <1>2, <3>1, <4>1
        <3>4. m.block[c].next # Null
            BY <2>2, <3>3 DEF Shaped, Null
        <3> QED
            BY <1>1, <1>2, <2>1, <3>2, <3>4
    <2> QED
        BY <2>3, <2>4
<1>11. Ordered(w, n - 1, q)
    <2>1. (n - 1) - 1 = n - 2 /\ n - 1 > 0 /\ n - 1 # 0
        BY <1>0, <1>3
    <2> QED
        BY <1>1, <1>6, <1>7, <1>8, <1>9, <1>10, <2>1 DEF Ordered
<1>12. \A j \in 0..i : q[j] = o[j]
    BY <1>0, <1>5
<1> QED
    BY <1>3, <1>4, <1>11, <1>12

LEMMA OrderKept ==
    ASSUME NEW m, NEW w, DOMAIN w.block = DOMAIN m.block, w.head = m.head, w.tail = m.tail,
           \A x \in DOMAIN m.block : w.block[x].next = m.block[x].next,
           NEW n, Counts(m, n), NEW o, Ordered(m, n, o)
    PROVE  Counts(w, n) /\ Ordered(w, n, o)
BY DEF Counts, Ordered

(***************************************************************************)
(* The walk of the list goes through its order and ends at Null.           *)
(***************************************************************************)
LEMMA NthIsOrder ==
    ASSUME Shaped(memory), NEW n, Counts(memory, n), NEW o, Ordered(memory, n, o)
    PROVE  \A k \in Nat : Nth[k] = IF k < n THEN o[k] ELSE Null
<1> DEFINE Walk(f) == f = [k \in Nat |-> IF k = 0 THEN memory.head
                                          ELSE IF f[k - 1] = Null THEN Null
                                          ELSE memory.block[f[k - 1]].next]
           g == [k \in Nat |-> IF k < n THEN o[k] ELSE Null]
<1>0. n \in Nat /\ Null \notin DOMAIN memory.block
    BY DEF Counts, Shaped, Null
<1>1. /\ \A k \in 0..(n - 1) : o[k] \in DOMAIN memory.block
      /\ \A k \in 0..(n - 1) : memory.block[o[k]].next = IF k = n - 1 THEN Null ELSE o[k + 1]
      /\ n > 0 => o[0] = memory.head
      /\ n = 0 => memory.head = Null
    BY DEF Ordered
<1>2. Walk(g)
    <2>1. ASSUME NEW k \in Nat
          PROVE  g[k] = IF k = 0 THEN memory.head
                        ELSE IF g[k - 1] = Null THEN Null ELSE memory.block[g[k - 1]].next
        <3>1. CASE k = 0
            BY <1>0, <1>1, <3>1
        <3>2. CASE k # 0
            <4>1. PICK j \in Nat : k = j + 1 /\ k - 1 = j
                <5>1. k - 1 \in Nat
                    BY <3>2
                <5> QED
                    BY <5>1
            <4>2. CASE j < n
                <5>1. g[j] = o[j] /\ o[j] # Null /\ j \in 0..(n - 1)
                    BY <1>0, <1>1, <4>2
                <5>2. g[k] = IF j = n - 1 THEN Null ELSE o[j + 1]
                    BY <1>0, <4>1, <4>2
                <5> HIDE DEF g
                <5> QED
                    BY <1>1, <3>2, <4>1, <5>1, <5>2
            <4>3. CASE ~ (j < n)
                BY <1>0, <3>2, <4>1, <4>3
            <4> QED
                BY <4>2, <4>3
        <3> QED
            BY <3>1, <3>2
    <2> QED
        BY <2>1
<1>3. Nth = CHOOSE f : Walk(f)
    BY DEF Nth
<1> HIDE DEF Walk
<1>4. Walk(Nth)
    BY <1>2, <1>3
<1>5. ASSUME NEW f, Walk(f), NEW k \in Nat
      PROVE  f[k] = IF k = 0 THEN memory.head
                    ELSE IF f[k - 1] = Null THEN Null ELSE memory.block[f[k - 1]].next
    BY <1>5 DEF Walk
<1> DEFINE D == {k \in Nat : Nth[k] # g[k]}
<1> HIDE DEF g
<1>6. ASSUME D # {}
      PROVE  FALSE
    <2>1. PICK k \in D : \A j \in D : k <= j
        <3>1. D \in SUBSET Nat
            OBVIOUS
        <3> HIDE DEF D
        <3> QED
            BY <1>6, <3>1, Least
    <2>2. k # 0
        BY <1>2, <1>4, <1>5
    <2>3. k - 1 \in Nat /\ ~ (k <= k - 1)
        BY <2>2
    <2>4. Nth[k - 1] = g[k - 1]
        BY <2>1, <2>3
    <2>5. Nth[k] = g[k]
        BY <1>2, <1>4, <1>5, <2>2, <2>4
    <2> QED
        BY <2>5
<1> QED
    BY <1>6 DEF g

-----------------------------------------------------------------------------
(***************************************************************************)
(* A list m over the mappings k is whole: it has an order, there is a      *)
(* block at every byte mapped, and a block is followed in the list by the  *)
(* one behind it in memory, unless it ends where a mapping does.           *)
(***************************************************************************)
InOrder(m) == \E n, o : Counts(m, n) /\ Ordered(m, n, o)

InBlock(m, x) == \E b \in DOMAIN m.block : b <= x /\ x < b + Bytes(m, b)

Filled(m, k) == \A p \in k : \A x \in p[1]..(p[1] + p[2] - 1) : InBlock(m, x)

EndsMapping(k, x) == \E p \in k : x = p[1] + p[2]

Seamless(m, k) ==
    \A b \in DOMAIN m.block :
        m.block[b].next = b + Bytes(m, b) \/ EndsMapping(k, b + Bytes(m, b))

Whole(m, k) == InOrder(m) /\ Filled(m, k) /\ Seamless(m, k)

LEMMA SplitWhole ==
    ASSUME NEW m, Sound(m), NEW k, k \subseteq Nat \X Nat, Whole(m, k),
           NEW b \in DOMAIN m.block, NEW size \in Nat
    PROVE  Whole(Split(m, b, size), k)
<1> DEFINE w == Split(m, b, size)
           rest == b + Header + size
           D == DOMAIN m.block
<1>0. /\ Shaped(m) /\ m.block[b].size \in Nat /\ b \in Nat /\ Header = 24 /\ Alignment = 16
      /\ \A x \in D : x \in Nat /\ Bytes(m, x) \in Nat
    BY DEF Sound, Shaped, Header, Alignment, Bytes
<1>1. CASE m.block[b].size <= size + Header + Alignment
    <2>1. w = m
        BY <1>1 DEF Split
    <2> QED
        BY <2>1
<1>2. CASE ~ (m.block[b].size <= size + Header + Alignment)
    <2>1. m.block[b].size > size + Header + Alignment
        BY <1>0, <1>2
    <2>2. Cut(w, m, b, size)
        BY <2>1, SplitCuts
    <2> HIDE DEF w
    <2>3. /\ DOMAIN w.block = D \cup {rest} /\ rest \notin D
          /\ w.block[rest].size = m.block[b].size - size - Header
          /\ w.block[rest].next = m.block[b].next
          /\ w.block[b].next = rest /\ w.block[b].size = size
          /\ \A x \in D \ {b} : w.block[x] = m.block[x]
        BY <2>2 DEF Cut, Block
    <2>4. /\ Bytes(w, b) = Header + size /\ Bytes(w, rest) = m.block[b].size - size
          /\ Bytes(m, b) = Header + m.block[b].size
          /\ \A x \in D \ {b} : Bytes(w, x) = Bytes(m, x)
        BY <1>0, <2>3 DEF Bytes
    <2>5. InOrder(w)
        <3>1. PICK n, o : Counts(m, n) /\ Ordered(m, n, o)
            BY DEF Whole, InOrder
        <3> QED
            BY <1>0, <2>2, <3>1, OrderSplit DEF InOrder
    <2>6. ASSUME NEW x \in Int, InBlock(m, x)
          PROVE  InBlock(w, x)
        <3>1. PICK y \in D : y <= x /\ x < y + Bytes(m, y)
            BY <2>6 DEF InBlock
        <3>2. CASE y # b
            BY <2>3, <2>4, <3>1, <3>2 DEF InBlock
        <3>3. CASE y = b /\ x < b + Header + size
            BY <1>0, <2>3, <2>4, <3>1, <3>3 DEF InBlock
        <3>4. CASE y = b /\ ~ (x < b + Header + size)
            <4>1. rest <= x /\ x < rest + Bytes(w, rest)
                BY <1>0, <2>4, <3>1, <3>4
            <4> QED
                BY <2>3, <4>1 DEF InBlock
        <3> QED
            BY <3>2, <3>3, <3>4
    <2>7. Filled(w, k)
        BY <2>6 DEF Whole, Filled
    <2>8. Seamless(w, k)
        <3>1. rest + Bytes(w, rest) = b + Bytes(m, b) /\ b + Bytes(w, b) = rest
            BY <1>0, <2>4
        <3>2. \A x \in D : m.block[x].next = x + Bytes(m, x) \/ EndsMapping(k, x + Bytes(m, x))
            BY DEF Whole, Seamless
        <3> HIDE DEF rest
        <3> QED
            BY <2>3, <2>4, <3>1, <3>2 DEF Seamless
    <2> QED
        BY <2>5, <2>7, <2>8 DEF Whole, w
<1> QED
    BY <1>1, <1>2

LEMMA SetFreeWhole ==
    ASSUME NEW m, Sound(m), NEW k, Whole(m, k), NEW b \in DOMAIN m.block, NEW free
    PROVE  Whole(SetFree(m, b, free), k)
<1> DEFINE w == SetFree(m, b, free)
           D == DOMAIN m.block
<1>1. /\ w.head = m.head /\ w.tail = m.tail
      /\ w.block = [m.block EXCEPT ![b] = Block(m.block[b].size, free, m.block[b].next)]
    BY Fields DEF SetFree
<1>2. /\ DOMAIN w.block = D
      /\ \A x \in D : w.block[x].size = m.block[x].size /\ w.block[x].next = m.block[x].next
    BY <1>1 DEF Block
<1> HIDE DEF w
<1>3. InOrder(w)
    <2>1. PICK n, o : Counts(m, n) /\ Ordered(m, n, o)
        BY DEF Whole, InOrder
    <2> QED
        BY <1>1, <1>2, <2>1, OrderKept DEF InOrder
<1>4. \A x \in D : Bytes(w, x) = Bytes(m, x)
    BY <1>2 DEF Bytes
<1> QED
    BY <1>2, <1>3, <1>4 DEF Whole, Filled, InBlock, Seamless, w

LEMMA AppendedWhole ==
    ASSUME NEW m, Sound(m), NEW k, k \subseteq Nat \X Nat, Whole(m, k),
           NEW b \in Nat \ {0}, NEW size \in Nat, b \notin DOMAIN m.block
    PROVE  Whole(Appended(m, b, size), k \cup {<<b, Header + size>>})
<1> DEFINE w == Appended(m, b, size)
           D == DOMAIN m.block
           K == k \cup {<<b, Header + size>>}
<1>0. /\ Shaped(m) /\ Chained(m) /\ 0 \notin D /\ Null = 0 /\ Header = 24
      /\ \A x \in D : x \in Nat /\ m.block[x].size \in Nat
    BY DEF Sound, Shaped, Null, Header
<1>1. /\ DOMAIN w.block = D \cup {b}
      /\ w.block[b].size = size
      /\ \A x \in D : /\ w.block[x].size = m.block[x].size
                       /\ w.block[x].next = IF x = m.tail THEN b ELSE m.block[x].next
    BY <1>0, Fields DEF Appended, Block
<1>2. InOrder(w)
    <2>1. PICK n, o : Counts(m, n) /\ Ordered(m, n, o)
        BY DEF Whole, InOrder
    <2>2. Counts(w, n + 1) /\ \E q : Ordered(w, n + 1, q)
        BY <1>0, <2>1, OrderAppended
    <2> HIDE DEF w
    <2> QED
        BY <2>2 DEF InOrder
<1> HIDE DEF w
<1>3. /\ \A x \in D : Bytes(w, x) = Bytes(m, x)
      /\ Bytes(w, b) = Header + size
    BY <1>1 DEF Bytes
<1>4. Filled(w, K)
    <2>1. ASSUME NEW p \in k, NEW x \in p[1]..(p[1] + p[2] - 1)
          PROVE  InBlock(w, x)
        BY <1>1, <1>3 DEF Whole, Filled, InBlock
    <2>2. ASSUME NEW x \in b..(b + (Header + size) - 1)
          PROVE  InBlock(w, x)
        BY <1>0, <1>1, <1>3 DEF InBlock
    <2> QED
        BY <2>1, <2>2 DEF Filled
<1>5. Seamless(w, K)
    <2>1. EndsMapping(K, b + Bytes(w, b))
        <3>1. <<b, Header + size>> \in K
            OBVIOUS
        <3>2. b + Bytes(w, b) = <<b, Header + size>>[1] + <<b, Header + size>>[2]
            BY <1>3
        <3> HIDE DEF K
        <3> QED
            BY <3>1, <3>2 DEF EndsMapping
    <2>2. ASSUME NEW x \in D
          PROVE  w.block[x].next = x + Bytes(w, x) \/ EndsMapping(K, x + Bytes(w, x))
        <3>1. m.block[x].next = x + Bytes(m, x) \/ EndsMapping(k, x + Bytes(m, x))
            BY DEF Whole, Seamless
        <3>2. CASE EndsMapping(k, x + Bytes(m, x))
            BY <1>3, <3>2 DEF EndsMapping
        <3>3. CASE m.block[x].next = x + Bytes(m, x)
            <4>1. m.block[x].next # Null
                BY <1>0, <3>3 DEF Bytes
            <4>2. x # m.tail
                BY <1>0, <4>1 DEF Chained
            <4> QED
                BY <1>1, <1>3, <3>3, <4>2
        <3> QED
            BY <3>1, <3>2, <3>3
    <2> QED
        BY <1>1, <2>1, <2>2 DEF Seamless
<1> QED
    BY <1>2, <1>4, <1>5 DEF Whole, w

LEMMA JoinedWhole ==
    ASSUME NEW m, Sound(m), NEW k, k \subseteq Nat \X Nat, Whole(m, k),
           NEW b \in DOMAIN m.block, NEW w, Joined(w, m, b)
    PROVE  Whole(w, k)
<1> DEFINE D == DOMAIN m.block
           c == m.block[b].next
<1>0. /\ Shaped(m)
      /\ \A x \in D : x \in Nat /\ Bytes(m, x) \in Nat
    BY DEF Sound, Shaped, Bytes, Header
<1>1. /\ c \in D /\ c # b
      /\ DOMAIN w.block = D \ {c}
      /\ w.block[b].next = m.block[c].next
      /\ Bytes(w, b) = Bytes(m, b) + Bytes(m, c)
      /\ c = b + Bytes(m, b)
      /\ \A x \in D \ {b, c} : w.block[x] = m.block[x]
    BY DEF Joined
<1>2. \A x \in D \ {b, c} : Bytes(w, x) = Bytes(m, x)
    BY <1>1 DEF Bytes
<1>3. InOrder(w)
    <2>1. PICK n, o : Counts(m, n) /\ Ordered(m, n, o)
        BY DEF Whole, InOrder
    <2>2. PICK i \in 0..(n - 1) : o[i] = b
        BY <2>1 DEF Ordered
    <2>3. Counts(w, n - 1) /\ \E q : Ordered(w, n - 1, q)
        BY <1>0, <2>1, <2>2, OrderJoined
    <2> QED
        BY <2>3 DEF InOrder
<1> HIDE DEF c
<1>4. ASSUME NEW x \in Int, InBlock(m, x)
      PROVE  InBlock(w, x)
    <2>1. PICK y \in D : y <= x /\ x < y + Bytes(m, y)
        BY <1>4 DEF InBlock
    <2>2. CASE y \in {b, c}
        <3>1. b <= x /\ x < b + Bytes(w, b)
            BY <1>0, <1>1, <2>1, <2>2
        <3> QED
            BY <1>1, <3>1 DEF InBlock
    <2>3. CASE y \notin {b, c}
        BY <1>1, <1>2, <2>1, <2>3 DEF InBlock
    <2> QED
        BY <2>2, <2>3
<1>5. Filled(w, k)
    BY <1>4 DEF Whole, Filled
<1>6. Seamless(w, k)
    <2>1. b + Bytes(w, b) = c + Bytes(m, c)
        BY <1>0, <1>1
    <2>2. \A x \in D : m.block[x].next = x + Bytes(m, x) \/ EndsMapping(k, x + Bytes(m, x))
        BY DEF Whole, Seamless
    <2> QED
        BY <1>1, <1>2, <2>1, <2>2 DEF Seamless
<1> QED
    BY <1>3, <1>5, <1>6 DEF Whole

-----------------------------------------------------------------------------
(***************************************************************************)
(* The heap stays whole.                                                   *)
(***************************************************************************)
WholeInv == Whole(memory, mapped) /\ PagesOK(mapped)

LEMMA WholeSame ==
    ASSUME WholeInv, UNCHANGED <<memory, mapped>>
    PROVE  WholeInv'
BY DEF WholeInv

LEMMA SizeOfRequest ==
    ASSUME NEW n \in Requests
    PROVE  n \in 0..(Limit - Alignment) /\ Align(n) \in Nat
BY AllocatorAssumption, AlignCovers

LEMMA WholeResize ==
    ASSUME HeapInv, WholeInv, NEW t \in Threads, NEW p \in DOMAIN live,
           NEW n \in Requests, Resize(t, p, n), UNCHANGED mapped
    PROVE  WholeInv'
<1>1. PICK m, w : m = memory /\ w = memory'
    OBVIOUS
<1>2. /\ Sound(m) /\ Whole(m, mapped) /\ mapped \subseteq Nat \X Nat
      /\ p - Header \in DOMAIN m.block /\ Align(n) \in Nat
      /\ w = Split(m, p - Header, Align(n))
    BY <1>1, BacksNow, SizeOfRequest DEF HeapInv, WholeInv, PagesOK, Backs, Resize
<1>3. Whole(w, mapped)
    BY <1>2, SplitWhole
<1> QED
    BY <1>1, <1>3 DEF WholeInv

LEMMA WholeTake ==
    ASSUME HeapInv, WholeInv, NEW t \in Threads, Take(t)
    PROVE  WholeInv'
<1> DEFINE b == local[t].block
           size == Align(local[t].asked)
<1>1. PICK m, w, x : m = memory /\ w = memory' /\ x = SetFree(memory, b, FALSE)
    OBVIOUS
<1>2. LocalsOf(t) /\ pc[t] = "take"
    BY DEF HeapInv, Locals, Take, At
<1>3. /\ Sound(m) /\ Whole(m, mapped) /\ mapped \subseteq Nat \X Nat
      /\ b \in DOMAIN m.block /\ size \in Nat
      /\ w = Split(x, b, size) /\ UNCHANGED mapped
    BY <1>1, <1>2, AlignCovers DEF HeapInv, WholeInv, PagesOK, LocalsOf, Blocks, Take
<1>4. Sound(x) /\ b \in DOMAIN x.block
    <2>1. FALSE \in BOOLEAN
        OBVIOUS
    <2>2. Remarked(SetFree(m, b, FALSE), m, b, FALSE)
        BY <1>3, <2>1, SetFreeSound, Zenon
    <2> QED
        BY <1>1, <1>3, <2>2 DEF Remarked
<1> HIDE DEF b, size
<1>5. Whole(x, mapped)
    BY <1>1, <1>3, SetFreeWhole, Zenon
<1>6. Whole(w, mapped)
    BY <1>3, <1>4, <1>5, SplitWhole
<1> QED
    BY <1>1, <1>3, <1>6 DEF WholeInv

LEMMA WholeMark ==
    ASSUME HeapInv, WholeInv, NEW t \in Threads, Mark(t)
    PROVE  WholeInv'
<1> DEFINE b == local[t].ptr - Header
<1>1. PICK m, w : m = memory /\ w = memory'
    OBVIOUS
<1>2. local[t].ptr \in DOMAIN live
    BY MarkKeepsMem
<1>3. /\ Sound(m) /\ Whole(m, mapped) /\ b \in DOMAIN m.block
      /\ w = SetFree(m, b, TRUE) /\ UNCHANGED mapped
    BY <1>1, <1>2, BacksNow DEF HeapInv, WholeInv, Backs, Mark
<1> HIDE DEF b
<1>4. Whole(w, mapped)
    BY <1>3, SetFreeWhole, Zenon
<1> QED
    BY <1>1, <1>3, <1>4 DEF WholeInv

LEMMA WholeMerged ==
    ASSUME HeapInv, WholeInv, NEW b \in Blocks, memory.block[b].next # Null,
           Mergeable(memory, b), memory' = Merged(memory, b), UNCHANGED mapped
    PROVE  WholeInv'
<1>1. PICK m, w : m = memory /\ w = memory'
    OBVIOUS
<1>2. /\ Sound(m) /\ Whole(m, mapped) /\ mapped \subseteq Nat \X Nat
      /\ b \in DOMAIN m.block
    BY <1>1 DEF HeapInv, WholeInv, PagesOK, Blocks
<1>3. Joined(w, m, b)
    BY <1>1, <1>2, MergedJoins
<1>4. Whole(w, mapped)
    BY <1>2, <1>3, JoinedWhole
<1> QED
    BY <1>1, <1>4 DEF WholeInv

LEMMA WholeGrow ==
    ASSUME HeapInv, WholeInv, NEW t \in Threads, Grow(t)
    PROVE  WholeInv'
<1> DEFINE size == Align(local[t].asked)
           length == MappingSize(size)
<1>1. size \in Nat \ {0}
    <2>1. LocalsOf(t) /\ pc[t] = "grow"
        BY DEF HeapInv, Locals, Grow, At
    <2>2. local[t].asked \in 0..(Limit - Alignment) /\ local[t].asked >= 1
        BY <2>1 DEF LocalsOf
    <2>3. size \in Nat /\ local[t].asked <= size
        BY <2>2, AlignCovers
    <2>4. local[t].asked \in Nat
        BY <2>2, AllocatorAssumption DEF Alignment
    <2> QED
        BY <2>2, <2>3, <2>4
<1>2. PICK b \in Bases :
          /\ Mappable(b, length)
          /\ mapped' = mapped \cup {<<b, length>>}
          /\ memory' = Split(Appended(memory, b, length - Header), b, size)
    BY DEF Grow
<1>3. /\ length > 0 /\ b \in Nat \ {0}
      /\ \A p \in mapped : b + length <= p[1] \/ p[1] + p[2] <= b
    BY <1>2, AllocatorAssumption DEF Mappable
<1> HIDE DEF size
<1>4. length \in Nat /\ Header + size <= length
    BY <1>1, <1>3, MappingFits
<1> HIDE DEF length
<1>5. PICK rest \in Nat : rest = length - Header /\ Header + rest = length
    <2>1. length - Header \in Nat /\ Header + (length - Header) = length
        BY <1>1, <1>4 DEF Header
    <2> QED
        BY <2>1
<1>6. PICK m, w, x : m = memory /\ w = memory' /\ x = Appended(memory, b, rest)
    OBVIOUS
<1>7. /\ Sound(m) /\ Whole(m, mapped) /\ PagesOK(mapped) /\ mapped \subseteq Nat \X Nat
    BY <1>6 DEF HeapInv, WholeInv, PagesOK
<1>8. /\ \A c \in DOMAIN m.block : Heap!Apart(c, Bytes(m, c), b, Header + rest)
      /\ b \notin DOMAIN m.block
    BY <1>2, <1>4, <1>5, <1>6, NewPagesApart DEF Blocks
<1>9. Sound(x) /\ b \in DOMAIN x.block
    BY <1>3, <1>6, <1>7, <1>8, AppendedSound
<1>10. Whole(x, mapped')
    <2>1. Whole(Appended(m, b, rest), mapped \cup {<<b, Header + rest>>})
        BY <1>3, <1>7, <1>8, AppendedWhole
    <2> QED
        BY <1>2, <1>5, <1>6, <2>1
<1>11. PagesOK(mapped')
    <2>1. PICK k : k = mapped
        OBVIOUS
    <2>2. IsFiniteSet(k \cup {<<b, length>>})
        BY <1>7, <2>1, FS_AddElement DEF PagesOK
    <2>3. mapped' \subseteq Nat \X Nat /\ \A p \in mapped' : p[2] > 0
        BY <1>2, <1>3, <1>4, <1>7 DEF PagesOK
    <2>4. ASSUME NEW p \in mapped', NEW q \in mapped', p # q
          PROVE  Heap!Apart(p[1], p[2], q[1], q[2])
        <3>0. <<b, length>>[1] = b /\ <<b, length>>[2] = length
            OBVIOUS
        <3>1. PICK z : z = <<b, length>> /\ z[1] = b /\ z[2] = length
            BY <3>0, Zenon
        <3>2. mapped' = mapped \cup {z}
            BY <1>2, <3>1
        <3>3. \A y \in mapped : Heap!Apart(y[1], y[2], z[1], z[2]) /\ Heap!Apart(z[1], z[2], y[1], y[2])
            BY <1>3, <3>1 DEF Heap!Apart
        <3> QED
            BY <1>7, <2>4, <3>2, <3>3 DEF PagesOK
    <2> QED
        BY <1>2, <2>1, <2>2, <2>3, <2>4 DEF PagesOK
<1>12. Whole(w, mapped')
    <2>1. PICK k : k = mapped'
        OBVIOUS
    <2>2. k \subseteq Nat \X Nat /\ Whole(x, k) /\ w = Split(x, b, size) /\ size \in Nat
        BY <1>1, <1>2, <1>5, <1>6, <1>10, <1>11, <2>1 DEF PagesOK
    <2>3. Whole(w, k)
        BY <1>9, <2>2, SplitWhole
    <2> QED
        BY <2>1, <2>3
<1> QED
    BY <1>6, <1>11, <1>12 DEF WholeInv

LEMMA WholeInductive == HeapInv /\ WholeInv /\ [Next]_vars => WholeInv'
<1> SUFFICES ASSUME HeapInv, WholeInv, [Next]_vars
             PROVE  WholeInv'
    OBVIOUS
<1>1. ASSUME NEW t \in Threads, BeginRealloc(t)
      PROVE  WholeInv'
    <2>1. PICK p \in DOMAIN live, n \in Requests \ {0} :
             Resize(t, p, n) \/ UNCHANGED <<memory, handVars>>
        BY <1>1 DEF BeginRealloc
    <2>2. UNCHANGED mapped
        BY <1>1 DEF BeginRealloc
    <2> QED
        BY <2>1, <2>2, WholeResize, WholeSame
<1>2. ASSUME NEW t \in Threads, Merge(t)
      PROVE  WholeInv'
    <2>1. local[t].block \in Blocks /\ UNCHANGED mapped
        BY <1>2 DEF HeapInv, Locals, LocalsOf, Merge, At
    <2> QED
        BY <1>2, <2>1, WholeMerged, WholeSame DEF Merge
<1>3. ASSUME NEW t \in Threads,
             \/ BeginMalloc(t) \/ BeginFree(t) \/ Find(t) \/ GrowFails(t)
             \/ Unlock(t) \/ Call(t) \/ Exchange(t) \/ Spin(t)
      PROVE  UNCHANGED <<memory, mapped>>
    BY <1>3 DEF BeginMalloc, BeginFree, Find, GrowFails, Unlock, Call, Exchange, Spin
<1>4. CASE UNCHANGED vars
    BY <1>4, WholeSame DEF vars
<1> QED
    BY <1>1, <1>2, <1>3, <1>4, WholeSame, WholeTake, WholeGrow, WholeMark DEF Next, Work

LEMMA WholeInit == Init => WholeInv
<1> SUFFICES ASSUME Init
             PROVE  WholeInv
    OBVIOUS
<1>1. /\ memory.head = Null /\ memory.tail = Null /\ DOMAIN memory.block = {} /\ mapped = {}
    BY DEF Init
<1>2. Counts(memory, 0)
    BY <1>1, FS_EmptySet DEF Counts
<1>3. Ordered(memory, 0, [i \in {} |-> 0])
    BY <1>1 DEF Ordered
<1>4. InOrder(memory)
    BY <1>2, <1>3 DEF InOrder
<1>5. PagesOK(mapped)
    BY <1>1, FS_EmptySet DEF PagesOK
<1> QED
    BY <1>1, <1>4, <1>5 DEF WholeInv, Whole, Filled, Seamless

-----------------------------------------------------------------------------
(***************************************************************************)
(* When nothing is handed out there is nothing left to merge, but behind   *)
(* the block at which a thread is merging.                                 *)
(***************************************************************************)
Pair(m, b) == m.block[b].next # Null /\ Mergeable(m, b)

TidyBefore(m, b) ==
    \E n, o : /\ Counts(m, n) /\ Ordered(m, n, o)
             /\ \E i \in 0..(n - 1) : o[i] = b /\ \A j \in 0..(i - 1) : ~ Pair(m, o[j])

Tidy ==
    DOMAIN live = {} =>
        \/ \A b \in Blocks : ~ Pair(memory, b)
        \/ \E t \in Threads : pc[t] = "merge" /\ TidyBefore(memory, local[t].block)

LEMMA TidyAtHead ==
    ASSUME NEW m, Shaped(m), InOrder(m), m.head # Null
    PROVE  TidyBefore(m, m.head)
<1>1. PICK n, o : Counts(m, n) /\ Ordered(m, n, o)
    BY DEF InOrder
<1>2. n # 0 /\ n \in Nat
    BY <1>1 DEF Ordered, Counts
<1>3. 0 \in 0..(n - 1) /\ o[0] = m.head /\ \A j \in 0..(0 - 1) : FALSE
    BY <1>1, <1>2 DEF Ordered
<1> QED
    BY <1>1, <1>3 DEF TidyBefore

\* The cursor passes a block that is not merged.
LEMMA TidyPasses ==
    ASSUME NEW m, Shaped(m), NEW b \in DOMAIN m.block, TidyBefore(m, b), ~ Pair(m, b)
    PROVE  /\ m.block[b].next # Null => TidyBefore(m, m.block[b].next)
           /\ m.block[b].next = Null => \A x \in DOMAIN m.block : ~ Pair(m, x)
<1>1. PICK n, o : /\ Counts(m, n) /\ Ordered(m, n, o)
                  /\ \E i \in 0..(n - 1) : o[i] = b /\ \A j \in 0..(i - 1) : ~ Pair(m, o[j])
    BY DEF TidyBefore
<1>2. PICK i \in 0..(n - 1) : o[i] = b /\ \A j \in 0..(i - 1) : ~ Pair(m, o[j])
    BY <1>1
<1>3. n \in Nat /\ i \in Nat /\ i <= n - 1
    BY <1>1, <1>2 DEF Counts
<1>4. \A j \in 0..i : ~ Pair(m, o[j])
    BY <1>2, <1>3
<1>5. /\ m.block[b].next = IF i = n - 1 THEN Null ELSE o[i + 1]
      /\ \A j \in 0..(n - 1) : o[j] \in DOMAIN m.block
      /\ \A x \in DOMAIN m.block : \E j \in 0..(n - 1) : o[j] = x
    BY <1>1, <1>2 DEF Ordered
<1>6. CASE i = n - 1
    BY <1>4, <1>5, <1>6
<1>7. CASE i # n - 1
    <2>1. i + 1 \in 0..(n - 1) /\ (i + 1) - 1 = i
        BY <1>3, <1>7
    <2>2. m.block[b].next = o[i + 1] /\ o[i + 1] # Null
        BY <1>5, <1>7, <2>1 DEF Shaped, Null
    <2>3. TidyBefore(m, o[i + 1])
        BY <1>1, <1>4, <2>1 DEF TidyBefore
    <2> QED
        BY <2>2, <2>3
<1> QED
    BY <1>6, <1>7

\* What is merged is at the cursor, and before it nothing changes.
LEMMA TidyMerges ==
    ASSUME NEW m, Sound(m), NEW b \in DOMAIN m.block, TidyBefore(m, b), NEW w, Joined(w, m, b)
    PROVE  TidyBefore(w, b)
<1> DEFINE c == m.block[b].next
<1>0. Shaped(m)
    BY DEF Sound
<1>1. PICK n, o : /\ Counts(m, n) /\ Ordered(m, n, o)
                  /\ \E i \in 0..(n - 1) : o[i] = b /\ \A j \in 0..(i - 1) : ~ Pair(m, o[j])
    BY DEF TidyBefore
<1>2. PICK i \in 0..(n - 1) : o[i] = b /\ \A j \in 0..(i - 1) : ~ Pair(m, o[j])
    BY <1>1
<1>3. /\ Counts(w, n - 1) /\ i < n - 1
      /\ \E q : Ordered(w, n - 1, q) /\ \A j \in 0..i : q[j] = o[j]
    BY <1>0, <1>1, <1>2, OrderJoined
<1>4. PICK q : Ordered(w, n - 1, q) /\ \A j \in 0..i : q[j] = o[j]
    BY <1>3
<1>5. n \in Nat /\ i \in Nat /\ i \in 0..((n - 1) - 1) /\ q[i] = b
    BY <1>1, <1>2, <1>3, <1>4 DEF Counts
<1>6. ASSUME NEW j \in 0..(i - 1)
      PROVE  ~ Pair(w, q[j])
    <2>1. j \in 0..(n - 1) /\ j + 1 \in 0..(n - 1) /\ j # n - 1 /\ j \in 0..i /\ j # i /\ j + 1 # i + 1
          /\ i + 1 \in 0..(n - 1) /\ j # i + 1
        BY <1>3, <1>5
    <2>2. /\ q[j] = o[j] /\ o[j] \in DOMAIN m.block /\ o[j + 1] \in DOMAIN m.block
          /\ m.block[o[j]].next = o[j + 1]
          /\ c = o[i + 1] /\ o[j] # b /\ o[j] # c /\ o[j + 1] # c
        <3>1. m.block[o[j]].next = (IF j = n - 1 THEN Null ELSE o[j + 1]) /\ q[j] = o[j]
            BY <1>1, <1>4, <2>1 DEF Ordered
        <3>2. i # n - 1 /\ c = o[i + 1]
            <4>1. i # n - 1
                BY <1>3, <1>5
            <4>2. m.block[o[i]].next = IF i = n - 1 THEN Null ELSE o[i + 1]
                BY <1>1 DEF Ordered
            <4> QED
                BY <1>2, <4>1, <4>2
        <3> HIDE DEF c
        <3> QED
            BY <1>1, <1>2, <2>1, <3>1, <3>2 DEF Ordered
    <2>3. /\ w.block[o[j]] = m.block[o[j]]
          /\ w.block[o[j + 1]].free = m.block[o[j + 1]].free
        <3>1. /\ w.block[b].free = m.block[b].free
              /\ \A x \in DOMAIN m.block \ {b, c} : w.block[x] = m.block[x]
            BY DEF Joined
        <3> QED
            BY <2>2, <3>1
    <2>4. ~ Pair(m, o[j])
        BY <1>2
    <2> QED
        BY <2>2, <2>3, <2>4 DEF Pair, Mergeable, Adjacent
<1> QED
    BY <1>3, <1>4, <1>5, <1>6 DEF TidyBefore

LEMMA TidyMark ==
    ASSUME HeapInv, WholeInv, WholeInv', HeapInv', NEW t \in Threads, Mark(t)
    PROVE  Tidy'
<1>1. PICK w : w = memory'
    OBVIOUS
<1>2. pc'[t] = "merge" /\ local'[t].block = memory.head
    BY DEF HeapInv, Locked, Locals, LocalsOf, Mark, Goes
<1>3. memory.head = w.head
    <2>1. \A n, b, free : SetFree(n, b, free).head = n.head
        BY Fields DEF SetFree
    <2>2. memory' = SetFree(memory, local[t].ptr - Header, TRUE)
        BY DEF Mark
    <2>  QED
        BY <1>1, <2>1, <2>2, Zenon
<1>4. Shaped(w) /\ InOrder(w) /\ w.head # Null
    <2>1. w.head \in DOMAIN w.block
        BY <1>1, <1>3, MarkKeepsMem
    <2> QED
        BY <1>1, <2>1 DEF HeapInv, Sound, Shaped, WholeInv, Whole, Null
<1>5. TidyBefore(w, w.head)
    BY <1>4, TidyAtHead
<1>6. TidyBefore(memory', local'[t].block)
    BY <1>1, <1>2, <1>3, <1>5
<1> QED
    BY <1>2, <1>6 DEF Tidy

LEMMA TidyMerge ==
    ASSUME HeapInv, WholeInv, Tidy, NEW t \in Threads, Merge(t)
    PROVE  Tidy'
<1> DEFINE b == local[t].block
           c == memory.block[b].next
<1>0. /\ b \in Blocks /\ pc[t] = "merge" /\ UNCHANGED live /\ Sound(memory) /\ Shaped(memory)
      /\ DOMAIN pc = Threads /\ DOMAIN local = Threads
    BY DEF HeapInv, Locked, Locals, LocalsOf, Merge, At, handVars, Sound
<1> SUFFICES ASSUME DOMAIN live = {}
             PROVE  \/ \A x \in Blocks' : ~ Pair(memory', x)
                    \/ pc'[t] = "merge" /\ TidyBefore(memory', local'[t].block)
    BY <1>0 DEF Tidy
<1>1. \/ \A x \in Blocks : ~ Pair(memory, x)
      \/ TidyBefore(memory, b)
    <2>1. ASSUME NEW u \in Threads, pc[u] = "merge"
          PROVE  u = t
        BY <1>0, <2>1 DEF HeapInv, Locked, Inside
    <2> QED
        BY <2>1 DEF Tidy
<1>2. CASE c = Null /\ UNCHANGED <<memory, local>>
    <2>1. ~ Pair(memory, b)
        BY <1>2 DEF Pair
    <2>2. \A x \in DOMAIN memory.block : ~ Pair(memory, x)
        BY <1>0, <1>1, <1>2, <2>1, TidyPasses DEF Blocks
    <2> QED
        BY <1>2, <2>2 DEF Blocks
<1>3. CASE /\ c # Null /\ Mergeable(memory, b)
           /\ memory' = Merged(memory, b)
           /\ UNCHANGED <<pc, local>>
    <2>1. PICK m, w : m = memory /\ w = memory'
        OBVIOUS
    <2>2. Joined(w, m, b)
        BY <1>0, <1>3, <2>1, MergedJoins DEF Blocks
    <2>3. TidyBefore(m, b)
        BY <1>0, <1>1, <1>3, <2>1 DEF Pair
    <2>4. TidyBefore(w, b)
        BY <1>0, <2>1, <2>2, <2>3, TidyMerges DEF Blocks
    <2> QED
        BY <1>0, <1>3, <2>1, <2>4
<1>4. CASE /\ c # Null /\ ~ Mergeable(memory, b)
           /\ local' = [local EXCEPT ![t] = [local[t] EXCEPT !.block = c]]
           /\ UNCHANGED <<memory, pc>>
    <2>1. ~ Pair(memory, b) /\ local'[t].block = c /\ pc'[t] = "merge"
        <3>1. local[t] \in [ptr : Nat, asked : 0..(Limit - Alignment), block : Nat]
            BY DEF HeapInv, Locals, LocalsOf
        <3> QED
            BY <1>0, <1>4, <3>1 DEF Pair
    <2>2. CASE TidyBefore(memory, b)
        <3>1. TidyBefore(memory, c)
            BY <1>0, <1>4, <2>1, <2>2, TidyPasses DEF Blocks
        <3>2. TidyBefore(memory', local'[t].block)
            BY <1>4, <2>1, <3>1
        <3> QED
            BY <2>1, <3>2
    <2>3. CASE \A x \in Blocks : ~ Pair(memory, x)
        BY <1>4, <2>3 DEF Blocks
    <2> QED
        BY <1>1, <2>2, <2>3
<1> QED
    BY <1>2, <1>3, <1>4 DEF Merge

LEMMA TidyElsewhere ==
    ASSUME HeapInv, Tidy, NEW t \in Threads, pc[t] # "merge", UNCHANGED <<memory, live>>,
           \/ pc[t] \in Inside
           \/ pc' = [pc EXCEPT ![t] = pc'[t]] /\ UNCHANGED local
    PROVE  Tidy'
<1> SUFFICES ASSUME DOMAIN live = {}
             PROVE  \/ \A x \in Blocks : ~ Pair(memory, x)
                    \/ \E u \in Threads : pc'[u] = "merge" /\ TidyBefore(memory, local'[u].block)
    <2>1. PICK m : m = memory
        OBVIOUS
    <2> QED
        BY DEF Tidy, Blocks
<1>1. CASE \A x \in Blocks : ~ Pair(memory, x)
    BY <1>1
<1>2. ASSUME NEW u \in Threads, pc[u] = "merge", TidyBefore(memory, local[u].block)
      PROVE  \E v \in Threads : pc'[v] = "merge" /\ TidyBefore(memory, local'[v].block)
    <2>1. u # t /\ pc[t] \notin Inside
        BY <1>2 DEF HeapInv, Locked, Inside
    <2>2. pc'[u] = "merge" /\ local'[u] = local[u]
        BY <1>2, <2>1 DEF HeapInv, Locked
    <2> QED
        BY <1>2, <2>2
<1> QED
    BY <1>1, <1>2 DEF Tidy

LEMMA TidyInductive ==
    HeapInv /\ WholeInv /\ Tidy /\ HeapInv' /\ WholeInv' /\ [Next]_vars => Tidy'
<1> SUFFICES ASSUME HeapInv, WholeInv, Tidy, HeapInv', WholeInv', [Next]_vars
             PROVE  Tidy'
    OBVIOUS
<1>0. DOMAIN pc = Threads
    BY DEF HeapInv, Locked
<1>1. ASSUME NEW t \in Threads, Take(t) \/ Grow(t)
      PROVE  Tidy'
    <2>1. DOMAIN live' # {}
        BY <1>1 DEF Take, Grow, HandOut
    <2> QED
        BY <2>1 DEF Tidy
<1>2. ASSUME NEW t \in Threads, BeginRealloc(t)
      PROVE  Tidy'
    <2>1. DOMAIN live # {} /\ DOMAIN live' = DOMAIN live
        BY <1>2 DEF BeginRealloc, Resize, handVars
    <2> QED
        BY <2>1 DEF Tidy
<1>3. ASSUME NEW t \in Threads,
             BeginMalloc(t) \/ BeginFree(t) \/ Find(t) \/ GrowFails(t) \/ Unlock(t)
      PROVE  Tidy'
    <2>1. /\ pc[t] \in Inside /\ pc[t] # "merge"
          /\ UNCHANGED <<memory, live>>
        BY <1>3 DEF BeginMalloc, BeginFree, Find, GrowFails, Unlock, At, Inside, handVars
    <2> QED
        BY <2>1, TidyElsewhere
<1>4. ASSUME NEW t \in Threads, Call(t) \/ Exchange(t) \/ Spin(t)
      PROVE  Tidy'
    <2>1. /\ pc[t] # "merge" /\ pc' = [pc EXCEPT ![t] = pc'[t]]
          /\ UNCHANGED <<memory, live, local>>
        BY <1>0, <1>4 DEF Call, Exchange, Spin, At, Goes, handVars
    <2> QED
        BY <2>1, TidyElsewhere
<1>5. CASE UNCHANGED vars
    BY <1>5 DEF Tidy, Blocks, vars, handVars
<1> QED
    BY <1>1, <1>2, <1>3, <1>4, <1>5, TidyMark, TidyMerge DEF Next, Work

LEMMA TidyInit == Init => Tidy
BY DEF Init, Tidy, Blocks

-----------------------------------------------------------------------------
(***************************************************************************)
(* What a whole heap means for the walk of the list, for the sum of the    *)
(* sizes, and for a heap in which every block is free.                     *)
(***************************************************************************)
LEMMA WholeList == HeapInv /\ WholeInv => ListWhole
<1> SUFFICES ASSUME HeapInv, WholeInv
             PROVE  ListWhole
    OBVIOUS
<1>1. PICK n, o : Counts(memory, n) /\ Ordered(memory, n, o)
    BY DEF WholeInv, Whole, InOrder
<1>2. /\ Cardinality(Blocks) = n /\ n \in Nat
      /\ Blocks # {} => n # 0
    BY <1>1, FS_EmptySet DEF Counts, Blocks
<1>3. \A k \in Nat : Nth[k] = IF k < n THEN o[k] ELSE Null
    BY <1>1, NthIsOrder DEF HeapInv, Sound
<1>4. ASSUME NEW b \in Blocks
      PROVE  Listed(b)
    <2>1. PICK i \in 0..(n - 1) : o[i] = b
        BY <1>1 DEF Ordered, Blocks
    <2>2. i \in Nat /\ i < n /\ i \in 0..n
        BY <1>2
    <2>3. Nth[i] = b
        BY <1>3, <2>1, <2>2
    <2> QED
        BY <1>2, <2>2, <2>3 DEF Listed, IsNth
<1>5. ASSUME Blocks # {}
      PROVE  IsNth(n - 1, memory.tail)
    <2>1. n - 1 \in Nat /\ n - 1 < n /\ n > 0
        BY <1>2, <1>5
    <2>2. o[n - 1] = memory.tail
        BY <1>1, <2>1 DEF Ordered
    <2> QED
        BY <1>3, <2>1, <2>2 DEF IsNth
<1>6. IsNth(n, Null)
    BY <1>2, <1>3 DEF IsNth
<1> QED
    BY <1>2, <1>4, <1>5, <1>6 DEF ListWhole

LEMMA NoByteLost == HeapInv /\ WholeInv => NothingLost
<1> SUFFICES ASSUME HeapInv, WholeInv
             PROVE  NothingLost
    OBVIOUS
<1> DEFINE extent(b) == Header + memory.block[b].size
           length(m) == m[2]
           U == UNION {Span(memory)[b] : b \in Blocks}
           V == UNION {Pages(mapped)[p] : p \in mapped}
<1>1. MapThenSumSet(extent, Blocks) = Cardinality(U)
    <2>1. Sound(memory) /\ IsFiniteSet(DOMAIN memory.block)
        BY DEF HeapInv, WholeInv, Whole, InOrder, Counts
    <2> QED
        BY <2>1, BlocksAddUp DEF Blocks
<1>2. MapThenSumSet(length, mapped) = Cardinality(V)
    BY PagesAddUp DEF WholeInv
<1>3. /\ \A b \in Blocks : b \in Nat /\ Bytes(memory, b) \in Nat
      /\ \A p \in mapped : p[1] \in Nat /\ p[2] \in Nat
    BY DEF HeapInv, Sound, Shaped, Blocks, Bytes, Header, Books
<1>4. ASSUME NEW x \in U
      PROVE  x \in V
    <2>1. PICK b \in Blocks : x \in b..(b + Bytes(memory, b) - 1)
        BY DEF Span, Blocks
    <2>2. PICK p \in mapped : p[1] <= x /\ x < p[1] + p[2]
        BY <2>1 DEF HeapInv, Covered, IsMapped
    <2>3. x \in Pages(mapped)[p]
        BY <1>3, <2>1, <2>2 DEF Pages
    <2> QED
        BY <2>3
<1>5. ASSUME NEW x \in V
      PROVE  x \in U
    <2>1. PICK p \in mapped : x \in p[1]..(p[1] + p[2] - 1)
        BY DEF Pages
    <2>2. PICK b \in Blocks : b <= x /\ x < b + Bytes(memory, b)
        BY <2>1 DEF WholeInv, Whole, Filled, InBlock, Blocks
    <2>3. x \in Span(memory)[b]
        BY <1>3, <2>1, <2>2 DEF Span, Blocks
    <2> QED
        BY <2>3
<1>6. U = V
    BY <1>4, <1>5
<1> HIDE DEF U, V
<1>7. Cardinality(U) = Cardinality(V)
    BY <1>6
<1> QED
    BY <1>1, <1>2, <1>7, Zenon DEF NothingLost

LEMMA WholeWhenFree ==
    ASSUME HeapInv, WholeInv, DOMAIN live = {}, \A b \in Blocks : ~ Pair(memory, b)
    PROVE  Cardinality(Blocks) <= Cardinality(mapped)
<1> DEFINE end(b) == b + Bytes(memory, b)
<1>0. /\ \A b \in Blocks : b \in Nat \ {0} /\ Bytes(memory, b) \in Nat \ {0}
      /\ \A b \in Blocks : memory.block[b].next \in Blocks \cup {Null}
      /\ \A b, c \in Blocks : b # c => Heap!Apart(b, Bytes(memory, b), c, Bytes(memory, c))
    BY DEF HeapInv, Sound, Shaped, Disjoint, Blocks, Bytes, Header
<1>1. \A b \in Blocks : memory.block[b].free
    BY BacksNow DEF Backs, Blocks
<1>2. ASSUME NEW b \in Blocks
      PROVE  \E p \in mapped : end(b) = p[1] + p[2]
    <2>1. CASE memory.block[b].next = end(b)
        <3>1. memory.block[b].next # Null /\ memory.block[b].next \in Blocks
            BY <1>0, <2>1 DEF Null
        <3>2. Adjacent(memory, b, memory.block[b].next)
            <4>1. b \in Nat /\ memory.block[b].size \in Nat
                BY DEF HeapInv, Sound, Shaped, Blocks
            <4> QED
                BY <2>1, <4>1 DEF Adjacent, Bytes, Header
        <3> QED
            BY <1>1, <3>1, <3>2 DEF Pair, Mergeable
    <2>2. CASE EndsMapping(mapped, end(b))
        BY <2>2 DEF EndsMapping
    <2> QED
        BY <2>1, <2>2 DEF WholeInv, Whole, Seamless, Blocks
<1>3. ASSUME NEW b \in Blocks, NEW c \in Blocks, end(b) = end(c)
      PROVE  b = c
    BY <1>0, <1>3 DEF Heap!Apart
<1> DEFINE f == [b \in Blocks |-> CHOOSE p \in mapped : end(b) = p[1] + p[2]]
<1> HIDE DEF end
<1>4. \A b \in Blocks : f[b] \in mapped /\ end(b) = f[b][1] + f[b][2]
    BY <1>2
<1>5. f \in Injection(Blocks, mapped)
    <2>1. f \in [Blocks -> mapped]
        BY <1>4
    <2>2. ASSUME NEW b \in Blocks, NEW c \in Blocks, f[b] = f[c]
          PROVE  b = c
        <3> HIDE DEF f
        <3> QED
            BY <1>3, <1>4, <2>2
    <2> QED
        BY <2>1, <2>2 DEF Injection, IsInjective
<1>6. IsFiniteSet(mapped)
    BY DEF WholeInv, PagesOK
<1> HIDE DEF f
<1> QED
    BY <1>5, <1>6, FS_Injection

LEMMA HeapAlways == Spec => [](HeapInv /\ WholeInv /\ Tidy)
BY HeapInvInit, HeapInvInductive, WholeInit, WholeInductive, TidyInit, TidyInductive, PTL DEF Spec

(***************************************************************************)
(* The heap stays sound through every order of splits, merges and new      *)
(* mappings of any threads: blocks apart, those in use as large as asked   *)
(* for, the list complete to its cached tail, no byte lost between them.   *)
(***************************************************************************)
THEOREM HeapStaysSound == Spec => []HeapSound
<1>1. HeapInv /\ WholeInv => HeapSound
    BY TypesAndBlocks, WholeList, NoByteLost DEF HeapSound
<1> QED
    BY <1>1, HeapAlways, PTL

(***************************************************************************)
(* When everything has been given back no mapping is left in pieces, for   *)
(* any threads, sizes and order of mappings.                               *)
(***************************************************************************)
THEOREM FreeHeapIsWhole == Spec => []AllFreeAllWhole
<1>1. HeapInv /\ WholeInv /\ Tidy => AllFreeAllWhole
    <2> SUFFICES ASSUME HeapInv, WholeInv, Tidy, live = Heap!Nothing,
                        \A t \in Threads : pc[t] \notin Inside
                 PROVE  Cardinality(Blocks) <= Cardinality(mapped)
        BY DEF AllFreeAllWhole
    <2>1. DOMAIN live = {}
        BY DEF Heap!Nothing
    <2>2. \A b \in Blocks : ~ Pair(memory, b)
        BY <2>1 DEF Tidy, Inside
    <2> QED
        BY <2>1, <2>2, WholeWhenFree
<1> QED
    BY <1>1, HeapAlways, PTL
=============================================================================
