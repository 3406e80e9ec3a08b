----------------------------- MODULE Allocator -----------------------------
(***************************************************************************)
(* The allocator of src/src/shared/runtime/memory.c: a linked list of      *)
(* blocks over pages from the kernel, first fit, blocks split when they    *)
(* are taken and merged with their neighbours when one is freed, all under *)
(* one spin lock.  Every buffer of every worker thread comes from it.      *)
(*                                                                         *)
(* An address is a number.  The arguments of a call are picked when the    *)
(* call has the lock: a caller that waits for it does not change them.     *)
(* rt_realloc of no pointer is rt_malloc, and rt_realloc to no bytes is    *)
(* rt_free: both are decided before the lock is taken.                     *)
(***************************************************************************)
EXTENDS Integers, FiniteSetsExt

CONSTANTS Threads,
          Requests,  \* the sizes callers ask for
          Bases,     \* the addresses mmap may return
          Top,       \* bound: end of the memory there is
          Limit,     \* 2^64: sizes are taken modulo Limit
          MaxLive    \* bound: pointers handed out

Null == 0
Header == 24       \* sizeof(RtAllocBlock)
Alignment == 16
PageSize == 4096

\* A size within Alignment of Limit would be aligned to 0.
ASSUME AllocatorAssumption ==
    /\ Limit \in Nat /\ Limit > PageSize /\ Limit % PageSize = 0
    /\ Requests \subseteq 0..(Limit - Alignment)
    /\ Bases \subseteq Nat \ {0}
    /\ Top \in Nat /\ MaxLive \in Nat

VARIABLES
    memory,  \* head, tail and the blocks: size, free and next by address
    mapped,  \* what the kernel has mapped, as <<base, length>>
    live,    \* history: the bytes asked for, of every pointer handed out
    held,    \* history: how many pointers callers hold
    lock,    \* rt_alloc_atomic_lock
    pc, local

handVars == <<live, held>>
vars == <<memory, mapped, handVars, lock, pc, local>>

(***************************************************************************)
(* "out" of the allocator, "try" before the exchange, "spin" reading the   *)
(* lock, "locked" with the lock and about to begin, "find" looking for a   *)
(* free block, "take" and "grow", "mark" freeing local.ptr, "merge" in     *)
(* rt_alloc_coalesce at local.block, "unlock".                             *)
(***************************************************************************)
Inside == {"locked", "find", "take", "grow", "mark", "merge", "unlock"}
Places == Inside \cup {"out", "try", "spin"}

\* ptr is Null in rt_malloc, asked 0 in rt_free.
NoLocal == [ptr |-> Null, asked |-> 0, block |-> Null]

Init ==
    /\ memory = [head |-> Null, tail |-> Null, block |-> [b \in {} |-> 0]]
    /\ mapped = {}
    /\ live = [p \in {} |-> 0] /\ held = 0
    /\ lock = 0
    /\ pc = [t \in Threads |-> "out"]
    /\ local = [t \in Threads |-> NoLocal]

-----------------------------------------------------------------------------
(***************************************************************************)
(* The list of blocks.                                                     *)
(***************************************************************************)
Block(size, free, next) == [size |-> size, free |-> free, next |-> next]

List(head, tail, block) == [head |-> head, tail |-> tail, block |-> block]

Blocks == DOMAIN memory.block

RoundDown(n, unit) == (n \div unit) * unit

Align(n) == RoundDown((n + Alignment - 1) % Limit, Alignment)
AlignPage(n) == RoundDown((n + PageSize - 1) % Limit, PageSize)

\* No block of less than one aligned word is split off.
Split(m, b, size) ==
    LET rest == b + Header + size
        old == m.block[b]
    IN  IF old.size <= size + Header + Alignment THEN m
        ELSE List(m.head, IF m.tail = b THEN rest ELSE m.tail,
                  [x \in DOMAIN m.block \cup {rest} |->
                      IF x = rest THEN Block(old.size - size - Header, TRUE, old.next)
                      ELSE IF x = b THEN Block(size, old.free, rest)
                      ELSE m.block[x]])

SetFree(m, b, free) ==
    List(m.head, m.tail,
         [m.block EXCEPT ![b] = Block(m.block[b].size, free, m.block[b].next)])

\* A new mapping is the last block of the list.
Appended(m, b, size) ==
    List(IF m.tail = Null THEN b ELSE m.head, b,
         [x \in DOMAIN m.block \cup {b} |->
             IF x = b THEN Block(size, FALSE, Null)
             ELSE IF x = m.tail THEN Block(m.block[x].size, m.block[x].free, b)
             ELSE m.block[x]])

Adjacent(m, b, c) == b + Header + m.block[b].size = c

\* The block after b becomes part of b.
Merged(m, b) ==
    LET c == m.block[b].next
    IN  List(m.head, IF m.block[c].next = Null THEN b ELSE m.tail,
             [x \in DOMAIN m.block \ {c} |->
                 IF x = b
                 THEN Block(m.block[b].size + Header + m.block[c].size, m.block[b].free,
                            m.block[c].next)
                 ELSE m.block[x]])

MergeableWhereverItLies(m, b) ==
    LET c == m.block[b].next
    IN  m.block[b].free /\ m.block[c].free

Mergeable(m, b) ==
    LET c == m.block[b].next
    IN  m.block[b].free /\ m.block[c].free /\ Adjacent(m, b, c)

\* The blocks in the order of the list.
Nth[n \in Nat] ==
    IF n = 0 THEN memory.head
    ELSE IF Nth[n - 1] = Null THEN Null ELSE memory.block[Nth[n - 1]].next

IsNth(n, b) == Nth[n] = b

Position(b) == CHOOSE n \in 0..Cardinality(Blocks) : IsNth(n, b)

Listed(b) == \E n \in 0..Cardinality(Blocks) : IsNth(n, b)

FittingOrTaken(size) == {b \in Blocks : Listed(b) /\ memory.block[b].size >= size}

Fitting(size) ==
    {b \in Blocks : Listed(b) /\ memory.block[b].free /\ memory.block[b].size >= size}

-----------------------------------------------------------------------------
(***************************************************************************)
(* The spin lock.                                                          *)
(***************************************************************************)
At(t, p) == pc[t] = p
Goes(t, p) == pc' = [pc EXCEPT ![t] = p]

Call(t) ==
    /\ At(t, "out")
    /\ Goes(t, "try")
    /\ UNCHANGED <<memory, mapped, handVars, lock, local>>

Exchange(t) ==
    /\ At(t, "try")
    /\ lock' = 1
    /\ Goes(t, IF lock = 0 THEN "locked" ELSE "spin")
    /\ UNCHANGED <<memory, mapped, handVars, local>>

Spin(t) ==
    /\ At(t, "spin")
    /\ Goes(t, IF lock = 0 THEN "try" ELSE "spin")
    /\ UNCHANGED <<memory, mapped, handVars, lock, local>>

Unlock(t) ==
    /\ At(t, "unlock")
    /\ lock' = 0
    /\ Goes(t, "out")
    /\ local' = [local EXCEPT ![t] = NoLocal]
    /\ UNCHANGED <<memory, mapped, handVars>>

-----------------------------------------------------------------------------
(***************************************************************************)
(* The calls.                                                              *)
(***************************************************************************)
\* rt_malloc of no bytes gives one.
BeginMalloc(t) ==
    /\ At(t, "locked")
    /\ Cardinality(DOMAIN live) < MaxLive
    /\ \E n \in Requests :
          local' = [local EXCEPT ![t] = [NoLocal EXCEPT !.asked = IF n = 0 THEN 1 ELSE n]]
    /\ Goes(t, "find")
    /\ UNCHANGED <<memory, mapped, handVars, lock>>

BeginFree(t) ==
    /\ At(t, "locked")
    /\ \/ Goes(t, "unlock") /\ UNCHANGED local
       \/ \E p \in DOMAIN live :
             /\ local' = [local EXCEPT ![t] = [NoLocal EXCEPT !.ptr = p]]
             /\ Goes(t, "mark")
    /\ UNCHANGED <<memory, mapped, handVars, lock>>

ResizeForgetsLock(t, p, n) ==
    /\ memory.block[p - Header].size >= Align(n)
    /\ memory' = Split(memory, p - Header, Align(n))
    /\ live' = [live EXCEPT ![p] = n]
    /\ Goes(t, "out")
    /\ UNCHANGED <<held, local>>

\* A block that is large enough stays in place.
Resize(t, p, n) ==
    /\ memory.block[p - Header].size >= Align(n)
    /\ memory' = Split(memory, p - Header, Align(n))
    /\ live' = [live EXCEPT ![p] = n]
    /\ Goes(t, "unlock")
    /\ UNCHANGED <<held, local>>

BeginRealloc(t) ==
    /\ At(t, "locked")
    /\ \E p \in DOMAIN live, n \in Requests \ {0} :
          \/ Resize(t, p, n)
          \/ /\ memory.block[p - Header].size < Align(n)
             /\ local' = [local EXCEPT ![t] = [ptr |-> p, asked |-> n, block |-> Null]]
             /\ Goes(t, "find")
             /\ UNCHANGED <<memory, handVars>>
    /\ UNCHANGED <<mapped, lock>>

Find(t) ==
    /\ At(t, "find")
    /\ LET fits == Fitting(Align(local[t].asked))
       IN  \/ /\ fits = {}
              /\ Goes(t, "grow")
              /\ UNCHANGED local
           \/ \E b \in fits :
                 /\ \A c \in fits : Position(b) <= Position(c)
                 /\ local' = [local EXCEPT ![t] = [local[t] EXCEPT !.block = b]]
                 /\ Goes(t, "take")
    /\ UNCHANGED <<memory, mapped, handVars, lock>>

HandOut(p, n) ==
    /\ live' = [q \in DOMAIN live \cup {p} |-> IF q = p THEN n ELSE live[q]]
    /\ held' = held + 1

\* rt_realloc then copies, and frees what it copied from.
AfterMalloc(t) == Goes(t, IF local[t].ptr = Null THEN "unlock" ELSE "mark")

Take(t) ==
    /\ At(t, "take")
    /\ LET b == local[t].block
       IN  /\ memory' = Split(SetFree(memory, b, FALSE), b, Align(local[t].asked))
           /\ HandOut(b + Header, local[t].asked)
    /\ AfterMalloc(t)
    /\ UNCHANGED <<mapped, lock, local>>

\* 0 for a size that cannot be mapped.
MappingSize(size) ==
    IF size > Limit - 1 - Header \/ AlignPage(Header + size) < size
    THEN 0
    ELSE AlignPage(Header + size)

\* mmap: pages that nobody has.
Mappable(base, length) ==
    /\ length > 0 /\ base + length <= Top
    /\ \A m \in mapped : base + length <= m[1] \/ m[1] + m[2] <= base

Grow(t) ==
    /\ At(t, "grow")
    /\ LET size == Align(local[t].asked)
           length == MappingSize(size)
       IN  \E base \in Bases :
              /\ Mappable(base, length)
              /\ mapped' = mapped \cup {<<base, length>>}
              /\ memory' = Split(Appended(memory, base, length - Header), base, size)
              /\ HandOut(base + Header, local[t].asked)
    /\ AfterMalloc(t)
    /\ UNCHANGED <<lock, local>>

\* The size is too large, or the kernel has no pages: Null, and the block
\* that was to be resized stays.
GrowFails(t) ==
    /\ At(t, "grow")
    /\ Goes(t, "unlock")
    /\ UNCHANGED <<memory, mapped, handVars, lock, local>>

Mark(t) ==
    /\ At(t, "mark")
    /\ memory' = SetFree(memory, local[t].ptr - Header, TRUE)
    /\ live' = [q \in DOMAIN live \ {local[t].ptr} |-> live[q]]
    /\ held' = held - 1
    /\ local' = [local EXCEPT ![t] = [local[t] EXCEPT !.block = memory.head]]
    /\ Goes(t, "merge")
    /\ UNCHANGED <<mapped, lock>>

MergePassesOn(t) ==
    /\ At(t, "merge")
    /\ LET b == local[t].block
           c == memory.block[b].next
       IN  \/ /\ c = Null
              /\ Goes(t, "unlock")
              /\ UNCHANGED <<memory, local>>
           \/ /\ c # Null
              /\ memory' = IF Mergeable(memory, b) THEN Merged(memory, b) ELSE memory
              /\ local' = [local EXCEPT ![t] =
                              [local[t] EXCEPT !.block = IF memory'.block[b].next = Null THEN b ELSE memory'.block[b].next]]
              /\ UNCHANGED pc
    /\ UNCHANGED <<mapped, handVars, lock>>

\* One round of the loop of rt_alloc_coalesce.
Merge(t) ==
    /\ At(t, "merge")
    /\ LET b == local[t].block
           c == memory.block[b].next
       IN  \/ /\ c = Null
              /\ Goes(t, "unlock")
              /\ UNCHANGED <<memory, local>>
           \/ /\ c # Null /\ Mergeable(memory, b)
              /\ memory' = Merged(memory, b)
              /\ UNCHANGED <<pc, local>>
           \/ /\ c # Null /\ ~ Mergeable(memory, b)
              /\ local' = [local EXCEPT ![t] = [local[t] EXCEPT !.block = c]]
              /\ UNCHANGED <<memory, pc>>
    /\ UNCHANGED <<mapped, handVars, lock>>

Work(t) ==
    \/ BeginMalloc(t) \/ BeginFree(t) \/ BeginRealloc(t)
    \/ Find(t) \/ Take(t) \/ Grow(t) \/ GrowFails(t) \/ Mark(t) \/ Merge(t) \/ Unlock(t)

Next == \E t \in Threads : Call(t) \/ Exchange(t) \/ Spin(t) \/ Work(t)

Spec == Init /\ [][Next]_vars

\* The thread that has the lock keeps running.
FairSpec == Spec /\ \A t \in Threads : WF_vars(Work(t))

-----------------------------------------------------------------------------
TypeOK ==
    /\ \A b \in Blocks :
          memory.block[b] \in [size : Nat, free : BOOLEAN, next : Blocks \cup {Null}]
    /\ {memory.head, memory.tail} \subseteq Blocks \cup {Null}
    /\ \A m \in mapped : m[1] \in Bases /\ m[2] \in Nat /\ m[1] + m[2] <= Top
    /\ \A p \in DOMAIN live : live[p] \in 1..(Limit - Alignment)
    /\ held \in Int
    /\ lock \in {0, 1}
    /\ pc \in [Threads -> Places]
    /\ \A t \in Threads : /\ local[t].ptr \in DOMAIN live \cup {Null} \/ pc[t] \in {"merge", "unlock"}
                          /\ local[t].asked \in 0..(Limit - Alignment)
                          /\ pc[t] = "merge" => local[t].block \in Blocks

\* What callers rely on, see AbstractHeap.
Heap == INSTANCE AbstractHeap WITH live <- live, held <- held

(***************************************************************************)
(* The allocator implements the abstract heap: no two pointers that are    *)
(* handed out share a byte, in whatever order threads allocate, resize and *)
(* free; in particular the copy of rt_realloc never overlaps its source.   *)
(***************************************************************************)
ImplementsHeap == Heap!Spec

\* No two blocks overlap, headers included.
BlocksApart ==
    \A b, c \in Blocks :
        b # c => Heap!Apart(b, Header + memory.block[b].size, c, Header + memory.block[c].size)

\* A block is in use exactly when its pointer is handed out, and then it has
\* the bytes that were asked for.
LiveBacked ==
    /\ {b \in Blocks : ~ memory.block[b].free} = {p - Header : p \in DOMAIN live}
    /\ \A p \in DOMAIN live : live[p] <= memory.block[p - Header].size

(***************************************************************************)
(* The list has every block once and ends at the tail: a tail that is left *)
(* behind by a split or a merge would cut off all that is behind it.       *)
(***************************************************************************)
ListWhole ==
    /\ \A b \in Blocks : Listed(b)
    /\ Blocks # {} => IsNth(Cardinality(Blocks) - 1, memory.tail)
    /\ IsNth(Cardinality(Blocks), Null)

\* Headers and blocks are all that is mapped: no byte is lost.
NothingLost ==
    LET extent(b) == Header + memory.block[b].size
        length(m) == m[2]
    IN  MapThenSumSet(extent, Blocks) = MapThenSumSet(length, mapped)

(***************************************************************************)
(* The heap stays sound through every order of splits, merges and new      *)
(* mappings: blocks apart, those in use as large as asked for, the list    *)
(* complete to its cached tail, and no byte lost between them.             *)
(***************************************************************************)
HeapSound == TypeOK /\ BlocksApart /\ LiveBacked /\ ListWhole /\ NothingLost

(***************************************************************************)
(* When everything has been given back, also by calls that shrank blocks   *)
(* in place, no mapping is left in pieces.                                 *)
(***************************************************************************)
AllFreeAllWhole ==
    live = Heap!Nothing /\ (\A t \in Threads : pc[t] \notin Inside)
        => Cardinality(Blocks) <= Cardinality(mapped)

\* Every call gives the lock back: no way out of it forgets the lock, and
\* merging comes to an end.
LockReturns == []<>(lock = 0)
=============================================================================
