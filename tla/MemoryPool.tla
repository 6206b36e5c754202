----------------------------- MODULE MemoryPool -----------------------------
(***************************************************************************)
(* common/memoryPool.hpp: MemoryPool keeps the blocks that are not in use, *)
(* filed under a size; PooledBuffer owns one block and gives it back.      *)
(*                                                                         *)
(* A block goes back under the size it was last asked for, which may be    *)
(* less than it has room for.  Every operation on the pool holds its mutex *)
(* from beginning to end and is one step.                                  *)
(***************************************************************************)
EXTENDS Naturals, Sequences, FiniteSets, FiniteSetsExt

CONSTANTS
    Buffers,     \* the PooledBuffer objects: on stacks, in frames, in queues
    Sizes,       \* the sizes asked for
    BlockBound,  \* bound: blocks taken from malloc
    None         \* nullptr

ASSUME PoolConstants ==
    /\ IsFiniteSet(Buffers)
    /\ IsFiniteSet(Sizes) /\ Sizes \subseteq Nat
    /\ BlockBound \in Nat
    /\ None \notin Nat

Blocks == 1..BlockBound

VARIABLES
    freeBlocks_,  \* size -> blocks, the oldest of a size first (a multimap)
    room,         \* block -> what malloc was asked for; 0 if not allocated
    buffer,       \* PooledBuffer -> data and size
    alive         \* the pool is not destroyed

vars == <<freeBlocks_, room, buffer, alive>>

Empty == [data |-> None, size |-> 0]

Init ==
    /\ freeBlocks_ = [s \in Sizes |-> <<>>]
    /\ room = [b \in Blocks |-> 0]
    /\ buffer = [p \in Buffers |-> Empty]
    /\ alive = TRUE

----

\* A block for buffer p: the first of the smallest size in fits that the pool
\* has, or a new one.
Take(p, n, fits) ==
    LET free == {s \in fits : freeBlocks_[s] # <<>>}
        Own(b) == buffer' = [buffer EXCEPT ![p] = [data |-> b, size |-> n]]
    IN IF free # {}
         THEN /\ Own(Head(freeBlocks_[Min(free)]))
              /\ freeBlocks_' = [freeBlocks_ EXCEPT ![Min(free)] = Tail(@)]
              /\ UNCHANGED room
         ELSE \E b \in Blocks :
                /\ room[b] = 0 /\ \A c \in 1..(b - 1) : room[c] # 0
                /\ room' = [room EXCEPT ![b] = n]
                /\ Own(b)
                /\ UNCHANGED freeBlocks_

\* Bug: any free block will do.
AllocateAnyBug(p, n) == Take(p, n, Sizes)

\* allocate, of a size that is not 0.
AllocateBlock(p, n) == Take(p, n, {s \in Sizes : s >= n})

\* The callers of allocate put the block into a new PooledBuffer at once.
Allocate(p, n) ==
    /\ alive
    /\ buffer[p] = Empty
    /\ IF n = 0 THEN UNCHANGED <<buffer, freeBlocks_, room>>
                ELSE AllocateBlock(p, n)
    /\ UNCHANGED alive

\* Bug: the block is filed twice.
DeallocateTwiceBug(v) ==
    freeBlocks_' = IF v.data = None THEN freeBlocks_
                   ELSE [freeBlocks_ EXCEPT ![v.size] = @ \o <<v.data, v.data>>]

\* deallocate, by release(): the block is filed under the buffer's size.
Deallocate(v) ==
    freeBlocks_' = IF v.data = None THEN freeBlocks_
                   ELSE [freeBlocks_ EXCEPT ![v.size] = Append(@, v.data)]

\* ~PooledBuffer.
Destroy(p) ==
    /\ alive
    /\ buffer[p] # Empty
    /\ Deallocate(buffer[p])
    /\ buffer' = [buffer EXCEPT ![p] = Empty]
    /\ UNCHANGED <<room, alive>>

\* Move construction: q is new.
MoveConstruct(p, q) ==
    /\ buffer[p] # Empty
    /\ buffer[q] = Empty
    /\ buffer' = [buffer EXCEPT ![q] = buffer[p], ![p] = Empty]
    /\ UNCHANGED <<freeBlocks_, room, alive>>

\* Move assignment to another object: its block is released first.
MoveAssign(p, q) ==
    /\ alive
    /\ p # q
    /\ Deallocate(buffer[q])
    /\ buffer' = [buffer EXCEPT ![q] = buffer[p], ![p] = Empty]
    /\ UNCHANGED <<room, alive>>

\* ~MemoryPool: the free blocks are freed.  Its owners destroy it when no
\* buffer is out (BuffersReturned in StreamServer).
DestroyPool ==
    /\ alive
    /\ \A p \in Buffers : buffer[p] = Empty
    /\ alive' = FALSE
    /\ room' = [b \in Blocks |->
                  IF \E s \in Sizes : \E i \in DOMAIN freeBlocks_[s] : freeBlocks_[s][i] = b
                  THEN 0 ELSE room[b]]
    /\ freeBlocks_' = [s \in Sizes |-> <<>>]
    /\ UNCHANGED buffer

Destroyed == ~alive /\ UNCHANGED vars

Next ==
    \/ \E p \in Buffers, n \in Sizes : Allocate(p, n)
    \/ \E p \in Buffers : Destroy(p)
    \/ \E p, q \in Buffers : MoveConstruct(p, q) \/ MoveAssign(p, q)
    \/ DestroyPool
    \/ Destroyed

Spec == Init /\ [][Next]_vars

----
(* Properties.                                                             *)

\* Every variable has its type, and a buffer without a block has no size.
TypeOK ==
    /\ freeBlocks_ \in [Sizes -> Seq(Blocks)]
    /\ room \in [Blocks -> Sizes \union {0}]
    /\ buffer \in [Buffers -> [data : Blocks \union {None}, size : Sizes \union {0}]]
    /\ \A p \in Buffers : buffer[p].data = None <=> buffer[p].size = 0
    /\ alive \in BOOLEAN

\* Where block b is filed, and which buffers own it.
Entry(s, i, b) == i \in DOMAIN freeBlocks_[s] /\ freeBlocks_[s][i] = b
Filed(b)  == {e \in Sizes \X (1..BlockBound) : Entry(e[1], e[2], b)}
Owners(b) == {p \in Buffers : buffer[p].data = b}

\* A block has one place: one buffer or one entry of the pool.  It is neither
\* shared, nor lost, nor returned twice, by any sequence of moves (lines
\* 30-54, 68-100).
OnePlace ==
    \A b \in Blocks :
      Cardinality(Filed(b)) + Cardinality(Owners(b)) = IF room[b] # 0 THEN 1 ELSE 0

\* A buffer's block has room for its size, however often the block was reused
\* for smaller sizes in between (lines 36-41 against 53).
RoomEnough ==
    /\ \A p \in Buffers : buffer[p] # Empty => buffer[p].size <= room[buffer[p].data]
    /\ \A s \in Sizes : \A i \in DOMAIN freeBlocks_[s] : s <= room[freeBlocks_[s][i]]

\* Reuse bounds the memory: of each size the pool and the buffers together
\* have at most as many blocks as there are buffers, so malloc is called at
\* most |Buffers| * |Sizes| times in the life of the pool.
InUse(s) == {p \in Buffers : buffer[p] # Empty /\ buffer[p].size = s}
FootprintBound ==
    \A s \in Sizes : Len(freeBlocks_[s]) + Cardinality(InUse(s)) <= Cardinality(Buffers)

\* Destroying the pool frees every block.
NothingLeaked == ~alive => \A b \in Blocks : room[b] = 0

\* What holds of the pool beside OnePlace: blocks are large enough, few, and
\* freed in the end.
PoolInv == TypeOK /\ RoomEnough /\ FootprintBound /\ NothingLeaked

=============================================================================
