------------------------- MODULE MemoryPool_proofs -------------------------
(***************************************************************************)
(* Theorems about MemoryPool, for any finite numbers of buffers, sizes and *)
(* blocks: a block is in one place, is large enough for its owner, and is  *)
(* freed with the pool, which never has more blocks than the buffers use.  *)
(***************************************************************************)
EXTENDS MemoryPool, FiniteSetTheorems, SequenceTheorems, TLAPS

\* What lower_bound finds: the smallest of a set of sizes.
LEMMA SmallestSize ==
    ASSUME NEW S, S \subseteq Nat, S # {}
    PROVE  Min(S) \in S /\ \A n \in S : Min(S) <= n
  <1> DEFINE below == {0..n : n \in S}
  <1>1. below # {} /\ below \subseteq FiniteSubsetsOf(Nat)
    <2> SUFFICES ASSUME NEW n \in S PROVE 0..n \in FiniteSubsetsOf(Nat)
      BY DEF FiniteSubsetsOf
    <2> QED
      BY FS_Interval DEF FiniteSubsetsOf
  <1>2. PICK X \in below : \A Y \in below : ~(<<Y, X>> \in StrictSubsetOrdering(Nat))
    <2>1. IsWellFoundedOn(StrictSubsetOrdering(Nat), FiniteSubsetsOf(Nat))
      BY FS_StrictSubsetOrderingWellFounded
    <2> HIDE DEF below
    <2> QED
      BY <1>1, <2>1, WFMin
  <1>3. PICK m \in S : X = 0..m
    BY <1>2
  <1>4. \A n \in S : m <= n
    <2> SUFFICES ASSUME NEW n \in S, ~(m <= n) PROVE FALSE
      OBVIOUS
    <2>1. n \in Nat /\ m \in Nat /\ n < m
      OBVIOUS
    <2>2. 0..n \subseteq 0..m /\ 0..n # 0..m
      <3>1. m \in 0..m /\ m \notin 0..n
        BY <2>1
      <3> QED
        BY <2>1, <3>1
    <2>3. 0..n \in SUBSET Nat /\ 0..m \in SUBSET Nat
      BY <2>1
    <2>4. <<0..n, 0..m>> \in StrictSubsetOrdering(Nat)
      BY <2>2, <2>3 DEF StrictSubsetOrdering
    <2>5. 0..n \in below
      OBVIOUS
    <2> HIDE DEF below
    <2> QED
      BY <2>4, <2>5, <1>2, <1>3
  <1> QED
    BY <1>4 DEF Min

\* What emplace and erase do to the blocks of a size.
LEMMA FiledLast ==
    ASSUME NEW q \in Seq(Blocks), NEW x \in Blocks
    PROVE  /\ Append(q, x) \in Seq(Blocks)
           /\ Len(q) \in Nat /\ Len(Append(q, x)) = Len(q) + 1
           /\ \A i \in Nat, b \in Blocks :
                (i \in DOMAIN Append(q, x) /\ Append(q, x)[i] = b)
                  <=> \/ i \in DOMAIN q /\ q[i] = b
                      \/ i = Len(q) + 1 /\ x = b
  <1> DEFINE r == Append(q, x)
  <1>1. /\ r \in Seq(Blocks) /\ Len(r) = Len(q) + 1
        /\ \A i \in 1..Len(q) : r[i] = q[i]
        /\ r[Len(q) + 1] = x
    BY AppendProperties
  <1>2. Len(q) \in Nat /\ DOMAIN q = 1..Len(q) /\ DOMAIN r = 1..(Len(q) + 1)
    BY <1>1, LenProperties
  <1> HIDE DEF r
  <1>3. \A i : i \in DOMAIN r <=> i \in DOMAIN q \/ i = Len(q) + 1
    BY <1>2
  <1>4. Len(q) + 1 \notin DOMAIN q
    BY <1>2
  <1> QED
    BY <1>1, <1>2, <1>3, <1>4 DEF r

LEMMA TakenFirst ==
    ASSUME NEW q \in Seq(Blocks), q # <<>>
    PROVE  /\ Head(q) \in Blocks /\ Tail(q) \in Seq(Blocks)
           /\ Len(q) \in Nat \ {0} /\ Len(Tail(q)) = Len(q) - 1
           /\ 1 \in DOMAIN q /\ q[1] = Head(q)
           /\ \A i \in Nat, b \in Blocks :
                (i \in DOMAIN Tail(q) /\ Tail(q)[i] = b)
                  <=> i # 0 /\ i + 1 \in DOMAIN q /\ q[i + 1] = b
  <1>1. /\ Head(q) \in Blocks /\ Tail(q) \in Seq(Blocks)
        /\ Len(Tail(q)) = Len(q) - 1
        /\ Head(q) = q[1]
        /\ \A i \in 1..Len(Tail(q)) : Tail(q)[i] = q[i + 1]
    BY HeadTailProperties
  <1>2. Len(q) \in Nat \ {0} /\ DOMAIN q = 1..Len(q)
    BY EmptySeq, LenProperties
  <1>3. DOMAIN Tail(q) = 1..(Len(q) - 1)
    BY <1>1, LenProperties
  <1>4. \A i \in Nat : i \in DOMAIN Tail(q) <=> i # 0 /\ i + 1 \in DOMAIN q
    BY <1>2, <1>3
  <1>5. \A i \in DOMAIN Tail(q) : Tail(q)[i] = q[i + 1]
    BY <1>1, <1>2, <1>3
  <1> QED
    BY <1>1, <1>2, <1>4, <1>5

----
(* Types.                                                                  *)

BufferType == [data : Blocks \union {None}, size : Sizes \union {0}]

LEMMA SizesAndBlocks ==
    /\ Blocks \subseteq Nat \ {0} /\ None \notin Blocks /\ None \notin Nat
    /\ Sizes \subseteq Nat /\ IsFiniteSet(Sizes) /\ IsFiniteSet(Buffers)
  BY PoolConstants DEF Blocks

LEMMA BufferFields ==
    /\ \A v \in BufferType : /\ v.data \in Blocks \union {None}
                             /\ v.size \in Sizes \union {0} /\ v.size \in Nat
                             /\ v.data = None /\ v.size = 0 => v = Empty
    /\ \A b \in Blocks, n \in Sizes :
         LET v == [data |-> b, size |-> n]
         IN v \in BufferType /\ v.data = b /\ v.size = n
    /\ Empty \in BufferType /\ Empty.data = None /\ Empty.size = 0
  <1>1. \A v \in BufferType : /\ v.data \in Blocks \union {None}
                              /\ v.size \in Sizes \union {0} /\ v.size \in Nat
    <2>1. \A v \in BufferType : v.data \in Blocks \union {None} /\ v.size \in Sizes \union {0}
      BY DEF BufferType
    <2>2. Sizes \union {0} \subseteq Nat
      BY SizesAndBlocks
    <2> QED
      BY <2>1, <2>2
  <1>2. \A v \in BufferType : v.data = None /\ v.size = 0 => v = Empty
    <2>1. \A v \in BufferType : v = [data |-> v.data, size |-> v.size]
      BY DEF BufferType
    <2> QED
      BY <2>1 DEF Empty
  <1>3. \A b \in Blocks, n \in Sizes :
          LET v == [data |-> b, size |-> n]
          IN v \in BufferType /\ v.data = b /\ v.size = n
    BY DEF BufferType
  <1>4. Empty.data = None /\ Empty.size = 0
    BY DEF Empty
  <1>5. Empty \in BufferType
    BY DEF BufferType, Empty
  <1> QED
    BY <1>1, <1>2, <1>3, <1>4, <1>5, Zenon

\* The block of a buffer, as Entry is that of the pool; how many of a size.
Owns(p, b) == buffer[p].data = b
Stock(s)   == Len(freeBlocks_[s])

LEMMA BufferStates ==
    TypeOK => \A p \in Buffers :
                /\ buffer[p] \in BufferType
                /\ buffer[p] = Empty <=> buffer[p].data = None
                /\ buffer[p] # Empty <=> buffer[p].data \in Blocks
                /\ buffer[p] # Empty => buffer[p].size \in Sizes \ {0}
  <1> SUFFICES ASSUME TypeOK, NEW p \in Buffers
               PROVE  /\ buffer[p] \in BufferType
                      /\ buffer[p] = Empty <=> buffer[p].data = None
                      /\ buffer[p] # Empty <=> buffer[p].data \in Blocks
                      /\ buffer[p] # Empty => buffer[p].size \in Sizes \ {0}
    OBVIOUS
  <1>1. buffer[p] \in BufferType /\ (buffer[p].data = None <=> buffer[p].size = 0)
    BY DEF TypeOK, BufferType
  <1> QED
    BY <1>1, BufferFields, SizesAndBlocks

LEMMA PoolStates ==
    TypeOK => \A s \in Sizes :
                /\ freeBlocks_[s] \in Seq(Blocks) /\ Stock(s) \in Nat
                /\ freeBlocks_[s] = <<>> <=> Stock(s) = 0
                /\ \A i \in Nat, b \in Blocks : Entry(s, i, b) => i \in 1..Stock(s) /\ b \in Blocks
  <1> SUFFICES ASSUME TypeOK, NEW s \in Sizes
               PROVE  /\ freeBlocks_[s] \in Seq(Blocks) /\ Stock(s) \in Nat
                      /\ freeBlocks_[s] = <<>> <=> Stock(s) = 0
                      /\ \A i \in Nat, b \in Blocks :
                           Entry(s, i, b) => i \in 1..Stock(s) /\ b \in Blocks
    OBVIOUS
  <1>1. freeBlocks_[s] \in Seq(Blocks)
    BY DEF TypeOK
  <1>2. Stock(s) \in Nat /\ (freeBlocks_[s] = <<>> <=> Stock(s) = 0)
    BY <1>1, EmptySeq, LenProperties DEF Stock
  <1>3. freeBlocks_[s] \in [1..Stock(s) -> Blocks]
    BY <1>1, LenProperties DEF Stock
  <1> QED
    BY <1>1, <1>2, <1>3 DEF Entry

LEMMA InitialTypes == Init => TypeOK
  <1> SUFFICES ASSUME Init PROVE TypeOK
    OBVIOUS
  <1>1. freeBlocks_ \in [Sizes -> Seq(Blocks)]
    BY EmptySeq DEF Init
  <1>2. room \in [Blocks -> Sizes \union {0}]
    BY DEF Init
  <1>3. buffer \in [Buffers -> BufferType]
    BY BufferFields DEF Init
  <1>4. \A p \in Buffers : buffer[p].data = None <=> buffer[p].size = 0
    BY BufferFields DEF Init
  <1> QED
    BY <1>1, <1>2, <1>3, <1>4 DEF Init, TypeOK, BufferType

----
(* What the operations do, entry by entry and buffer by buffer.            *)

\* emplace, in deallocate.
LEMMA Filing ==
    ASSUME TypeOK, NEW v \in BufferType, v.data \in Blocks, v.size \in Sizes, Deallocate(v)
    PROVE  /\ freeBlocks_' \in [Sizes -> Seq(Blocks)]
           /\ Stock(v.size)' = Stock(v.size) + 1
           /\ \A s \in Sizes \ {v.size} : Stock(s)' = Stock(s)
           /\ \A s \in Sizes, i \in Nat, b \in Blocks :
                Entry(s, i, b)'
               <=> Entry(s, i, b) \/ (s = v.size /\ i = Stock(s) + 1 /\ b = v.data)
  <1>1. PICK z \in Sizes, x \in Blocks : z = v.size /\ x = v.data
    OBVIOUS
  <1>2. /\ freeBlocks_ \in [Sizes -> Seq(Blocks)]
        /\ freeBlocks_' = [freeBlocks_ EXCEPT ![z] = Append(@, x)]
    BY <1>1, SizesAndBlocks DEF Deallocate, TypeOK
  <1>3. PICK q \in Seq(Blocks) : q = freeBlocks_[z]
    BY <1>2
  <1>4. PICK r : r = Append(q, x)
    OBVIOUS
  <1>5. /\ r \in Seq(Blocks) /\ Len(r) = Len(q) + 1
        /\ \A i \in Nat, b \in Blocks :
             (i \in DOMAIN r /\ r[i] = b)
               <=> (i \in DOMAIN q /\ q[i] = b) \/ (i = Len(q) + 1 /\ x = b)
    BY <1>4, FiledLast
  <1>6. /\ freeBlocks_'[z] = r
        /\ \A s \in Sizes \ {z} : freeBlocks_'[s] = freeBlocks_[s]
        /\ freeBlocks_' \in [Sizes -> Seq(Blocks)]
    BY <1>2, <1>3, <1>4, <1>5
  <1>7. Stock(z) = Len(q) /\ Stock(z)' = Len(r) /\ \A s \in Sizes \ {z} : Stock(s)' = Stock(s)
    BY <1>3, <1>6 DEF Stock
  <1>8. \A i \in Nat, b \in Blocks : Entry(z, i, b) <=> i \in DOMAIN q /\ q[i] = b
    BY <1>3 DEF Entry
  <1>9. \A i \in Nat, b \in Blocks : Entry(z, i, b)' <=> i \in DOMAIN r /\ r[i] = b
    BY <1>6 DEF Entry
  <1>10. \A s \in Sizes \ {z}, i \in Nat, b \in Blocks : Entry(s, i, b)' <=> Entry(s, i, b)
    BY <1>6 DEF Entry
  <1>11. \A i \in Nat, b \in Blocks :
           Entry(z, i, b)' <=> Entry(z, i, b) \/ (i = Stock(z) + 1 /\ b = x)
    <2> SUFFICES ASSUME NEW i \in Nat, NEW b \in Blocks
                 PROVE  Entry(z, i, b)' <=> Entry(z, i, b) \/ (i = Stock(z) + 1 /\ b = x)
      OBVIOUS
    <2>1. i = Stock(z) + 1 <=> i = Len(q) + 1
      BY <1>7
    <2> QED
      BY <2>1, <1>5, <1>8, <1>9
  <1>12. Stock(z)' = Stock(z) + 1
    BY <1>5, <1>7
  <1>13. Stock(v.size)' = Stock(v.size) + 1
    BY <1>1, <1>12 DEF Stock
  <1>14. \A s \in Sizes \ {v.size} : Stock(s)' = Stock(s)
    BY <1>1, <1>7
  <1>15. \A s \in Sizes, i \in Nat, b \in Blocks : Entry(s, i, b)'
               <=> Entry(s, i, b) \/ (s = v.size /\ i = Stock(s) + 1 /\ b = v.data)
    BY <1>1, <1>10, <1>11
  <1> QED
    BY <1>6, <1>13, <1>14, <1>15

\* A buffer without a block leaves the pool alone.
LEMMA NothingFiled ==
    ASSUME NEW v, v.data = None, Deallocate(v)
    PROVE  freeBlocks_' = freeBlocks_
  BY DEF Deallocate

\* lower_bound and erase, in allocate.
LEMMA Reusing ==
    ASSUME TypeOK, NEW p \in Buffers, NEW n \in Sizes, n # 0, AllocateBlock(p, n),
           NEW t \in Sizes, t >= n, freeBlocks_[t] # <<>>
    PROVE  \E m \in Sizes, x \in Blocks :
             /\ m >= n /\ Entry(m, 1, x) /\ room' = room
             /\ \A s \in Sizes : s >= n /\ s < m => Stock(s) = 0
             /\ buffer' = [buffer EXCEPT ![p] = [data |-> x, size |-> n]]
             /\ freeBlocks_' \in [Sizes -> Seq(Blocks)]
             /\ Stock(m) # 0 /\ Stock(m)' = Stock(m) - 1
             /\ \A s \in Sizes \ {m} : Stock(s)' = Stock(s)
             /\ \A i \in Nat, b \in Blocks : Entry(m, i, b)' <=> i # 0 /\ Entry(m, i + 1, b)
             /\ \A s \in Sizes \ {m}, i \in Nat, b \in Blocks : Entry(s, i, b)' <=> Entry(s, i, b)
  <1> DEFINE free == {s \in {r \in Sizes : r >= n} : freeBlocks_[s] # <<>>}
  <1>1. free # {} /\ free \subseteq Nat
    BY SizesAndBlocks
  <1>2. PICK m \in free : m = Min(free) /\ \A s \in free : m <= s
    <2> HIDE DEF free
    <2> QED
      BY <1>1, SmallestSize
  <1>3. PICK q \in Seq(Blocks) : q = freeBlocks_[m] /\ q # <<>>
    BY <1>2 DEF TypeOK
  <1>4. PICK x, r : x = Head(q) /\ r = Tail(q)
    OBVIOUS
  <1>5. /\ buffer' = [buffer EXCEPT ![p] = [data |-> x, size |-> n]]
        /\ freeBlocks_' = [freeBlocks_ EXCEPT ![m] = r]
        /\ room' = room
    BY <1>1, <1>2, <1>3, <1>4 DEF AllocateBlock, Take
  <1>6. \A s \in Sizes : s >= n /\ s < m => Stock(s) = 0
    <2> SUFFICES ASSUME NEW s \in Sizes, s >= n, s < m, freeBlocks_[s] # <<>> PROVE FALSE
      BY PoolStates
    <2>1. s \in free
      OBVIOUS
    <2>2. s \in Nat /\ m \in Nat
      BY SizesAndBlocks
    <2> HIDE DEF free
    <2>3. m <= s
      BY <1>2, <2>1
    <2> QED
      BY <2>2, <2>3
  <1>7. m \in Sizes /\ m >= n
    OBVIOUS
  <1> HIDE DEF free
  <1>8. /\ x \in Blocks /\ r \in Seq(Blocks) /\ 1 \in DOMAIN q /\ q[1] = x
        /\ Len(q) \in Nat \ {0} /\ Len(r) = Len(q) - 1
        /\ \A i \in Nat, b \in Blocks :
             (i \in DOMAIN r /\ r[i] = b)
               <=> i # 0 /\ i + 1 \in DOMAIN q /\ q[i + 1] = b
    BY <1>3, <1>4, TakenFirst
  <1>9. /\ freeBlocks_'[m] = r
        /\ \A s \in Sizes \ {m} : freeBlocks_'[s] = freeBlocks_[s]
        /\ freeBlocks_' \in [Sizes -> Seq(Blocks)]
    BY <1>5, <1>7, <1>8 DEF TypeOK
  <1>10. Stock(m) = Len(q) /\ Stock(m)' = Len(r) /\ \A s \in Sizes \ {m} : Stock(s)' = Stock(s)
    BY <1>3, <1>9 DEF Stock
  <1>11. \A i \in Nat, b \in Blocks : Entry(m, i, b) <=> i \in DOMAIN q /\ q[i] = b
    BY <1>3 DEF Entry
  <1>12. \A i \in Nat, b \in Blocks : Entry(m, i, b)' <=> i \in DOMAIN r /\ r[i] = b
    BY <1>9 DEF Entry
  <1>13. \A s \in Sizes \ {m}, i \in Nat, b \in Blocks : Entry(s, i, b)' <=> Entry(s, i, b)
    BY <1>9 DEF Entry
  <1>14. /\ Entry(m, 1, x)
         /\ \A i \in Nat, b \in Blocks : Entry(m, i, b)' <=> i # 0 /\ Entry(m, i + 1, b)
    BY <1>8, <1>11, <1>12
  <1>15. Stock(m) # 0 /\ Stock(m)' = Stock(m) - 1
    BY <1>8, <1>10
  <1> QED
    BY <1>5, <1>6, <1>7, <1>8, <1>9, <1>10, <1>13, <1>14, <1>15

\* malloc, in allocate.
LEMMA FromMalloc ==
    ASSUME TypeOK, NEW p \in Buffers, NEW n \in Sizes, n # 0, AllocateBlock(p, n),
           \A t \in Sizes : t >= n => freeBlocks_[t] = <<>>
    PROVE  \E x \in Blocks :
             /\ room[x] = 0 /\ room' = [room EXCEPT ![x] = n]
             /\ buffer' = [buffer EXCEPT ![p] = [data |-> x, size |-> n]]
             /\ freeBlocks_' = freeBlocks_
  BY DEF AllocateBlock, Take

\* A PooledBuffer changes hands.
LEMMA Moving ==
    ASSUME TypeOK, NEW p \in Buffers, NEW q \in Buffers, p # q,
           buffer' = [buffer EXCEPT ![q] = buffer[p], ![p] = Empty]
    PROVE  /\ buffer' \in [Buffers -> BufferType]
           /\ buffer'[q] = buffer[p] /\ buffer'[p] = Empty
           /\ \A r \in Buffers \ {p, q} : buffer'[r] = buffer[r]
  BY BufferFields DEF TypeOK, BufferType

\* What every operation keeps of a buffer's type.
LEMMA BuffersTyped ==
    ASSUME TypeOK, buffer' \in [Buffers -> BufferType],
           \A p \in Buffers : \/ buffer'[p] = Empty
                              \/ buffer'[p] \in {buffer[q] : q \in Buffers}
                              \/ \E b \in Blocks, n \in Sizes \ {0} :
                                   buffer'[p] = [data |-> b, size |-> n]
    PROVE  \A p \in Buffers : buffer'[p].data = None <=> buffer'[p].size = 0
  <1> SUFFICES ASSUME NEW p \in Buffers
               PROVE  buffer'[p].data = None <=> buffer'[p].size = 0
    OBVIOUS
  <1>1. CASE buffer'[p] = Empty
    BY <1>1, BufferFields
  <1>2. CASE buffer'[p] \in {buffer[q] : q \in Buffers}
    BY <1>2 DEF TypeOK
  <1>3. ASSUME NEW b \in Blocks, NEW n \in Sizes \ {0}, buffer'[p] = [data |-> b, size |-> n]
        PROVE  buffer'[p].data = None <=> buffer'[p].size = 0
    BY <1>3, BufferFields, SizesAndBlocks
  <1> QED
    BY <1>1, <1>2, <1>3

LEMMA TypesNext == TypeOK /\ [Next]_vars => TypeOK'
  <1> SUFFICES ASSUME TypeOK, [Next]_vars PROVE TypeOK'
    OBVIOUS
  <1>0. /\ freeBlocks_ \in [Sizes -> Seq(Blocks)]
        /\ room \in [Blocks -> Sizes \union {0}]
        /\ buffer \in [Buffers -> BufferType]
        /\ alive \in BOOLEAN
    BY DEF TypeOK, BufferType
  <1> DEFINE Typed == /\ freeBlocks_ \in [Sizes -> Seq(Blocks)]
                      /\ room \in [Blocks -> Sizes \union {0}]
                      /\ buffer \in [Buffers -> BufferType]
                      /\ alive \in BOOLEAN
             Origin == \A p \in Buffers : \/ buffer'[p] = Empty
                                          \/ buffer'[p] \in {buffer[q] : q \in Buffers}
                                          \/ \E b \in Blocks, n \in Sizes \ {0} :
                                               buffer'[p] = [data |-> b, size |-> n]
  <1>1. ASSUME Typed', Origin PROVE TypeOK'
    BY <1>1, BuffersTyped DEF TypeOK, BufferType
  <1>2. ASSUME NEW p \in Buffers, NEW n \in Sizes, Allocate(p, n) PROVE TypeOK'
    <2>1. CASE n = 0
      <3>1. UNCHANGED <<freeBlocks_, room, buffer, alive>>
        BY <1>2, <2>1 DEF Allocate
      <3> QED
        BY <3>1, <1>0, <1>1
    <2>2. CASE n # 0 /\ \E t \in Sizes : t >= n /\ freeBlocks_[t] # <<>>
      <3>1. AllocateBlock(p, n) /\ alive' = alive
        BY <1>2, <2>2 DEF Allocate
      <3>2. PICK x \in Blocks : /\ room' = room
                                /\ buffer' = [buffer EXCEPT ![p] = [data |-> x, size |-> n]]
                                /\ freeBlocks_' \in [Sizes -> Seq(Blocks)]
        BY <3>1, <2>2, Reusing
      <3>3. [data |-> x, size |-> n] \in BufferType
        BY BufferFields
      <3>4. buffer' \in [Buffers -> BufferType] /\ Origin
        BY <3>2, <3>3, <2>2, <1>0
      <3> QED
        BY <3>1, <3>2, <3>4, <1>0, <1>1
    <2>3. CASE n # 0 /\ \A t \in Sizes : t >= n => freeBlocks_[t] = <<>>
      <3>1. AllocateBlock(p, n) /\ alive' = alive
        BY <1>2, <2>3 DEF Allocate
      <3>2. PICK x \in Blocks : /\ room' = [room EXCEPT ![x] = n]
                                /\ buffer' = [buffer EXCEPT ![p] = [data |-> x, size |-> n]]
                                /\ freeBlocks_' = freeBlocks_
        BY <3>1, <2>3, FromMalloc
      <3>3. [data |-> x, size |-> n] \in BufferType
        BY BufferFields
      <3>4. buffer' \in [Buffers -> BufferType] /\ Origin
        BY <3>2, <3>3, <2>3, <1>0
      <3> QED
        BY <3>1, <3>2, <3>4, <1>0, <1>1
    <2> QED
      BY <2>1, <2>2, <2>3
  <1>3. ASSUME NEW p \in Buffers, Deallocate(buffer[p])
        PROVE  freeBlocks_' \in [Sizes -> Seq(Blocks)]
    BY <1>0, <1>3, BufferStates, Filing, NothingFiled
  <1>4. ASSUME NEW p \in Buffers, Destroy(p) PROVE TypeOK'
    <2>1. buffer' \in [Buffers -> BufferType] /\ Origin
      BY <1>0, <1>4, BufferFields DEF Destroy
    <2> QED
      BY <1>0, <1>1, <1>3, <1>4, <2>1 DEF Destroy
  <1>5. ASSUME NEW p \in Buffers, NEW q \in Buffers, MoveConstruct(p, q) PROVE TypeOK'
    <2>1. p # q /\ UNCHANGED <<freeBlocks_, room, alive>>
      BY <1>5 DEF MoveConstruct
    <2>2. buffer' \in [Buffers -> BufferType] /\ Origin
      BY <1>5, <2>1, Moving DEF MoveConstruct
    <2> QED
      BY <1>0, <1>1, <2>1, <2>2
  <1>6. ASSUME NEW p \in Buffers, NEW q \in Buffers, MoveAssign(p, q) PROVE TypeOK'
    <2>1. buffer' \in [Buffers -> BufferType] /\ Origin
      BY <1>6, Moving DEF MoveAssign
    <2> QED
      BY <1>0, <1>1, <1>3, <1>6, <2>1 DEF MoveAssign
  <1>7. CASE DestroyPool
    <2>1. freeBlocks_' \in [Sizes -> Seq(Blocks)]
      BY <1>7, EmptySeq DEF DestroyPool
    <2>2. room' \in [Blocks -> Sizes \union {0}]
      BY <1>0, <1>7 DEF DestroyPool
    <2> QED
      BY <1>0, <1>1, <1>7, <2>1, <2>2 DEF DestroyPool
  <1>8. CASE UNCHANGED vars
    BY <1>0, <1>1, <1>8 DEF vars
  <1> QED
    BY <1>2, <1>4, <1>5, <1>6, <1>7, <1>8 DEF Next, Destroyed

LEMMA AlwaysTyped == Spec => []TypeOK
  BY InitialTypes, TypesNext, PTL DEF Spec

----
(* Where the blocks are.                                                   *)

\* No block has two places.
Apart ==
    /\ \A s, t \in Sizes, i, j \in Nat, b \in Blocks :
         Entry(s, i, b) /\ Entry(t, j, b) => s = t /\ i = j
    /\ \A p, q \in Buffers, b \in Blocks : Owns(p, b) /\ Owns(q, b) => p = q
    /\ \A s \in Sizes, i \in Nat, p \in Buffers, b \in Blocks : ~(Entry(s, i, b) /\ Owns(p, b))

\* The blocks that have a place are those that malloc gave out.
Placed(b)    == \/ \E s \in Sizes, i \in Nat : Entry(s, i, b)
                \/ \E p \in Buffers : Owns(p, b)
Accounted    == \A b \in Blocks : room[b] # 0 <=> Placed(b)

\* RoomEnough, place by place.
LargeEnough ==
    /\ \A s \in Sizes, i \in Nat, b \in Blocks : Entry(s, i, b) => s <= room[b]
    /\ \A p \in Buffers, b \in Blocks : Owns(p, b) => buffer[p].size <= room[b]

Places == Apart /\ Accounted /\ LargeEnough

LEMMA PlacesInit == Init => Places
  <1> SUFFICES ASSUME Init PROVE Places
    OBVIOUS
  <1>1. \A s \in Sizes : \A i, b : ~Entry(s, i, b)
    BY EmptySeq DEF Init, Entry
  <1>2. \A p \in Buffers, b \in Blocks : ~Owns(p, b)
    BY BufferFields, SizesAndBlocks DEF Init, Owns
  <1>3. \A b \in Blocks : room[b] = 0
    BY DEF Init
  <1> QED
    BY <1>1, <1>2, <1>3 DEF Places, Apart, Accounted, Placed, LargeEnough

\* A buffer's block comes off the free list of size m.
LEMMA PlacesReuse ==
    ASSUME TypeOK, TypeOK', Places, NEW p \in Buffers, NEW n \in Sizes, buffer[p] = Empty,
           NEW m \in Sizes, NEW x \in Blocks, m >= n, Entry(m, 1, x), room' = room,
           buffer' = [buffer EXCEPT ![p] = [data |-> x, size |-> n]],
           \A i \in Nat, b \in Blocks : Entry(m, i, b)' <=> i # 0 /\ Entry(m, i + 1, b),
           \A s \in Sizes \ {m}, i \in Nat, b \in Blocks : Entry(s, i, b)' <=> Entry(s, i, b)
    PROVE  Places'
  <1>1. \A b \in Blocks : Owns(p, b)' <=> b = x
    BY BufferFields DEF TypeOK, Owns
  <1>2. \A q \in Buffers \ {p} : /\ buffer'[q] = buffer[q]
                                 /\ \A b \in Blocks : Owns(q, b)' <=> Owns(q, b)
    BY DEF TypeOK, Owns
  <1>3. buffer'[p].size = n /\ \A b \in Blocks : ~Owns(p, b)
    BY BufferFields, SizesAndBlocks DEF TypeOK, Owns
  <1>4. \A s \in Sizes, i \in Nat : Entry(s, i, x) => s = m /\ i = 1
    BY DEF Places, Apart
  <1>5. \A s \in Sizes, i \in Nat : ~Entry(s, i, x)'
    <2>1. \A i \in Nat : i # 0 => i + 1 \in Nat /\ i + 1 # 1
      OBVIOUS
    <2> QED
      BY <1>4, <2>1
  <1>6. Apart'
    <2>1. ASSUME NEW s \in Sizes, NEW t \in Sizes, NEW i \in Nat, NEW j \in Nat, NEW b \in Blocks,
                 Entry(s, i, b)', Entry(t, j, b)'
          PROVE  s = t /\ i = j
      <3>1. /\ IF s = m THEN Entry(m, i + 1, b) ELSE Entry(s, i, b)
            /\ IF t = m THEN Entry(m, j + 1, b) ELSE Entry(t, j, b)
        BY <2>1
      <3>2. i + 1 \in Nat /\ j + 1 \in Nat
        OBVIOUS
      <3> QED
        BY <3>1, <3>2 DEF Places, Apart
    <2>2. \A q, r \in Buffers, b \in Blocks : Owns(q, b)' /\ Owns(r, b)' => q = r
      BY <1>1, <1>2 DEF Places, Apart
    <2>3. \A s \in Sizes, i \in Nat, q \in Buffers, b \in Blocks : ~(Entry(s, i, b)' /\ Owns(q, b)')
      <3> SUFFICES ASSUME NEW s \in Sizes, NEW i \in Nat, NEW q \in Buffers, NEW b \in Blocks,
                          Entry(s, i, b)', Owns(q, b)'
                   PROVE  FALSE
        OBVIOUS
      <3>1. b # x /\ q # p /\ Owns(q, b)
        BY <1>1, <1>2, <1>5
      <3>2. i + 1 \in Nat /\ IF s = m THEN Entry(m, i + 1, b) ELSE Entry(s, i, b)
        OBVIOUS
      <3> QED
        BY <3>1, <3>2 DEF Places, Apart
    <2> QED
      BY <2>1, <2>2, <2>3 DEF Apart
  <1>7. Accounted'
    <2> SUFFICES ASSUME NEW b \in Blocks PROVE Placed(b)' <=> Placed(b)
      BY DEF Places, Accounted
    <2>1. CASE b = x
      <3>1. Placed(b)' /\ Placed(b)
        BY <1>1, <2>1 DEF Placed
      <3> QED
        BY <3>1
    <2>2. CASE b # x
      <3>1. (\E q \in Buffers : Owns(q, b)') <=> \E q \in Buffers : Owns(q, b)
        BY <1>1, <1>2, <1>3, <2>2
      <3>2. ASSUME NEW s \in Sizes, NEW i \in Nat, Entry(s, i, b)'
            PROVE  \E t \in Sizes, j \in Nat : Entry(t, j, b)
        <4>1. i + 1 \in Nat
          OBVIOUS
        <4> QED
          BY <3>2, <4>1
      <3>3. ASSUME NEW s \in Sizes, NEW i \in Nat, Entry(s, i, b)
            PROVE  \E t \in Sizes, j \in Nat : Entry(t, j, b)'
        <4>1. CASE s = m
          <5>1. i # 1
            BY <2>2, <3>3, <4>1 DEF Entry
          <5>2. i \in 1..Stock(m)
            BY <3>3, <4>1, PoolStates
          <5>3. i - 1 \in Nat /\ i - 1 # 0 /\ (i - 1) + 1 = i
            BY <5>1, <5>2
          <5> QED
            BY <3>3, <4>1, <5>3
        <4> QED
          BY <3>3, <4>1
      <3> QED
        BY <3>1, <3>2, <3>3 DEF Placed
    <2> QED
      BY <2>1, <2>2
  <1>8. LargeEnough'
    <2>1. ASSUME NEW s \in Sizes, NEW i \in Nat, NEW b \in Blocks, Entry(s, i, b)'
          PROVE  s <= room'[b]
      <3>1. i + 1 \in Nat /\ IF s = m THEN Entry(m, i + 1, b) ELSE Entry(s, i, b)
        BY <2>1
      <3> QED
        BY <3>1 DEF Places, LargeEnough
    <2>2. n <= room'[x]
      <3>1. m <= room[x]
        BY DEF Places, LargeEnough
      <3>2. room[x] \in Sizes \union {0}
        BY DEF TypeOK
      <3>a. Sizes \subseteq Nat
        BY SizesAndBlocks
      <3>b. Sizes \union {0} \subseteq Nat
        BY <3>a
      <3>3. m \in Nat /\ n \in Nat /\ room[x] \in Nat
        BY <3>2, <3>a, <3>b, Zenon
      <3> QED
        BY <3>1, <3>3
    <2>3. ASSUME NEW q \in Buffers, NEW b \in Blocks, Owns(q, b)'
          PROVE  buffer'[q].size <= room'[b]
      BY <1>1, <1>2, <1>3, <2>2, <2>3 DEF Places, LargeEnough
    <2> QED
      BY <2>1, <2>3 DEF LargeEnough
  <1> QED
    BY <1>6, <1>7, <1>8 DEF Places

\* A buffer's block comes from malloc.
LEMMA PlacesMalloc ==
    ASSUME TypeOK, Places, NEW p \in Buffers, NEW n \in Sizes, n # 0, buffer[p] = Empty,
           NEW x \in Blocks, room[x] = 0, room' = [room EXCEPT ![x] = n],
           buffer' = [buffer EXCEPT ![p] = [data |-> x, size |-> n]],
           freeBlocks_' = freeBlocks_
    PROVE  Places'
  <1>1. \A b \in Blocks : Owns(p, b)' <=> b = x
    BY BufferFields DEF TypeOK, Owns
  <1>2. \A q \in Buffers \ {p} : /\ buffer'[q] = buffer[q]
                                 /\ \A b \in Blocks : Owns(q, b)' <=> Owns(q, b)
    BY DEF TypeOK, Owns
  <1>3. buffer'[p].size = n /\ \A b \in Blocks : ~Owns(p, b)
    BY BufferFields, SizesAndBlocks DEF TypeOK, Owns
  <1>4. \A s, i, b : Entry(s, i, b)' <=> Entry(s, i, b)
    BY DEF Entry
  <1>5. room'[x] = n /\ \A b \in Blocks \ {x} : room'[b] = room[b]
    BY DEF TypeOK
  <1>6. ~Placed(x)
    BY DEF Places, Accounted
  <1>7. Apart'
    BY <1>1, <1>2, <1>4, <1>6 DEF Places, Apart, Placed
  <1>8. Accounted'
    <2>1. Placed(x)'
      BY <1>1 DEF Placed
    <2>2. \A b \in Blocks \ {x} : Placed(b)' <=> Placed(b)
      BY <1>1, <1>2, <1>3, <1>4 DEF Placed
    <2> QED
      BY <1>5, <2>1, <2>2 DEF Places, Accounted
  <1>9. LargeEnough'
    <2>1. n <= n
      BY SizesAndBlocks
    <2> QED
      BY <1>1, <1>2, <1>3, <1>4, <1>5, <1>6, <2>1 DEF Places, LargeEnough, Placed
  <1> QED
    BY <1>7, <1>8, <1>9 DEF Places

\* Buffers change hands, none of them a block that another keeps.
LEMMA PlacesMove ==
    ASSUME TypeOK, Places, UNCHANGED <<freeBlocks_, room>>,
           \A r \in Buffers, b \in Blocks : Owns(r, b)' =>
             \E t \in Buffers : Owns(t, b) /\ buffer'[r].size = buffer[t].size,
           \A r, t \in Buffers, b \in Blocks : Owns(r, b)' /\ Owns(t, b)' => r = t,
           \A t \in Buffers, b \in Blocks : Owns(t, b) => \E r \in Buffers : Owns(r, b)'
    PROVE  Places'
  <1>1. \A s, i, b : Entry(s, i, b)' <=> Entry(s, i, b)
    BY DEF Entry
  <1>2. Apart'
    BY <1>1 DEF Places, Apart
  <1>3. Accounted'
    BY <1>1 DEF Places, Accounted, Placed
  <1>4. LargeEnough'
    <2>1. ASSUME NEW r \in Buffers, NEW b \in Blocks, Owns(r, b)'
          PROVE  buffer'[r].size <= room'[b]
      <3>1. PICK t \in Buffers : Owns(t, b) /\ buffer'[r].size = buffer[t].size
        BY <2>1
      <3> QED
        BY <3>1 DEF Places, LargeEnough
    <2> QED
      BY <1>1, <2>1 DEF Places, LargeEnough
  <1> QED
    BY <1>2, <1>3, <1>4 DEF Places

\* Buffer q's block x is filed, and the other blocks keep an owner.
LEMMA PlacesRelease ==
    ASSUME TypeOK, Places, NEW q \in Buffers, buffer[q] # Empty, Deallocate(buffer[q]),
           room' = room,
           \A r \in Buffers, b \in Blocks : Owns(r, b)' =>
             \E t \in Buffers \ {q} : Owns(t, b) /\ buffer'[r].size = buffer[t].size,
           \A r, t \in Buffers, b \in Blocks : Owns(r, b)' /\ Owns(t, b)' => r = t,
           \A t \in Buffers \ {q}, b \in Blocks : Owns(t, b) => \E r \in Buffers : Owns(r, b)'
    PROVE  Places'
  <1>1. PICK z \in Sizes, x \in Blocks : z = buffer[q].size /\ x = buffer[q].data
    BY BufferStates
  <1>2. PICK k \in Nat : k = Stock(z) + 1
    BY PoolStates
  <1>3. /\ Owns(q, x) /\ \A b \in Blocks \ {x} : ~Owns(q, b)
        /\ \A t \in Buffers \ {q} : ~Owns(t, x)
    BY <1>1 DEF Places, Apart, Owns
  <1>4. \A s \in Sizes, i \in Nat, b \in Blocks :
          Entry(s, i, b)' <=> Entry(s, i, b) \/ (s = z /\ i = k /\ b = x)
    BY <1>1, <1>2, BufferStates, Filing
  <1>5. \A b \in Blocks : ~Entry(z, k, b)
    BY <1>2, PoolStates
  <1>6. \A s \in Sizes, i \in Nat : ~Entry(s, i, x)
    BY <1>3 DEF Places, Apart
  <1>7. \A r \in Buffers : ~Owns(r, x)'
    BY <1>3
  <1>8. Apart'
    <2>1. \A s, t \in Sizes, i, j \in Nat, b \in Blocks :
            Entry(s, i, b)' /\ Entry(t, j, b)' => s = t /\ i = j
      BY <1>4, <1>6 DEF Places, Apart
    <2>2. \A s \in Sizes, i \in Nat, r \in Buffers, b \in Blocks : ~(Entry(s, i, b)' /\ Owns(r, b)')
      BY <1>4, <1>7 DEF Places, Apart
    <2> QED
      BY <2>1, <2>2 DEF Apart
  <1>9. Accounted'
    <2> SUFFICES ASSUME NEW b \in Blocks PROVE Placed(b)' <=> Placed(b)
      BY DEF Places, Accounted
    <2>1. CASE b = x
      BY <1>3, <1>4, <2>1 DEF Placed
    <2>2. CASE b # x
      <3>1. \A s \in Sizes, i \in Nat : Entry(s, i, b)' <=> Entry(s, i, b)
        BY <1>4, <2>2
      <3>2. (\E r \in Buffers : Owns(r, b)') <=> \E r \in Buffers : Owns(r, b)
        BY <1>3, <2>2
      <3> QED
        BY <3>1, <3>2 DEF Placed
    <2> QED
      BY <2>1, <2>2
  <1>10. LargeEnough'
    <2>1. z <= room[x]
      BY <1>1, <1>3 DEF Places, LargeEnough
    <2>2. ASSUME NEW r \in Buffers, NEW b \in Blocks, Owns(r, b)'
          PROVE  buffer'[r].size <= room'[b]
      <3>1. PICK t \in Buffers : Owns(t, b) /\ buffer'[r].size = buffer[t].size
        BY <2>2
      <3> QED
        BY <3>1 DEF Places, LargeEnough
    <2> QED
      BY <1>4, <2>1, <2>2 DEF Places, LargeEnough
  <1> QED
    BY <1>8, <1>9, <1>10 DEF Places

LEMMA PlacesNext == TypeOK /\ TypeOK' /\ Places /\ [Next]_vars => Places'
  <1> SUFFICES ASSUME TypeOK, TypeOK', Places, [Next]_vars PROVE Places'
    OBVIOUS
  <1>0. buffer \in [Buffers -> BufferType]
    BY DEF TypeOK, BufferType
  <1>1. \A p \in Buffers, b \in Blocks : Owns(p, b) => buffer[p] # Empty
    BY BufferStates DEF Owns
  <1>2. ASSUME UNCHANGED <<freeBlocks_, room, buffer>> PROVE Places'
    <2>1. \A p \in Buffers, b \in Blocks : Owns(p, b)' <=> Owns(p, b)
      BY <1>2 DEF Owns
    <2>2. \A p, q \in Buffers, b \in Blocks : Owns(p, b)' /\ Owns(q, b)' => p = q
      BY <2>1 DEF Places, Apart
    <2> QED
      BY <1>2, <2>1, <2>2, PlacesMove
  <1>3. ASSUME NEW p \in Buffers, NEW n \in Sizes, Allocate(p, n) PROVE Places'
    <2>0. buffer[p] = Empty
      BY <1>3 DEF Allocate
    <2>1. CASE n = 0
      BY <1>2, <1>3, <2>1 DEF Allocate
    <2>2. CASE n # 0 /\ \E t \in Sizes : t >= n /\ freeBlocks_[t] # <<>>
      <3>1. AllocateBlock(p, n)
        BY <1>3, <2>2 DEF Allocate
      <3> QED
        BY <2>0, <2>2, <3>1, Reusing, PlacesReuse
    <2>3. CASE n # 0 /\ \A t \in Sizes : t >= n => freeBlocks_[t] = <<>>
      <3>1. AllocateBlock(p, n)
        BY <1>3, <2>3 DEF Allocate
      <3> QED
        BY <2>0, <2>3, <3>1, FromMalloc, PlacesMalloc
    <2> QED
      BY <2>1, <2>2, <2>3
  <1>4. ASSUME NEW p \in Buffers, Destroy(p) PROVE Places'
    <2>1. buffer[p] # Empty /\ Deallocate(buffer[p]) /\ room' = room
      BY <1>4 DEF Destroy
    <2>2. buffer'[p] = Empty /\ \A r \in Buffers \ {p} : buffer'[r] = buffer[r]
      BY <1>0, <1>4 DEF Destroy
    <2>3. \A b \in Blocks : ~Owns(p, b)'
      BY <2>2, BufferFields, SizesAndBlocks DEF Owns
    <2>4. \A r \in Buffers \ {p}, b \in Blocks : Owns(r, b)' <=> Owns(r, b)
      BY <2>2 DEF Owns
    <2>5. \A r \in Buffers, b \in Blocks : Owns(r, b)' =>
            \E t \in Buffers \ {p} : Owns(t, b) /\ buffer'[r].size = buffer[t].size
      BY <2>2, <2>3, <2>4
    <2>6. \A r, t \in Buffers, b \in Blocks : Owns(r, b)' /\ Owns(t, b)' => r = t
      BY <2>3, <2>4 DEF Places, Apart
    <2>7. \A t \in Buffers \ {p}, b \in Blocks : Owns(t, b) => \E r \in Buffers : Owns(r, b)'
      BY <2>4
    <2> QED
      BY <2>1, <2>5, <2>6, <2>7, PlacesRelease
  <1>5. ASSUME NEW p \in Buffers, NEW q \in Buffers, p # q,
               buffer' = [buffer EXCEPT ![q] = buffer[p], ![p] = Empty]
        PROVE  /\ \A r \in Buffers, b \in Blocks : Owns(r, b)' =>
                    \E t \in Buffers \ {q} : Owns(t, b) /\ buffer'[r].size = buffer[t].size
               /\ \A r, t \in Buffers, b \in Blocks : Owns(r, b)' /\ Owns(t, b)' => r = t
               /\ \A t \in Buffers \ {q}, b \in Blocks :
                    Owns(t, b) => \E r \in Buffers : Owns(r, b)'
    <2>1. /\ buffer'[q] = buffer[p] /\ buffer'[p] = Empty
          /\ \A r \in Buffers \ {p, q} : buffer'[r] = buffer[r]
      BY <1>5, Moving
    <2>2. \A b \in Blocks : ~Owns(p, b)'
      BY <2>1, BufferFields, SizesAndBlocks DEF Owns
    <2>3. \A b \in Blocks : Owns(q, b)' <=> Owns(p, b)
      BY <2>1 DEF Owns
    <2>4. \A r \in Buffers \ {p, q}, b \in Blocks : Owns(r, b)' <=> Owns(r, b)
      BY <2>1 DEF Owns
    <2>5. \A r \in Buffers, b \in Blocks : Owns(r, b)' =>
            \E t \in Buffers \ {q} : Owns(t, b) /\ buffer'[r].size = buffer[t].size
      BY <1>5, <2>1, <2>2, <2>3, <2>4
    <2>6. \A r, t \in Buffers, b \in Blocks : Owns(r, b)' /\ Owns(t, b)' => r = t
      BY <2>2, <2>3, <2>4 DEF Places, Apart
    <2>7. \A t \in Buffers \ {q}, b \in Blocks : Owns(t, b) => \E r \in Buffers : Owns(r, b)'
      BY <2>3, <2>4
    <2> QED
      BY <2>5, <2>6, <2>7
  <1>6. ASSUME NEW p \in Buffers, NEW q \in Buffers, p # q, buffer[q] = Empty,
               buffer' = [buffer EXCEPT ![q] = buffer[p], ![p] = Empty],
               UNCHANGED <<freeBlocks_, room>>
        PROVE  Places'
    <2>1. \A b \in Blocks : ~Owns(q, b)
      BY <1>1, <1>6
    <2>2. /\ \A r \in Buffers, b \in Blocks : Owns(r, b)' =>
               \E t \in Buffers \ {q} : Owns(t, b) /\ buffer'[r].size = buffer[t].size
          /\ \A r, t \in Buffers, b \in Blocks : Owns(r, b)' /\ Owns(t, b)' => r = t
          /\ \A t \in Buffers \ {q}, b \in Blocks : Owns(t, b) => \E r \in Buffers : Owns(r, b)'
      BY <1>5, <1>6
    <2>3. \A t \in Buffers, b \in Blocks : Owns(t, b) => \E r \in Buffers : Owns(r, b)'
      BY <2>1, <2>2
    <2> QED
      BY <1>6, <2>2, <2>3, PlacesMove
  <1>7. ASSUME NEW p \in Buffers, NEW q \in Buffers, MoveConstruct(p, q) PROVE Places'
    BY <1>6, <1>7 DEF MoveConstruct
  <1>8. ASSUME NEW p \in Buffers, NEW q \in Buffers, MoveAssign(p, q) PROVE Places'
    <2>1. CASE buffer[q] = Empty
      <3>1. freeBlocks_' = freeBlocks_
        BY <1>8, <2>1, BufferFields, NothingFiled DEF MoveAssign
      <3> QED
        BY <1>6, <1>8, <2>1, <3>1 DEF MoveAssign
    <2>2. CASE buffer[q] # Empty
      <3>1. /\ p # q /\ buffer' = [buffer EXCEPT ![q] = buffer[p], ![p] = Empty]
            /\ Deallocate(buffer[q]) /\ room' = room
        BY <1>8 DEF MoveAssign
      <3>2. /\ \A r \in Buffers, b \in Blocks : Owns(r, b)' =>
                 \E t \in Buffers \ {q} : Owns(t, b) /\ buffer'[r].size = buffer[t].size
            /\ \A r, t \in Buffers, b \in Blocks : Owns(r, b)' /\ Owns(t, b)' => r = t
            /\ \A t \in Buffers \ {q}, b \in Blocks : Owns(t, b) => \E r \in Buffers : Owns(r, b)'
        BY <1>5, <3>1
      <3> QED
        BY <2>2, <3>1, <3>2, PlacesRelease
    <2> QED
      BY <2>1, <2>2
  <1>9. CASE DestroyPool
    <2>1. \A s \in Sizes : \A i, b : ~Entry(s, i, b)'
      BY <1>9, EmptySeq DEF DestroyPool, Entry
    <2>2. \A p \in Buffers, b \in Blocks : ~Owns(p, b) /\ ~Owns(p, b)'
      BY <1>1, <1>9 DEF DestroyPool, Owns
    <2>3. \A b \in Blocks : room'[b] = 0
      <3> SUFFICES ASSUME NEW b \in Blocks, room[b] # 0 PROVE room'[b] = 0
        BY <1>9 DEF DestroyPool
      <3>1. PICK s \in Sizes, i \in Nat : Entry(s, i, b)
        BY <2>2 DEF Places, Accounted, Placed
      <3> QED
        BY <1>9, <3>1 DEF DestroyPool, Entry
    <2> QED
      BY <2>1, <2>2, <2>3 DEF Places, Apart, Accounted, Placed, LargeEnough
  <1>10. CASE UNCHANGED vars
    BY <1>2, <1>10 DEF vars
  <1> QED
    BY <1>3, <1>4, <1>7, <1>8, <1>9, <1>10 DEF Next, Destroyed

LEMMA AlwaysPlaced == Spec => []Places
  BY AlwaysTyped, PlacesInit, PlacesNext, PTL DEF Spec

----
(* The theorems.                                                           *)

\* The blocks filed under a size are different, so they are not more than
\* there are.
LEMMA FewEntries ==
    ASSUME TypeOK, Apart, NEW s \in Sizes, NEW i \in Nat, NEW b \in Blocks, Entry(s, i, b)
    PROVE  i \in 1..BlockBound
  <1>1. PICK q \in Seq(Blocks) : q = freeBlocks_[s]
    BY PoolStates
  <1>2. PICK n \in Nat : n = Len(q)
    BY LenProperties
  <1>3. q \in [1..n -> Blocks]
    BY <1>2, LenProperties
  <1>4. ASSUME NEW j \in 1..n, NEW k \in 1..n, q[j] = q[k] PROVE j = k
    <2>1. q[j] \in Blocks /\ j \in Nat /\ k \in Nat
      BY <1>3
    <2>2. Entry(s, j, q[j]) /\ Entry(s, k, q[j])
      BY <1>1, <1>3, <1>4 DEF Entry
    <2> QED
      BY <2>1, <2>2 DEF Apart
  <1>5. q \in Injection(1..n, Blocks)
    BY <1>3, <1>4 DEF Injection, IsInjective
  <1>6. IsFiniteSet(Blocks) /\ Cardinality(Blocks) = BlockBound
    BY PoolConstants, FS_Interval DEF Blocks
  <1>7. Cardinality(1..n) = n
    BY FS_Interval
  <1>8. n <= BlockBound
    BY <1>5, <1>6, <1>7, FS_Injection
  <1>9. i \in 1..n
    BY <1>1, <1>3 DEF Entry
  <1> QED
    BY <1>8, <1>9, PoolConstants

LEMMA PlacesAreOne == TypeOK /\ Places => OnePlace
  <1> SUFFICES ASSUME TypeOK, Places, NEW b \in Blocks
               PROVE  Cardinality(Filed(b)) + Cardinality(Owners(b)) = IF room[b] # 0 THEN 1 ELSE 0
    BY DEF OnePlace
  <1>0. Apart
    BY DEF Places
  <1>1. CASE room[b] = 0
    <2>1. Filed(b) = {} /\ Owners(b) = {}
      <3>1. ~Placed(b)
        BY <1>1 DEF Places, Accounted
      <3>2. 1..BlockBound \subseteq Nat
        OBVIOUS
      <3> QED
        BY <3>1, <3>2 DEF Filed, Owners, Placed, Owns
    <2> QED
      BY <1>1, <2>1, FS_EmptySet
  <1>2. CASE \E s \in Sizes, i \in Nat : Entry(s, i, b)
    <2>1. PICK s \in Sizes, i \in Nat : Entry(s, i, b)
      BY <1>2
    <2>2. i \in 1..BlockBound
      BY <1>0, <2>1, FewEntries
    <2>3. Filed(b) = {<<s, i>>}
      <3>1. <<s, i>> \in Filed(b)
        BY <2>1, <2>2 DEF Filed
      <3>2. ASSUME NEW e \in Filed(b) PROVE e = <<s, i>>
        <4>1. /\ e \in Sizes \X (1..BlockBound) /\ Entry(e[1], e[2], b)
              /\ e[1] \in Sizes /\ e[2] \in Nat /\ e = <<e[1], e[2]>>
          BY <3>2 DEF Filed
        <4>2. e[1] = s /\ e[2] = i
          BY <1>0, <2>1, <4>1 DEF Apart
        <4> QED
          BY <4>1, <4>2
      <3> QED
        BY <3>1, <3>2
    <2>4. Owners(b) = {}
      BY <1>0, <2>1 DEF Apart, Owners, Owns
    <2>5. room[b] # 0
      BY <1>2 DEF Places, Accounted, Placed
    <2>6. Cardinality(Filed(b)) = 1 /\ Cardinality(Owners(b)) = 0
      BY <2>3, <2>4, FS_EmptySet, FS_Singleton
    <2> QED
      BY <2>5, <2>6
  <1>3. CASE \E p \in Buffers : Owns(p, b)
    <2>1. PICK p \in Buffers : Owns(p, b)
      BY <1>3
    <2>2. Owners(b) = {p}
      BY <1>0, <2>1 DEF Apart, Owners, Owns
    <2>3. Filed(b) = {}
      <3>1. 1..BlockBound \subseteq Nat
        OBVIOUS
      <3> QED
        BY <1>0, <2>1, <3>1 DEF Apart, Filed
    <2>4. room[b] # 0
      BY <1>3 DEF Places, Accounted, Placed
    <2>5. Cardinality(Filed(b)) = 0 /\ Cardinality(Owners(b)) = 1
      BY <2>2, <2>3, FS_EmptySet, FS_Singleton
    <2> QED
      BY <2>4, <2>5
  <1> QED
    BY <1>1, <1>2, <1>3 DEF Places, Accounted, Placed

\* A block is in one buffer or in one entry of the pool, or malloc has not
\* given it out: no sequence of moves shares it, loses it or returns it twice
\* (lines 30-54, 68-100).
THEOREM OneOwner == Spec => []OnePlace
  BY AlwaysTyped, AlwaysPlaced, PlacesAreOne, PTL

LEMMA PlacesLargeEnough == TypeOK /\ Places => RoomEnough
  <1> SUFFICES ASSUME TypeOK, Places PROVE RoomEnough
    OBVIOUS
  <1>1. ASSUME NEW p \in Buffers, buffer[p] # Empty
        PROVE  buffer[p].size <= room[buffer[p].data]
    BY <1>1, BufferStates DEF Places, LargeEnough, Owns
  <1>2. ASSUME NEW s \in Sizes, NEW i \in DOMAIN freeBlocks_[s]
        PROVE  s <= room[freeBlocks_[s][i]]
    <2>1. freeBlocks_[s] \in [1..Stock(s) -> Blocks] /\ Stock(s) \in Nat
      BY PoolStates, LenProperties DEF Stock
    <2>2. freeBlocks_[s][i] \in Blocks /\ i \in Nat
      BY <2>1
    <2>3. Entry(s, i, freeBlocks_[s][i])
      BY DEF Entry
    <2> QED
      BY <2>2, <2>3 DEF Places, LargeEnough
  <1> QED
    BY <1>1, <1>2 DEF RoomEnough

LEMMA InUseFinite ==
    \A s : /\ IsFiniteSet(InUse(s)) /\ Cardinality(InUse(s)) \in Nat
           /\ Cardinality(InUse(s)) <= Cardinality(Buffers) /\ Cardinality(Buffers) \in Nat
  BY SizesAndBlocks, FS_Subset, FS_CardinalityType DEF InUse

LEMMA FootprintInit == Init => FootprintBound
  <1> SUFFICES ASSUME Init, NEW s \in Sizes
               PROVE  Len(freeBlocks_[s]) + Cardinality(InUse(s)) <= Cardinality(Buffers)
    BY DEF FootprintBound
  <1>1. Len(freeBlocks_[s]) = 0
    BY EmptySeq DEF Init
  <1> QED
    BY <1>1, InUseFinite

\* A buffer gets a block of a size: one of that size, or, since the pool has
\* none of it, one of a larger size or a new one.
LEMMA FootprintAllocate ==
    ASSUME TypeOK, FootprintBound, NEW p \in Buffers, NEW n \in Sizes, Allocate(p, n)
    PROVE  \A s \in Sizes : Stock(s)' + Cardinality(InUse(s)') <= Cardinality(Buffers)
  <1>0. /\ buffer[p] = Empty /\ buffer \in [Buffers -> BufferType]
        /\ \A s \in Sizes : Stock(s) + Cardinality(InUse(s)) <= Cardinality(Buffers)
    BY DEF Allocate, TypeOK, BufferType, FootprintBound, Stock
  <1>1. \A s \in Sizes : Stock(s) \in Nat
    BY PoolStates
  <1>2. CASE n = 0
    <2>1. UNCHANGED <<freeBlocks_, buffer>>
      BY <1>2 DEF Allocate
    <2> QED
      BY <1>0, <2>1 DEF Stock, InUse
  <1>3. ASSUME NEW x \in Blocks, n # 0,
               buffer' = [buffer EXCEPT ![p] = [data |-> x, size |-> n]]
        PROVE  /\ \A s \in Sizes \ {n} : InUse(s)' = InUse(s)
               /\ Cardinality(InUse(n)') = Cardinality(InUse(n)) + 1
               /\ Cardinality(InUse(n)') <= Cardinality(Buffers)
    <2>1. /\ buffer'[p].size = n /\ buffer'[p] # Empty
          /\ \A q \in Buffers \ {p} : buffer'[q] = buffer[q]
      BY <1>0, <1>3, BufferFields, SizesAndBlocks
    <2>2. \A s \in Sizes \ {n} : InUse(s)' = InUse(s)
      BY <1>0, <2>1 DEF InUse
    <2>3. p \notin InUse(n) /\ InUse(n)' = InUse(n) \union {p}
      BY <1>0, <2>1 DEF InUse
    <2>4. Cardinality(InUse(n)') = Cardinality(InUse(n)) + 1
      BY <2>3, InUseFinite, FS_AddElement
    <2>5. InUse(n)' \subseteq Buffers
      BY DEF InUse
    <2>6. Cardinality(InUse(n)') <= Cardinality(Buffers)
      BY <2>5, SizesAndBlocks, FS_Subset
    <2> QED
      BY <2>2, <2>4, <2>6
  <1>4. CASE n # 0 /\ \E t \in Sizes : t >= n /\ freeBlocks_[t] # <<>>
    <2>1. AllocateBlock(p, n)
      BY <1>4 DEF Allocate
    <2>2. PICK m \in Sizes, x \in Blocks :
             /\ m >= n /\ \A s \in Sizes : s >= n /\ s < m => Stock(s) = 0
             /\ buffer' = [buffer EXCEPT ![p] = [data |-> x, size |-> n]]
             /\ Stock(m) # 0 /\ Stock(m)' = Stock(m) - 1
             /\ \A s \in Sizes \ {m} : Stock(s)' = Stock(s)
      BY <1>4, <2>1, Reusing
    <2>3. /\ \A s \in Sizes \ {n} : InUse(s)' = InUse(s)
          /\ Cardinality(InUse(n)') = Cardinality(InUse(n)) + 1
          /\ Cardinality(InUse(n)') <= Cardinality(Buffers)
      BY <1>3, <1>4, <2>2
    <2>4. ASSUME NEW s \in Sizes \ {n}
          PROVE  Stock(s)' + Cardinality(InUse(s)') <= Cardinality(Buffers)
      <3>1. Stock(s)' <= Stock(s) /\ Stock(s)' \in Int /\ Stock(s) \in Int
        BY <1>1, <2>2
      <3>2. Cardinality(InUse(s)') = Cardinality(InUse(s))
        BY <2>3
      <3> QED
        BY <1>0, <3>1, <3>2, InUseFinite
    <2>5. CASE m = n
      <3>1. Stock(n)' = Stock(n) - 1 /\ Stock(n) \in Nat
        BY <1>1, <2>2, <2>5
      <3>2. Stock(n)' + Cardinality(InUse(n)') <= Cardinality(Buffers)
        BY <1>0, <2>3, <3>1, InUseFinite
      <3> QED
        BY <2>4, <3>2
    <2>6. CASE m # n
      <3>1. n < m /\ n >= n
        BY <2>2, <2>6, SizesAndBlocks
      <3>2. Stock(n)' = 0
        BY <2>2, <2>6, <3>1
      <3>3. Cardinality(InUse(n)') \in Nat
        BY <2>3, InUseFinite
      <3>4. Stock(n)' + Cardinality(InUse(n)') <= Cardinality(Buffers)
        BY <2>3, <3>2, <3>3
      <3> QED
        BY <2>4, <3>4
    <2> QED
      BY <2>5, <2>6
  <1>5. CASE n # 0 /\ \A t \in Sizes : t >= n => freeBlocks_[t] = <<>>
    <2>1. AllocateBlock(p, n)
      BY <1>5 DEF Allocate
    <2>2. PICK x \in Blocks : /\ buffer' = [buffer EXCEPT ![p] = [data |-> x, size |-> n]]
                              /\ freeBlocks_' = freeBlocks_
      BY <1>5, <2>1, FromMalloc
    <2>3. /\ \A s \in Sizes \ {n} : InUse(s)' = InUse(s)
          /\ Cardinality(InUse(n)') = Cardinality(InUse(n)) + 1
          /\ Cardinality(InUse(n)') <= Cardinality(Buffers)
      BY <1>3, <1>5, <2>2
    <2>4. \A s \in Sizes : Stock(s)' = Stock(s)
      BY <2>2 DEF Stock
    <2>5. n >= n
      BY SizesAndBlocks
    <2>6. Stock(n)' = 0
      BY <1>5, <2>4, <2>5, PoolStates
    <2>7. Cardinality(InUse(n)') \in Nat
      BY <2>3, InUseFinite
    <2>8. Stock(n)' + Cardinality(InUse(n)') <= Cardinality(Buffers)
      BY <2>3, <2>6, <2>7
    <2> QED
      BY <1>0, <2>3, <2>4, <2>8
  <1> QED
    BY <1>2, <1>4, <1>5

\* A buffer's block goes back into the stock of the buffer's size.
LEMMA FootprintRelease ==
    ASSUME TypeOK, FootprintBound, NEW q \in Buffers, buffer[q] # Empty, Deallocate(buffer[q]),
           \A s \in Sizes : Cardinality(InUse(s)') = Cardinality(InUse(s) \ {q})
    PROVE  \A s \in Sizes : Stock(s)' + Cardinality(InUse(s)') <= Cardinality(Buffers)
  <1> SUFFICES ASSUME NEW s \in Sizes
               PROVE  Stock(s)' + Cardinality(InUse(s)') <= Cardinality(Buffers)
    OBVIOUS
  <1>0. /\ Stock(s) + Cardinality(InUse(s)) <= Cardinality(Buffers)
        /\ Stock(s) \in Nat
    BY PoolStates DEF FootprintBound, Stock
  <1>1. PICK z \in Sizes : z = buffer[q].size
    BY BufferStates
  <1>2. Stock(z)' = Stock(z) + 1 /\ \A t \in Sizes \ {z} : Stock(t)' = Stock(t)
    <2>1. PICK v \in BufferType : v = buffer[q]
      BY BufferStates
    <2>2. v.data \in Blocks /\ v.size \in Sizes /\ Deallocate(v) /\ z = v.size
      BY <1>1, <2>1, BufferStates
    <2>3. Stock(v.size)' = Stock(v.size) + 1 /\ \A t \in Sizes \ {v.size} : Stock(t)' = Stock(t)
      BY <2>2, Filing
    <2> QED
      BY <2>2, <2>3 DEF Stock
  <1>3. q \in InUse(s) <=> s = z
    BY <1>1 DEF InUse
  <1>4. Cardinality(InUse(s)') = IF s = z THEN Cardinality(InUse(s)) - 1 ELSE Cardinality(InUse(s))
    BY <1>3, InUseFinite, FS_RemoveElement
  <1> QED
    BY <1>0, <1>2, <1>4, InUseFinite

\* A move changes no number of buffers but that of the one overwritten.
LEMMA InUseMoved ==
    ASSUME TypeOK, NEW p \in Buffers, NEW q \in Buffers, p # q,
           buffer' = [buffer EXCEPT ![q] = buffer[p], ![p] = Empty],
           NEW s \in Sizes
    PROVE  Cardinality(InUse(s)') = Cardinality(InUse(s) \ {q})
  <1> DEFINE rest == InUse(s) \ {q}
  <1>1. /\ buffer'[q] = buffer[p] /\ buffer'[p] = Empty
        /\ \A r \in Buffers \ {p, q} : buffer'[r] = buffer[r]
    BY Moving
  <1>2. IsFiniteSet(rest) /\ Cardinality(rest) \in Nat
    BY InUseFinite, FS_RemoveElement, FS_CardinalityType
  <1>3. CASE p \in InUse(s)
    <2>1. InUse(s)' = (rest \ {p}) \union {q}
      BY <1>1, <1>3 DEF InUse
    <2>2. p \in rest /\ q \notin rest \ {p}
      BY <1>3
    <2> HIDE DEF rest
    <2>3. IsFiniteSet(rest \ {p}) /\ Cardinality(rest \ {p}) = Cardinality(rest) - 1
      BY <1>2, <2>2, FS_RemoveElement
    <2>4. Cardinality((rest \ {p}) \union {q}) = Cardinality(rest \ {p}) + 1
      BY <2>2, <2>3, FS_AddElement
    <2>5. Cardinality(InUse(s)') = Cardinality(rest)
      BY <1>2, <2>1, <2>3, <2>4
    <2> QED
      BY <2>5 DEF rest
  <1>4. CASE p \notin InUse(s)
    <2>1. InUse(s)' = rest
      BY <1>1, <1>4 DEF InUse
    <2> QED
      BY <2>1
  <1> QED
    BY <1>3, <1>4

LEMMA FootprintNext == TypeOK /\ FootprintBound /\ [Next]_vars => FootprintBound'
  <1> SUFFICES ASSUME TypeOK, FootprintBound, [Next]_vars
               PROVE  \A s \in Sizes : Stock(s)' + Cardinality(InUse(s)') <= Cardinality(Buffers)
    BY DEF FootprintBound, Stock
  <1>0. /\ buffer \in [Buffers -> BufferType]
        /\ \A s \in Sizes : Stock(s) + Cardinality(InUse(s)) <= Cardinality(Buffers)
    BY DEF TypeOK, BufferType, FootprintBound, Stock
  <1>1. ASSUME NEW p \in Buffers, Destroy(p)
        PROVE  \A s \in Sizes : Stock(s)' + Cardinality(InUse(s)') <= Cardinality(Buffers)
    <2>1. /\ buffer[p] # Empty /\ Deallocate(buffer[p]) /\ buffer'[p] = Empty
          /\ \A r \in Buffers \ {p} : buffer'[r] = buffer[r]
      BY <1>0, <1>1 DEF Destroy
    <2>2. \A s \in Sizes : InUse(s)' = InUse(s) \ {p}
      BY <2>1 DEF InUse
    <2> QED
      BY <2>1, <2>2, FootprintRelease
  <1>2. ASSUME NEW p \in Buffers, NEW q \in Buffers, p # q, buffer[q] = Empty,
               buffer' = [buffer EXCEPT ![q] = buffer[p], ![p] = Empty],
               UNCHANGED freeBlocks_
        PROVE  \A s \in Sizes : Stock(s)' + Cardinality(InUse(s)') <= Cardinality(Buffers)
    <2>1. \A s \in Sizes : Cardinality(InUse(s)') = Cardinality(InUse(s) \ {q})
      BY <1>2, InUseMoved
    <2>2. \A s \in Sizes : InUse(s) \ {q} = InUse(s)
      BY <1>2 DEF InUse
    <2> QED
      BY <1>0, <1>2, <2>1, <2>2 DEF Stock
  <1>3. ASSUME NEW p \in Buffers, NEW q \in Buffers, MoveConstruct(p, q)
        PROVE  \A s \in Sizes : Stock(s)' + Cardinality(InUse(s)') <= Cardinality(Buffers)
    <2>1. /\ p # q /\ buffer[q] = Empty /\ UNCHANGED freeBlocks_
          /\ buffer' = [buffer EXCEPT ![q] = buffer[p], ![p] = Empty]
      BY <1>3 DEF MoveConstruct
    <2> QED
      BY <1>2, <2>1
  <1>4. ASSUME NEW p \in Buffers, NEW q \in Buffers, MoveAssign(p, q)
        PROVE  \A s \in Sizes : Stock(s)' + Cardinality(InUse(s)') <= Cardinality(Buffers)
    <2>1. /\ p # q /\ Deallocate(buffer[q])
          /\ buffer' = [buffer EXCEPT ![q] = buffer[p], ![p] = Empty]
      BY <1>4 DEF MoveAssign
    <2>2. CASE buffer[q] = Empty
      BY <1>2, <2>1, <2>2, BufferFields, NothingFiled
    <2>3. CASE buffer[q] # Empty
      <3>1. \A s \in Sizes : Cardinality(InUse(s)') = Cardinality(InUse(s) \ {q})
        BY <2>1, InUseMoved
      <3> QED
        BY <2>1, <2>3, <3>1, FootprintRelease
    <2> QED
      BY <2>2, <2>3
  <1>5. CASE DestroyPool
    <2>1. \A s \in Sizes : Stock(s)' = 0
      BY <1>5, EmptySeq DEF DestroyPool, Stock
    <2>2. \A s \in Sizes : InUse(s)' = {}
      BY <1>5 DEF DestroyPool, InUse
    <2>3. Cardinality({}) = 0 /\ Cardinality(Buffers) \in Nat
      BY FS_EmptySet, FS_CardinalityType, SizesAndBlocks
    <2>4. \A s \in Sizes : Cardinality(InUse(s)') = 0
      BY <2>2, <2>3
    <2> QED
      BY <2>1, <2>3, <2>4
  <1>6. CASE UNCHANGED vars
    BY <1>0, <1>6 DEF vars, Stock, InUse
  <1> QED
    BY <1>1, <1>3, <1>4, <1>5, <1>6, FootprintAllocate DEF Next, Destroyed

\* DestroyPool frees what is filed, and nothing else has a block.
LEMMA NothingLeakedNext ==
    TypeOK /\ Places /\ NothingLeaked /\ [Next]_vars => NothingLeaked'
  <1> SUFFICES ASSUME TypeOK, Places, NothingLeaked, [Next]_vars PROVE NothingLeaked'
    OBVIOUS
  <1>1. ASSUME alive' = alive /\ (alive \/ room' = room) PROVE NothingLeaked'
    BY <1>1 DEF NothingLeaked
  <1>2. CASE DestroyPool
    <2>1. \A p \in Buffers, b \in Blocks : ~Owns(p, b)
      BY <1>2, BufferStates DEF DestroyPool, Owns
    <2> SUFFICES ASSUME NEW b \in Blocks, room[b] # 0 PROVE room'[b] = 0
      BY <1>2 DEF DestroyPool, NothingLeaked
    <2>2. PICK s \in Sizes, i \in Nat : Entry(s, i, b)
      BY <2>1 DEF Places, Accounted, Placed
    <2> QED
      BY <1>2, <2>2 DEF DestroyPool, Entry
  <1>3. CASE UNCHANGED vars
    BY <1>1, <1>3 DEF vars
  <1> QED
    BY <1>1, <1>2, <1>3 DEF Next, Allocate, Destroy, MoveConstruct, MoveAssign, Destroyed

\* Every block is large enough for its buffer, the pool and the buffers share
\* no more blocks of a size than there are buffers, and none is left when the
\* pool is destroyed (lines 24-54).
THEOREM PoolCorrect == Spec => []PoolInv
  <1>1. Spec => []FootprintBound
    BY AlwaysTyped, FootprintInit, FootprintNext, PTL DEF Spec
  <1>2. Init => NothingLeaked
    BY DEF Init, NothingLeaked
  <1>3. Spec => []NothingLeaked
    BY <1>2, AlwaysTyped, AlwaysPlaced, NothingLeakedNext, PTL DEF Spec
  <1>4. TypeOK /\ Places /\ FootprintBound /\ NothingLeaked => PoolInv
    BY PlacesLargeEnough DEF PoolInv
  <1> QED
    BY <1>1, <1>3, <1>4, AlwaysTyped, AlwaysPlaced, PTL

=============================================================================
