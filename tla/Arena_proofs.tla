------------------------------ MODULE Arena_proofs ------------------------------
(***************************************************************************)
(* Proofs about Arena, for every size_t, chunk size, header and element    *)
(* size: blocks are disjoint, arrays keep their elements, an element that  *)
(* is dropped is reported, and every chunk is given back.                  *)
(***************************************************************************)
EXTENDS Arena, WellFoundedInduction, TLAPS

(* What TypeOK says of the allocator alone.                                *)
ArenaTypeOK ==
    /\ chunks \in Seq(Chunk)
    /\ first \in 0 .. Len(chunks)
    /\ current \in 0 .. Len(chunks)
    /\ live \subseteq 1 .. Len(chunks)
    /\ blocks \in Seq(Block)

(* Chunks are never overfull and always used up to an aligned offset.      *)
ChunkOK(c) ==
    /\ c.used <= c.size
    /\ c.size <= SizeMax - Header
    /\ c.used % Alignment = 0

ArenaInv ==
    /\ ArenaTypeOK
    /\ \A c \in DOMAIN chunks : ChunkOK(chunks[c])
    /\ BlocksDisjoint

(* Nothing that was handed out changes when something else is.             *)
BlocksKept ==
    /\ Len(blocks') = Len(blocks) + 1
    /\ \A i \in DOMAIN blocks : blocks'[i] = blocks[i]

IInv == TypeOK /\ ArenaInv /\ ArraysFit /\ NothingDropped

(* What TypeOK says of the rest.                                           *)
ArraysTypeOK ==
    /\ arrays \in [Arrays -> Array]
    /\ asked \in [Arrays -> Nat]
    /\ fatal \in BOOLEAN
    /\ released \in BOOLEAN

-----------------------------------------------------------------------------
(* Sizes below the limit are computed without wrapping around.             *)
LEMMA NoWrap == ASSUME NEW n \in Sizes PROVE Wrapped(n) = n
<1>1. SizeMax \in Nat
  BY ArenaAssumption
<1>2. n \in Nat /\ n < SizeMax + 1
  BY <1>1 DEF Sizes
<1>3. \A k, m \in Nat : k < m => k % m = k
  BY SMT
<1> QED
  BY <1>1, <1>2, <1>3 DEF Wrapped

(* align_up never rounds down and returns a multiple of the alignment.     *)
LEMMA Rounded ==
    ASSUME NEW n \in Sizes, ~AlignUpOverflows(n)
    PROVE  AlignUp(n) \in Sizes /\ AlignUp(n) >= n /\ AlignUp(n) % Alignment = 0
<1>1. SizeMax \in Nat
  BY ArenaAssumption
<1>2. n + (Alignment - 1) \in Sizes
  BY <1>1 DEF Sizes, Alignment, AlignUpOverflows
<1>3. Wrapped(n + (Alignment - 1)) = n + 7
  BY <1>2, NoWrap DEF Alignment
<1>4. AlignUp(n) = (n + 7) - ((n + 7) % 8)
  BY <1>3 DEF AlignUp, Alignment
<1>5. \A k \in Nat : /\ (k + 7) - ((k + 7) % 8) \in k .. k + 7
                     /\ ((k + 7) - ((k + 7) % 8)) % 8 = 0
  BY SMT
<1> QED
  BY <1>1, <1>2, <1>4, <1>5 DEF Sizes, Alignment

-----------------------------------------------------------------------------
(* sf_arena_alloc in the current chunk: the block starts where the chunk   *)
(* was used up, behind everything handed out from it before.               *)
LEMMA AllocInChunkKeepsArena ==
    ASSUME ArenaInv, NEW n \in Sizes, AllocInChunk(n)
    PROVE  ArenaInv' /\ BlocksKept /\ blocks'[Len(blocks')].size = n
<1> DEFINE c == current
           k == chunks[c]
           m == AlignUp(n)
           b == [chunk |-> c, start |-> k.used, size |-> n]
<1>1. m \in Sizes /\ m >= n /\ m % Alignment = 0
  BY Rounded DEF AllocInChunk
<1>2. /\ c \in DOMAIN chunks /\ c \in Nat
      /\ k \in Chunk /\ ChunkOK(k) /\ k.used + m <= k.size
  <2>1. chunks \in Seq(Chunk) /\ current \in 0 .. Len(chunks) /\ current # 0
    BY DEF ArenaInv, ArenaTypeOK, AllocInChunk, HasSpace
  <2>2. c \in DOMAIN chunks /\ c \in Nat
    BY <2>1
  <2>3. k \in Chunk /\ ChunkOK(k)
    BY <2>1, <2>2 DEF ArenaInv
  <2>4. k.size - k.used >= m
    BY DEF AllocInChunk, HasSpace
  <2>5. k.size \in Nat /\ k.used \in Nat /\ m \in Nat
    BY <1>1, <2>3, ArenaAssumption DEF Chunk, Sizes
  <2>6. \A x, y, z \in Nat : x - y >= z => y + z <= x
    OBVIOUS
  <2> QED
    BY <2>2, <2>3, <2>4, <2>5, <2>6
<1>3. /\ chunks' = [chunks EXCEPT ![c].used = k.used + m]
      /\ blocks' = Append(blocks, b)
      /\ first' = first /\ current' = current /\ live' = live
  BY DEF AllocInChunk
<1>4. SizeMax \in Nat /\ Header \in Nat
  BY ArenaAssumption
<1>5. k.used + m \in Sizes /\ (k.used + m) % Alignment = 0 /\ k.used \in Sizes
  <2>1. k.used + m \in Sizes /\ k.used \in Nat /\ m \in Nat
    BY <1>1, <1>2, <1>4 DEF Chunk, Sizes
  <2>2. \A x, y \in Nat : x % 8 = 0 /\ y % 8 = 0 => (x + y) % 8 = 0
    BY SMT
  <2>3. k.used % 8 = 0 /\ m % 8 = 0
    BY <1>1, <1>2 DEF ChunkOK, Alignment
  <2> QED
    BY <1>2, <2>1, <2>2, <2>3 DEF Alignment, Chunk
<1>6. b \in Block
  BY <1>2, <1>5 DEF Block
<1> HIDE DEF m, b
<1>7. ArenaTypeOK' /\ Len(chunks') = Len(chunks)
  <2>1. [k EXCEPT !.used = k.used + m] \in Chunk
    BY <1>2, <1>5 DEF Chunk
  <2>2. chunks' = [chunks EXCEPT ![c] = [k EXCEPT !.used = k.used + m]]
    BY <1>3
  <2>3. chunks' \in Seq(Chunk) /\ Len(chunks') = Len(chunks)
    BY <1>2, <2>1, <2>2 DEF ArenaInv, ArenaTypeOK
  <2>4. blocks' \in Seq(Block)
    BY <1>3, <1>6 DEF ArenaInv, ArenaTypeOK
  <2> QED
    BY <1>3, <2>3, <2>4 DEF ArenaInv, ArenaTypeOK
<1>8. /\ DOMAIN chunks' = DOMAIN chunks
      /\ \A d \in DOMAIN chunks : d # c => chunks'[d] = chunks[d]
      /\ chunks'[c].used = k.used + m /\ chunks'[c].size = k.size
  <2>1. chunks' = [chunks EXCEPT ![c] = [k EXCEPT !.used = k.used + m]]
    BY <1>3
  <2>2. /\ DOMAIN chunks' = DOMAIN chunks
        /\ \A d \in DOMAIN chunks : d # c => chunks'[d] = chunks[d]
        /\ chunks'[c] = [k EXCEPT !.used = k.used + m]
    BY <1>2, <2>1 DEF ArenaInv, ArenaTypeOK
  <2> QED
    BY <1>2, <2>2 DEF Chunk
<1>9. ASSUME NEW d \in DOMAIN chunks' PROVE ChunkOK(chunks'[d])
  <2>1. CASE d = c
    BY <1>2, <1>5, <1>8, <2>1 DEF ChunkOK
  <2>2. CASE d # c
    BY <1>8, <2>2 DEF ArenaInv
  <2> QED
    BY <2>1, <2>2
<1>10. /\ Len(blocks') = Len(blocks) + 1
       /\ \A i \in DOMAIN blocks : blocks'[i] = blocks[i]
       /\ blocks'[Len(blocks')] = b
       /\ DOMAIN blocks' = DOMAIN blocks \cup {Len(blocks')}
       /\ DOMAIN blocks = 1 .. Len(blocks) /\ Len(blocks) \in Nat
  BY <1>3, <1>6 DEF ArenaInv, ArenaTypeOK
<1>11. BlocksDisjoint'
  <2>1. ASSUME NEW i \in DOMAIN blocks PROVE BlockInChunk(blocks[i])'
    <3>1. BlockInChunk(blocks[i]) /\ blocks[i] \in Block
      BY DEF ArenaInv, ArenaTypeOK, BlocksDisjoint
    <3>2. /\ blocks[i].chunk \in 1 .. Len(chunks') /\ DOMAIN chunks' = 1 .. Len(chunks')
          /\ chunks'[blocks[i].chunk].used >= chunks[blocks[i].chunk].used
      <4>1. blocks[i].chunk \in 1 .. Len(chunks)
        BY <3>1 DEF BlockInChunk
      <4>2. /\ DOMAIN chunks' = 1 .. Len(chunks')
            /\ DOMAIN chunks = 1 .. Len(chunks)
            /\ chunks[blocks[i].chunk].used \in Nat
        <5>1. chunks \in Seq(Chunk) /\ chunks' \in Seq(Chunk)
          BY <1>7 DEF ArenaInv, ArenaTypeOK
        <5>2. chunks[blocks[i].chunk] \in Chunk
          BY <4>1, <5>1
        <5> QED
          BY <1>4, <1>7, <5>1, <5>2 DEF Chunk, Sizes
      <4>3. \A x, y \in Nat : x + y >= x
        BY SMT
      <4>4. m \in Nat
        BY <1>1, <1>4 DEF Sizes
      <4>5. chunks'[blocks[i].chunk].used >= chunks[blocks[i].chunk].used
        <5>1. CASE blocks[i].chunk = c
          <6>1. chunks'[c].used = chunks[c].used + m
            BY <1>8
          <6> QED
            BY <4>2, <4>3, <4>4, <5>1, <6>1
        <5>2. CASE blocks[i].chunk # c
          <6>1. chunks'[blocks[i].chunk] = chunks[blocks[i].chunk]
            BY <1>8, <4>1, <4>2, <5>2
          <6>2. \A x \in Nat : x >= x
            BY SMT
          <6> QED
            BY <4>2, <6>1, <6>2
        <5> QED
          BY <5>1, <5>2
      <4> QED
        BY <1>8, <4>1, <4>2, <4>5
    <3>3. ChunkOK(chunks'[blocks[i].chunk]) /\ chunks'[blocks[i].chunk] \in Chunk
      BY <1>7, <1>9, <3>2 DEF ArenaTypeOK
    <3>4. chunks[blocks[i].chunk] \in Chunk
      BY <1>8, <3>1 DEF BlockInChunk, ArenaInv, ArenaTypeOK
    <3>5. blocks'[i] = blocks[i]
      BY <1>10
    <3>6. blocks[i].start + blocks[i].size <= chunks'[blocks[i].chunk].used
      <4>1. /\ blocks[i].start \in Nat /\ blocks[i].size \in Nat
            /\ chunks[blocks[i].chunk].used \in Nat
            /\ chunks'[blocks[i].chunk].used \in Nat
        BY <1>4, <3>1, <3>3, <3>4 DEF Chunk, Block, Sizes
      <4>2. blocks[i].start + blocks[i].size <= chunks[blocks[i].chunk].used
        BY <3>1 DEF BlockInChunk
      <4>3. \A x, y, z, u \in Nat : x + y <= z /\ u >= z => x + y <= u
        BY SMT
      <4> QED
        BY <3>2, <4>1, <4>2, <4>3
    <3> QED
      BY <3>1, <3>2, <3>3, <3>5, <3>6 DEF BlockInChunk, ChunkOK
  <2>2. b.chunk = c /\ b.start = k.used /\ b.size = n
    BY DEF b
  <2>3. BlockInChunk(blocks[Len(blocks)])'
    <3>1. c \in 1 .. Len(chunks') /\ ChunkOK(chunks'[c])
      BY <1>2, <1>7, <1>8, <1>9 DEF ArenaTypeOK
    <3>2. k.used + n <= k.used + m
      BY <1>1, <1>4, <1>5 DEF Sizes
    <3> QED
      BY <1>2, <1>8, <1>10, <2>2, <3>1, <3>2 DEF BlockInChunk, ChunkOK
  <2>4. ASSUME NEW i \in DOMAIN blocks, blocks[i].chunk = c
        PROVE  blocks[i].start + blocks[i].size <= k.used
    BY <2>4 DEF ArenaInv, BlocksDisjoint, BlockInChunk
  <2>5. \A i, j \in DOMAIN blocks' :
            i < j /\ blocks'[i].chunk = blocks'[j].chunk =>
                blocks'[i].start + blocks'[i].size <= blocks'[j].start
    <3> SUFFICES ASSUME NEW i \in DOMAIN blocks', NEW j \in DOMAIN blocks',
                        i < j, blocks'[i].chunk = blocks'[j].chunk
                 PROVE  blocks'[i].start + blocks'[i].size <= blocks'[j].start
      OBVIOUS
    <3>1. i \in DOMAIN blocks
      BY <1>10
    <3>2. CASE j \in DOMAIN blocks
      BY <1>10, <3>1, <3>2 DEF ArenaInv, BlocksDisjoint
    <3>3. CASE j = Len(blocks')
      BY <1>10, <2>2, <2>4, <3>1, <3>3
    <3> QED
      BY <1>10, <3>2, <3>3
  <2> QED
    BY <1>10, <2>1, <2>3, <2>5 DEF BlocksDisjoint
<1> QED
  BY <1>7, <1>9, <1>10, <1>11 DEF ArenaInv, BlocksKept, b

(* sf_arena_alloc in a new chunk: nothing was handed out from it before.   *)
LEMMA AllocInNewChunkKeepsArena ==
    ASSUME ArenaInv, NEW n \in Sizes, AllocInNewChunk(n)
    PROVE  ArenaInv' /\ BlocksKept /\ blocks'[Len(blocks')].size = n
<1> DEFINE new == Len(chunks) + 1
           m == AlignUp(n)
           size == NewChunkSize(m)
           k == [size |-> size, used |-> m, next |-> 0]
           b == [chunk |-> new, start |-> 0, size |-> n]
<1>1. m \in Sizes /\ m >= n /\ m % Alignment = 0
  BY Rounded DEF AllocInNewChunk
<1>2. SizeMax \in Nat /\ Header \in Nat /\ DefaultChunk \in Sizes
  BY ArenaAssumption DEF Sizes
<1>3. size \in Sizes /\ m <= size /\ size <= SizeMax - Header
  BY <1>1, <1>2 DEF AllocInNewChunk, NewChunkSize, Sizes
<1>4. /\ chunks' = Append(Linked(new), k)
      /\ first' = IF current = 0 THEN new ELSE first
      /\ current' = new /\ live' = live \cup {new}
      /\ blocks' = Append(blocks, b)
  BY DEF AllocInNewChunk
<1>5. k \in Chunk /\ b \in Block
  BY <1>1, <1>2, <1>3 DEF AllocInNewChunk, ArenaInv, ArenaTypeOK, Chunk, Block, Sizes
<1> HIDE DEF m, size
<1>6. ChunkOK(k)
  BY <1>1, <1>3 DEF ChunkOK
<1>7. /\ Linked(new) \in Seq(Chunk) /\ Len(Linked(new)) = Len(chunks)
      /\ \A c \in DOMAIN chunks : /\ Linked(new)[c].used = chunks[c].used
                                  /\ Linked(new)[c].size = chunks[c].size
  <2>1. chunks \in Seq(Chunk) /\ new \in Nat /\ current \in 0 .. Len(chunks)
    BY DEF ArenaInv, ArenaTypeOK
  <2>2. CASE current = 0
    BY <2>1, <2>2 DEF Linked
  <2>3. CASE current # 0
    <3>1. current \in DOMAIN chunks /\ chunks[current] \in Chunk
      BY <2>1, <2>3
    <3>2. /\ [chunks[current] EXCEPT !.next = new] \in Chunk
          /\ [chunks[current] EXCEPT !.next = new].used = chunks[current].used
          /\ [chunks[current] EXCEPT !.next = new].size = chunks[current].size
      BY <2>1, <3>1 DEF Chunk
    <3>3. Linked(new) = [chunks EXCEPT ![current] = [chunks[current] EXCEPT !.next = new]]
      BY <2>3 DEF Linked
    <3> HIDE DEF new
    <3>4. Linked(new) \in Seq(Chunk) /\ Len(Linked(new)) = Len(chunks)
      BY <2>1, <3>1, <3>2, <3>3
    <3>5. ASSUME NEW c \in DOMAIN chunks
          PROVE  /\ Linked(new)[c].used = chunks[c].used
                 /\ Linked(new)[c].size = chunks[c].size
      BY <2>1, <3>1, <3>2, <3>3
    <3> QED
      BY <3>4, <3>5
  <2> QED
    BY <2>2, <2>3
<1>8. /\ chunks' \in Seq(Chunk) /\ Len(chunks') = new
      /\ DOMAIN chunks = 1 .. Len(chunks) /\ Len(chunks) \in Nat
      /\ DOMAIN chunks' = 1 .. new
      /\ chunks'[new] = k
      /\ \A c \in DOMAIN chunks : chunks'[c] = Linked(new)[c]
  <2>1. chunks \in Seq(Chunk)
    BY DEF ArenaInv, ArenaTypeOK
  <2> HIDE DEF k
  <2> QED
    BY <1>4, <1>5, <1>7, <2>1
<1>9. /\ blocks' \in Seq(Block)
      /\ Len(blocks') = Len(blocks) + 1
      /\ \A i \in DOMAIN blocks : blocks'[i] = blocks[i]
      /\ blocks'[Len(blocks')] = b
      /\ DOMAIN blocks' = DOMAIN blocks \cup {Len(blocks')}
  <2> HIDE DEF b
  <2> QED
    BY <1>4, <1>5 DEF ArenaInv, ArenaTypeOK
<1>10. ArenaTypeOK'
  <2>1. Len(chunks') \in Nat /\ new \in 1 .. Len(chunks') /\ Len(chunks) \in Nat
        /\ Len(chunks) < Len(chunks')
    BY <1>8
  <2>2. first \in 0 .. Len(chunks) /\ live \subseteq 1 .. Len(chunks)
    BY DEF ArenaInv, ArenaTypeOK
  <2> HIDE DEF new, k, b
  <2>3. first' \in 0 .. Len(chunks') /\ current' \in 0 .. Len(chunks')
    BY <1>4, <2>1, <2>2
  <2>4. live' \subseteq 1 .. Len(chunks')
    BY <1>4, <2>1, <2>2
  <2> QED
    BY <1>8, <1>9, <2>3, <2>4 DEF ArenaTypeOK
<1>11. ASSUME NEW c \in DOMAIN chunks
       PROVE  /\ chunks'[c].used = chunks[c].used /\ chunks'[c].size = chunks[c].size
              /\ ChunkOK(chunks'[c])
  BY <1>7, <1>8 DEF ArenaInv, ChunkOK
<1>12. \A c \in DOMAIN chunks' : ChunkOK(chunks'[c])
  BY <1>6, <1>8, <1>11
<1>13. BlocksDisjoint'
  <2>1. ASSUME NEW i \in DOMAIN blocks
        PROVE  BlockInChunk(blocks[i])' /\ blocks[i].chunk # new
    <3>1. BlockInChunk(blocks[i]) /\ blocks[i].chunk \in DOMAIN chunks
      BY <1>8 DEF ArenaInv, BlocksDisjoint, BlockInChunk
    <3>2. blocks'[i] = blocks[i] /\ blocks[i].chunk \in 1 .. Len(chunks')
      BY <1>8, <1>9, <3>1
    <3> QED
      BY <1>8, <1>11, <3>1, <3>2 DEF BlockInChunk
  <2>2. b.chunk = new /\ b.start = 0 /\ b.size = n
    OBVIOUS
  <2>3. BlockInChunk(blocks[Len(blocks)])'
    <3>1. k.used = m /\ k.size = size
      OBVIOUS
    <3>2. 0 % Alignment = 0 /\ 0 + n <= m
      BY <1>1, <1>2 DEF Alignment, Sizes
    <3>3. new \in 1 .. Len(chunks')
      BY <1>8
    <3> QED
      BY <1>3, <1>8, <1>9, <2>2, <3>1, <3>2, <3>3 DEF BlockInChunk
  <2>4. \A i, j \in DOMAIN blocks' :
            i < j /\ blocks'[i].chunk = blocks'[j].chunk =>
                blocks'[i].start + blocks'[i].size <= blocks'[j].start
    <3> SUFFICES ASSUME NEW i \in DOMAIN blocks', NEW j \in DOMAIN blocks',
                        i < j, blocks'[i].chunk = blocks'[j].chunk
                 PROVE  blocks'[i].start + blocks'[i].size <= blocks'[j].start
      OBVIOUS
    <3>1. i \in DOMAIN blocks /\ blocks'[i] = blocks[i]
      BY <1>9, <1>10 DEF ArenaInv, ArenaTypeOK
    <3>2. j # Len(blocks')
      BY <1>9, <2>1, <2>2, <3>1
    <3> QED
      BY <1>9, <3>1, <3>2 DEF ArenaInv, BlocksDisjoint
  <2> QED
    BY <1>9, <2>1, <2>3, <2>4 DEF BlocksDisjoint
<1> QED
  BY <1>9, <1>10, <1>12, <1>13 DEF ArenaInv, BlocksKept

(* Both ways of sf_arena_alloc.                                            *)
LEMMA AllocKeepsArena ==
    ASSUME ArenaInv, NEW n \in Sizes, AllocSucceeds(n)
    PROVE  ArenaInv' /\ BlocksKept /\ blocks'[Len(blocks')].size = n
  BY AllocInChunkKeepsArena, AllocInNewChunkKeepsArena DEF AllocSucceeds

-----------------------------------------------------------------------------
(* Growing an array makes it larger, and its size in bytes does not wrap:  *)
(* doubling cannot wrap because an element has at least two bytes and the  *)
(* old array is a block already.                                           *)
LEMMA GrownFits ==
    ASSUME IInv, NEW v \in Arrays, CapacityFits(v, GrownCapacity(arrays[v]))
    PROVE  LET capacity == GrownCapacity(arrays[v])
           IN  /\ capacity \in Sizes
               /\ capacity > arrays[v].capacity
               /\ Bytes(v, capacity) = capacity * ElemSize[v]
               /\ Bytes(v, capacity) \in Sizes
<1> DEFINE a == arrays[v]
           E == ElemSize[v]
           capacity == GrownCapacity(a)
<1>1. SizeMax \in Nat /\ E \in Nat /\ E >= 2 /\ FirstCapacity \in Sizes /\ FirstCapacity > 0
  BY ArenaAssumption DEF Sizes
<1>2. a \in Array /\ a.capacity \in Nat /\ a.capacity \in Sizes
  BY <1>1 DEF IInv, TypeOK, Array, Sizes
<1>3. capacity \in Sizes /\ capacity > a.capacity
  <2>1. CASE a.capacity = 0
    BY <1>1, <2>1 DEF GrownCapacity, Sizes
  <2>2. CASE a.capacity # 0
    <3>1. a.items \in DOMAIN blocks /\ blocks[a.items].size = a.capacity * E
      BY <2>2 DEF IInv, ArraysFit
    <3>2. blocks[a.items].size \in Sizes
      <4>1. blocks \in Seq(Block)
        BY DEF IInv, TypeOK
      <4>2. blocks[a.items] \in Block
        BY <3>1, <4>1
      <4> QED
        BY <4>2 DEF Block
    <3>3. \A x, y \in Nat : y >= 2 => x * 2 <= x * y /\ x * y \in Nat
      BY SMT
    <3>4. a.capacity * 2 <= a.capacity * E /\ a.capacity * E <= SizeMax
      BY <1>1, <1>2, <3>1, <3>2, <3>3 DEF Sizes
    <3>5. a.capacity * 2 \in Sizes
      <4>1. \A x, y, z \in Nat : x * 2 <= y /\ y <= z => x * 2 \in 0 .. z
        BY SMT
      <4>2. a.capacity * E \in Nat
        BY <1>1, <1>2, <3>3
      <4> HIDE DEF a, E
      <4> QED
        BY <1>1, <1>2, <3>4, <4>1, <4>2 DEF Sizes
    <3>6. capacity = a.capacity * 2
      BY <2>2, <3>5, NoWrap DEF GrownCapacity
    <3> QED
      BY <1>2, <2>2, <3>5, <3>6
  <2> QED
    BY <2>1, <2>2
<1>4. capacity * E \in Sizes
  <2>1. capacity <= SizeMax \div E
    BY DEF CapacityFits
  <2>2. \A x, y, z \in Nat : y >= 2 /\ x <= z \div y => x * y \in 0 .. z
    <3> SUFFICES ASSUME NEW x \in Nat, NEW y \in Nat, NEW z \in Nat,
                        y >= 2, x <= z \div y
                 PROVE  x * y \in 0 .. z
      OBVIOUS
    <3>1. z \div y \in Nat /\ (z \div y) * y <= z
      BY SMT
    <3>2. x * y <= (z \div y) * y
      BY <3>1, SMT
    <3> QED
      BY <3>1, <3>2, SMT
  <2>3. capacity \in Nat
    BY <1>1, <1>3 DEF Sizes
  <2> HIDE DEF capacity, E
  <2> QED
    BY <1>1, <2>1, <2>2, <2>3 DEF Sizes
<1>5. Bytes(v, capacity) = capacity * E
  BY <1>4, NoWrap DEF Bytes
<1> QED
  BY <1>3, <1>4, <1>5

(* Arrays that are left alone still fit.                                   *)
LEMMA OtherArraysFit ==
    ASSUME IInv, BlocksKept, ArenaInv', NEW v \in Arrays, arrays'[v] = arrays[v]
    PROVE  LET a == arrays'[v]
           IN  /\ a.count <= a.capacity
               /\ a.kept = a.count
               /\ a.capacity # 0 => /\ a.items \in DOMAIN blocks'
                                    /\ blocks'[a.items].size = a.capacity * ElemSize[v]
<1>1. DOMAIN blocks \subseteq DOMAIN blocks'
  BY DEF IInv, TypeOK, ArenaInv, ArenaTypeOK, BlocksKept
<1> QED
  BY <1>1 DEF IInv, ArraysFit, BlocksKept

(* The arena alone is unchanged.                                           *)
LEMMA SameArena == ASSUME ArenaInv, UNCHANGED arenaVars PROVE ArenaInv'
  BY DEF arenaVars, ArenaInv, ArenaTypeOK, ChunkOK, BlocksDisjoint, BlockInChunk

LEMMA SameArrays ==
    ASSUME IInv, UNCHANGED arenaVars, UNCHANGED arrays PROVE ArraysFit'
  BY DEF IInv, arenaVars, ArraysFit

LEMMA TypeOKParts == TypeOK <=> ArenaTypeOK /\ ArraysTypeOK
  BY DEF TypeOK, ArenaTypeOK, ArraysTypeOK

(* An element is stored behind the others.                                 *)
LEMMA StoredProperties ==
    ASSUME NEW a \in Array, a.kept = a.count
    PROVE  /\ Stored(a) \in Array
           /\ Stored(a).items = a.items /\ Stored(a).capacity = a.capacity
           /\ Stored(a).count = a.count + 1 /\ Stored(a).kept = a.count + 1
<1>1. /\ a.count \in Nat /\ a.count + 1 \in Nat
      /\ DOMAIN a = {"items", "count", "capacity", "kept"}
  BY DEF Array
<1>2. Stored(a) = [[a EXCEPT !.count = a.count + 1] EXCEPT !.kept = a.count + 1]
  BY <1>1 DEF Stored, Array
<1> QED
  BY <1>1, <1>2 DEF Array

-----------------------------------------------------------------------------
LEMMA InitIInv == Init => IInv
<1> SUFFICES ASSUME Init PROVE IInv
  OBVIOUS
<1>1. TypeOK
  <2>1. SizeMax \in Nat
    BY ArenaAssumption
  <2>2. [items |-> 0, count |-> 0, capacity |-> 0, kept |-> 0] \in Array
    BY <2>1 DEF Array, Sizes
  <2>3. ArraysTypeOK
    BY <2>2 DEF Init, ArraysTypeOK
  <2>4. ArenaTypeOK
    <3>1. chunks \in Seq(Chunk) /\ blocks \in Seq(Block) /\ Len(chunks) = 0
      BY DEF Init
    <3> QED
      BY <3>1 DEF Init, ArenaTypeOK
  <2> QED
    BY <2>3, <2>4, TypeOKParts
<1>2. ArenaInv
  BY <1>1, TypeOKParts DEF Init, ArenaInv, BlocksDisjoint
<1>3. ArraysFit
  BY DEF Init, ArraysFit
<1>4. NothingDropped
  BY DEF Init, NothingDropped
<1> QED
  BY <1>1, <1>2, <1>3, <1>4 DEF IInv

LEMMA AllocIInv ==
    ASSUME IInv, NEW n \in Requests, Alloc(n) PROVE IInv'
<1>1. n \in Sizes
  BY ArenaAssumption DEF Sizes
<1>2. UNCHANGED <<arrays, asked, fatal, released>>
  BY DEF Alloc
<1>3. ArenaInv' /\ ArraysFit'
  <2>1. CASE AllocSucceeds(n)
    <3>1. ArenaInv' /\ BlocksKept
      BY <1>1, <2>1, AllocKeepsArena DEF IInv
    <3>2. \A v \in Arrays : arrays'[v] = arrays[v]
      BY <1>2
    <3> QED
      BY <3>1, <3>2, OtherArraysFit DEF ArraysFit
  <2>2. CASE AllocFails(n)
    BY <1>2, <2>2, SameArena, SameArrays DEF AllocFails, IInv
  <2> QED
    BY <2>1, <2>2 DEF Alloc
<1>4. TypeOK'
  BY <1>2, <1>3, TypeOKParts DEF IInv, ArenaInv, ArraysTypeOK, TypeOK, ArenaTypeOK
<1>5. NothingDropped'
  BY <1>2 DEF IInv, NothingDropped
<1> QED
  BY <1>3, <1>4, <1>5 DEF IInv

LEMMA AppendInPlaceIInv ==
    ASSUME IInv, NEW v \in Arrays, AppendInPlace(v) PROVE IInv'
<1> DEFINE a == arrays[v]
<1>1. /\ UNCHANGED arenaVars /\ UNCHANGED <<fatal, released>>
      /\ asked' = [asked EXCEPT ![v] = asked[v] + 1]
      /\ arrays' = [arrays EXCEPT ![v] = Stored(a)]
      /\ a.count < a.capacity
  BY DEF AppendInPlace
<1>2. a \in Array /\ a.kept = a.count
  BY DEF IInv, TypeOK, ArraysFit
<1>3. /\ Stored(a) \in Array
      /\ Stored(a).items = a.items /\ Stored(a).capacity = a.capacity
      /\ Stored(a).count = a.count + 1 /\ Stored(a).kept = a.count + 1
  BY <1>2, StoredProperties
<1>4. ArenaInv'
  BY <1>1, SameArena DEF IInv
<1>5. /\ arrays'[v] = Stored(a) /\ asked'[v] = asked[v] + 1
      /\ \A w \in Arrays : w # v => arrays'[w] = arrays[w] /\ asked'[w] = asked[w]
  BY <1>1 DEF IInv, TypeOK
<1>6. TypeOK'
  <2>1. asked[v] + 1 \in Nat
    BY DEF IInv, TypeOK
  <2>2. ArraysTypeOK'
    BY <1>1, <1>3, <2>1 DEF IInv, TypeOK, ArraysTypeOK
  <2> QED
    BY <1>4, <2>2, TypeOKParts DEF ArenaInv, TypeOK, ArenaTypeOK, ArraysTypeOK
<1>7. ArraysFit'
  <2>1. a.count + 1 <= a.capacity
    <3>1. SizeMax \in Nat
      BY ArenaAssumption
    <3> QED
      BY <1>1, <1>2, <3>1 DEF Array, Sizes
  <2>2. blocks' = blocks
    BY <1>1 DEF arenaVars
  <2> HIDE DEF a
  <2> QED
    BY <1>3, <1>5, <2>1, <2>2 DEF IInv, ArraysFit, a
<1>8. NothingDropped'
  BY <1>1, <1>3, <1>5 DEF IInv, NothingDropped
<1> QED
  BY <1>4, <1>6, <1>7, <1>8 DEF IInv

LEMMA AppendGrownIInv ==
    ASSUME IInv, NEW v \in Arrays, AppendGrown(v) PROVE IInv'
<1> DEFINE a == arrays[v]
           capacity == GrownCapacity(a)
           copied == IF a.kept < capacity THEN a.kept ELSE capacity
           grown == [a EXCEPT !.items = Len(blocks) + 1, !.capacity = capacity,
                              !.kept = copied]
           bytes == Bytes(v, capacity)
<1>1. a \in Array /\ a.kept = a.count /\ a.count <= a.capacity
  BY DEF IInv, TypeOK, ArraysFit
<1>2. asked' = [asked EXCEPT ![v] = asked[v] + 1] /\ released' = released
  BY DEF AppendGrown
<1>3. asked' \in [Arrays -> Nat]
  BY <1>2 DEF IInv, TypeOK
<1>4. CASE /\ CapacityFits(v, capacity) => AllocFails(bytes)
           /\ LogInsufficientMemory
           /\ UNCHANGED <<arenaVars, arrays>>
  <2>1. UNCHANGED arenaVars /\ arrays' = arrays /\ fatal'
    BY <1>4 DEF LogInsufficientMemory
  <2>2. ArenaInv' /\ ArraysFit'
    BY <2>1, SameArena, SameArrays DEF IInv
  <2>3. TypeOK'
    <3>1. ArraysTypeOK'
      BY <1>2, <1>3, <1>4 DEF IInv, TypeOK, ArraysTypeOK, LogInsufficientMemory
    <3> QED
      BY <2>2, <3>1 DEF ArenaInv, TypeOK, ArenaTypeOK, ArraysTypeOK
  <2> QED
    BY <2>1, <2>2, <2>3 DEF IInv, NothingDropped
<1>5. CASE /\ CapacityFits(v, capacity)
           /\ AllocSucceeds(bytes)
           /\ arrays' = [arrays EXCEPT ![v] = Stored(grown)]
           /\ UNCHANGED fatal
  <2>1. /\ capacity \in Sizes /\ capacity > a.capacity
        /\ bytes = capacity * ElemSize[v] /\ bytes \in Sizes
    BY <1>5, GrownFits
  <2>2. ArenaInv' /\ BlocksKept /\ blocks'[Len(blocks')].size = bytes
    BY <1>5, <2>1, AllocKeepsArena DEF IInv
  <2>3. Len(blocks) \in Nat /\ SizeMax \in Nat
    BY ArenaAssumption DEF IInv, TypeOK
  <2> HIDE DEF a, capacity, bytes
  <2>4. a.count < capacity /\ copied = a.count
    BY <1>1, <2>1, <2>3 DEF Array, Sizes
  <2>5. /\ grown \in Array /\ grown.items = Len(blocks) + 1
        /\ grown.count = a.count /\ grown.capacity = capacity /\ grown.kept = a.count
    <3>1. /\ Len(blocks) + 1 \in Nat /\ a.count \in Nat
          /\ DOMAIN a = {"items", "count", "capacity", "kept"}
      BY <1>1, <2>3 DEF Array
    <3> HIDE DEF copied
    <3>2. /\ grown.items = Len(blocks) + 1 /\ grown.count = a.count
          /\ grown.capacity = capacity /\ grown.kept = a.count
      BY <2>4, <3>1
    <3>3. grown \in Array
      <4>1. copied \in Nat
        BY <2>4, <3>1
      <4>2. \A x \in Array, i, n \in Nat, c \in Sizes :
                [x EXCEPT !.items = i, !.capacity = c, !.kept = n] \in Array
        BY DEF Array
      <4> QED
        BY <1>1, <2>1, <3>1, <4>1, <4>2
    <3> QED
      BY <3>2, <3>3
  <2> HIDE DEF grown
  <2>6. /\ Stored(grown) \in Array
        /\ Stored(grown).items = Len(blocks) + 1 /\ Stored(grown).capacity = capacity
        /\ Stored(grown).count = a.count + 1 /\ Stored(grown).kept = a.count + 1
    BY <2>5, StoredProperties
  <2>7. /\ arrays'[v] = Stored(grown) /\ asked'[v] = asked[v] + 1
        /\ \A w \in Arrays : w # v => arrays'[w] = arrays[w] /\ asked'[w] = asked[w]
    BY <1>2, <1>5 DEF IInv, TypeOK
  <2>8. TypeOK'
    <3>1. ArraysTypeOK'
      BY <1>2, <1>3, <1>5, <2>6 DEF IInv, TypeOK, ArraysTypeOK
    <3> QED
      BY <2>2, <3>1 DEF ArenaInv, TypeOK, ArenaTypeOK, ArraysTypeOK
  <2>9. ArraysFit'
    <3>1. Len(blocks) + 1 \in DOMAIN blocks' /\ Len(blocks') = Len(blocks) + 1
      BY <2>2, <2>3 DEF BlocksKept, ArenaInv, ArenaTypeOK
    <3>2. a.count + 1 <= capacity
      BY <1>1, <2>1, <2>3, <2>4 DEF Array, Sizes
    <3>3. \A w \in Arrays : w # v => arrays'[w] = arrays[w]
      BY <2>7
    <3> QED
      BY <2>1, <2>2, <2>6, <2>7, <3>1, <3>2, <3>3, OtherArraysFit DEF ArraysFit
  <2>10. NothingDropped'
    <3>1. fatal' = fatal /\ arrays'[v].count = a.count + 1 /\ a = arrays[v]
      BY <1>5, <2>6, <2>7 DEF a
    <3> QED
      BY <2>7, <3>1 DEF IInv, NothingDropped
  <2> QED
    BY <2>2, <2>8, <2>9, <2>10 DEF IInv
<1> QED
  BY <1>4, <1>5 DEF AppendGrown

LEMMA FreeIInv == ASSUME IInv, Free PROVE IInv'
<1>1. /\ UNCHANGED <<chunks, blocks, arrays, asked, fatal>>
      /\ first' = 0 /\ current' = 0 /\ live' \subseteq live /\ released' = TRUE
  BY DEF Free
<1>2. Len(chunks) \in Nat
  BY DEF IInv, TypeOK
<1>3. TypeOK'
  BY <1>1, <1>2 DEF IInv, TypeOK
<1>4. ArenaInv'
  BY <1>1, <1>3 DEF IInv, TypeOK, ArenaInv, ArenaTypeOK, ChunkOK, BlocksDisjoint, BlockInChunk
<1>5. ArraysFit' /\ NothingDropped'
  BY <1>1 DEF IInv, ArraysFit, NothingDropped
<1> QED
  BY <1>3, <1>4, <1>5 DEF IInv

-----------------------------------------------------------------------------
(* IInv holds in every reachable state, however malloc behaves.            *)
THEOREM ArenaSafety == Spec => []IInv
<1>1. Init => IInv
  BY InitIInv
<1>2. IInv /\ [Next]_vars => IInv'
  <2> SUFFICES ASSUME IInv, [Next]_vars PROVE IInv'
    OBVIOUS
  <2>1. ASSUME NEW n \in Requests, Alloc(n) PROVE IInv'
    BY <2>1, AllocIInv
  <2>2. ASSUME NEW v \in Arrays, AppendInPlace(v) PROVE IInv'
    BY <2>2, AppendInPlaceIInv
  <2>3. ASSUME NEW v \in Arrays, AppendGrown(v) PROVE IInv'
    BY <2>3, AppendGrownIInv
  <2>4. CASE Free
    BY <2>4, FreeIInv
  <2>5. CASE UNCHANGED vars
    <3>1. ArenaInv' /\ ArraysFit' /\ NothingDropped'
      BY <2>5, SameArena, SameArrays DEF vars, IInv, NothingDropped
    <3>2. TypeOK'
      BY <2>5 DEF vars, arenaVars, IInv, TypeOK
    <3> QED
      BY <3>1, <3>2 DEF IInv
  <2> QED
    BY <2>1, <2>2, <2>3, <2>4, <2>5 DEF Next, Released
<1> QED
  BY <1>1, <1>2, PTL DEF Spec

(* Chunk arithmetic never wraps and indices stay in range.                 *)
THEOREM TypeCorrect == Spec => []TypeOK
BY ArenaSafety, PTL DEF IInv

(* sf_arena_alloc never hands out the same memory twice.                   *)
THEOREM NoOverlap == Spec => []BlocksDisjoint
<1>1. IInv => BlocksDisjoint
  BY DEF IInv, ArenaInv
<1> QED
  BY <1>1, ArenaSafety, PTL

(* sf_arena_grow_one never returns an array too small for its elements.    *)
THEOREM NoOverrun == Spec => []ArraysFit
BY ArenaSafety, PTL DEF IInv

(* An element that sf_arena_grow_one had no room for is reported.          *)
THEOREM NoSilentDrop == Spec => []NothingDropped
BY ArenaSafety, PTL DEF IInv

-----------------------------------------------------------------------------
(* The list of chunks goes through all of them, in the order in which      *)
(* malloc returned them.                                                   *)
Chained ==
    /\ live = IF released THEN {} ELSE 1 .. Len(chunks)
    /\ ~released => /\ first = IF Len(chunks) = 0 THEN 0 ELSE 1
                    /\ current = Len(chunks)
    /\ \A c \in 1 .. Len(chunks) :
           chunks[c].next = IF c < Len(chunks) THEN c + 1 ELSE 0

(* A set of positions that is not all of them leaves out a first one.      *)
LEMMA FirstLeftOut ==
    ASSUME NEW n \in Nat, NEW S \in SUBSET (1 .. n), NEW c \in 1 .. n, c \notin S
    PROVE  \E m \in (1 .. n) \ S : \A k \in (1 .. n) \ S : m <= k
<1> DEFINE T == (1 .. n) \ S
           R == OpToRel(<, Nat)
<1>1. T \subseteq Nat /\ T # {}
  OBVIOUS
<1>2. IsWellFoundedOn(R, Nat)
  BY NatLessThanWellFounded
<1>3. \A i, j \in Nat : i < j => <<i, j>> \in R
  BY DEF OpToRel
<1> HIDE DEF R, T
<1>4. \E m \in T : \A k \in T : ~(<<k, m>> \in R)
  BY <1>1, <1>2, WFMin
<1>5. \E m \in T : \A k \in T : ~(k < m)
  BY <1>1, <1>3, <1>4
<1>6. \E m \in T : \A k \in T : m <= k
  BY <1>1, <1>5
<1> QED
  BY <1>6 DEF T

(* sf_arena_free meets every chunk that malloc ever returned.              *)
LEMMA ChainIsAll ==
    ASSUME TypeOK, Chained, ~released
    PROVE  Chain = 1 .. Len(chunks)
<1> DEFINE n == Len(chunks)
<1>1. n \in Nat
  BY DEF TypeOK
<1>2. ASSUME NEW S \in SUBSET (1 .. n), NEW c \in 1 .. n, c \notin S,
             first # 0 => first \in S,
             \A d \in S : chunks[d].next # 0 => chunks[d].next \in S
      PROVE  FALSE
  <2>1. PICK m \in (1 .. n) \ S : \A k \in (1 .. n) \ S : m <= k
    BY <1>1, <1>2, FirstLeftOut
  <2>2. first = 1
    BY <1>1, <2>1 DEF Chained
  <2>3. m # 1
    BY <1>2, <2>1, <2>2
  <2>4. m - 1 \in 1 .. n /\ m - 1 < n /\ ~(m <= m - 1)
    BY <1>1, <2>1, <2>3
  <2>5. m - 1 \in S
    BY <2>1, <2>4
  <2>6. chunks[m - 1].next = m /\ m # 0
    <3>1. chunks[m - 1].next = (m - 1) + 1
      BY <2>4 DEF Chained
    <3> QED
      BY <2>1, <3>1
  <2> QED
    BY <1>2, <2>1, <2>5, <2>6
<1> QED
  BY <1>2 DEF Chain

LEMMA AllocInChunkKeepsChain ==
    ASSUME TypeOK, Chained, NEW n \in Sizes, AllocInChunk(n), UNCHANGED released
    PROVE  Chained'
<1> DEFINE k == [chunks[current] EXCEPT !.used = @ + AlignUp(n)]
<1>1. /\ chunks \in Seq(Chunk) /\ Len(chunks) \in Nat
      /\ current \in DOMAIN chunks /\ chunks[current] \in Chunk
  BY DEF TypeOK, AllocInChunk, HasSpace
<1>2. /\ chunks' = [chunks EXCEPT ![current] = k]
      /\ UNCHANGED <<first, current, live>>
  BY DEF AllocInChunk
<1>3. k.next = chunks[current].next
  BY <1>1 DEF Chunk
<1> HIDE DEF k
<1>4. /\ Len(chunks') = Len(chunks)
      /\ \A c \in 1 .. Len(chunks) : chunks'[c].next = chunks[c].next
  BY <1>1, <1>2, <1>3
<1> QED
  BY <1>2, <1>4 DEF Chained

LEMMA AllocInNewChunkKeepsChain ==
    ASSUME TypeOK, Chained, ~released, NEW n, AllocInNewChunk(n), UNCHANGED released
    PROVE  Chained'
<1> DEFINE new == Len(chunks) + 1
           k == [size |-> NewChunkSize(AlignUp(n)), used |-> AlignUp(n), next |-> 0]
<1>1. chunks \in Seq(Chunk) /\ Len(chunks) \in Nat /\ DOMAIN chunks = 1 .. Len(chunks)
  BY DEF TypeOK
<1>2. /\ chunks' = Append(Linked(new), k)
      /\ first' = IF current = 0 THEN new ELSE first
      /\ current' = new /\ live' = live \cup {new}
  BY DEF AllocInNewChunk
<1>3. current = Len(chunks) /\ k.next = 0
  BY DEF Chained
<1> HIDE DEF k
<1>4. /\ Len(Linked(new)) = Len(chunks) /\ DOMAIN Linked(new) = 1 .. Len(chunks)
      /\ \A c \in 1 .. Len(chunks) : Linked(new)[c].next = c + 1
      /\ \E X : Linked(new) \in Seq(X)
  <2>1. CASE current = 0
    BY <1>1, <1>3, <2>1 DEF Linked
  <2>2. CASE current # 0
    <3> DEFINE l == [chunks[current] EXCEPT !.next = new]
    <3>1. /\ current \in 1 .. Len(chunks) /\ chunks[current] \in Chunk
      BY <1>1, <1>3, <2>2
    <3>2. l \in Chunk /\ l.next = new
      BY <1>1, <3>1 DEF Chunk
    <3>3. Linked(new) = [chunks EXCEPT ![current] = l]
      BY <2>2 DEF Linked
    <3> DEFINE r == Linked(new)
    <3> HIDE DEF l, new
    <3>4. /\ r \in Seq(Chunk) /\ Len(r) = Len(chunks)
          /\ \A c \in 1 .. Len(chunks) : r[c] = IF c = current THEN l ELSE chunks[c]
      <4>1. Linked(new) \in Seq(Chunk) /\ Len(Linked(new)) = Len(chunks)
        BY <1>1, <3>1, <3>2, <3>3
      <4>2. ASSUME NEW c \in 1 .. Len(chunks)
            PROVE  Linked(new)[c] = IF c = current THEN l ELSE chunks[c]
        BY <1>1, <3>1, <3>2, <3>3
      <4> QED
        BY <4>1, <4>2
    <3> HIDE DEF r
    <3>5. DOMAIN r = 1 .. Len(chunks)
      BY <1>1, <3>4
    <3>6. ASSUME NEW c \in 1 .. Len(chunks) PROVE r[c].next = c + 1
      <4>1. CASE c = current
        BY <1>1, <1>3, <3>1, <3>2, <3>4, <4>1 DEF new
      <4>2. CASE c # current
        <5>1. r[c] = chunks[c]
          BY <3>4, <4>2
        <5>2. c < Len(chunks)
          <6>1. c # Len(chunks) /\ Len(chunks) \in Nat
            BY <1>1, <1>3, <4>2, Zenon
          <6> QED
            BY <6>1
        <5> QED
          BY <5>1, <5>2 DEF Chained
      <4> QED
        BY <4>1, <4>2
    <3> QED
      BY <3>4, <3>5, <3>6 DEF r
  <2> QED
    BY <2>1, <2>2
<1>5. /\ Len(chunks') = new
      /\ \A c \in 1 .. Len(chunks) : chunks'[c].next = c + 1
      /\ chunks'[new].next = 0
  <2>1. PICK X : Linked(new) \in Seq(X)
    BY <1>4
  <2> QED
    BY <1>1, <1>2, <1>3, <1>4, <2>1
<1>6. first' = 1
  BY <1>1, <1>2, <1>3 DEF Chained
<1>7. live' = 1 .. new
  <2>1. live = 1 .. Len(chunks)
    BY DEF Chained
  <2> QED
    BY <1>1, <1>2, <2>1
<1>8. \A c \in 1 .. new : chunks'[c].next = IF c < new THEN c + 1 ELSE 0
  <2> SUFFICES ASSUME NEW c \in 1 .. new
               PROVE  chunks'[c].next = IF c < new THEN c + 1 ELSE 0
    OBVIOUS
  <2>1. CASE c = new
    BY <1>1, <1>5, <2>1
  <2>2. CASE c # new
    BY <1>1, <1>5, <2>2
  <2> QED
    BY <2>1, <2>2
<1> QED
  BY <1>1, <1>2, <1>5, <1>6, <1>7, <1>8 DEF Chained

LEMMA ChainStep ==
    ASSUME IInv, Chained, [Next]_vars
    PROVE  Chained'
<1>1. TypeOK
  BY DEF IInv
<1>2. ASSUME UNCHANGED <<chunks, first, current, live, released>> PROVE Chained'
  BY <1>2 DEF Chained
<1>3. ASSUME NEW n \in Sizes, AllocSucceeds(n), ~released, UNCHANGED released
      PROVE  Chained'
  BY <1>1, <1>3, AllocInChunkKeepsChain, AllocInNewChunkKeepsChain DEF AllocSucceeds
<1>4. ASSUME NEW n, AllocFails(n), UNCHANGED released PROVE Chained'
  BY <1>2, <1>4 DEF AllocFails, arenaVars
<1>5. ASSUME NEW n \in Requests, Alloc(n) PROVE Chained'
  <2>1. n \in Sizes
    BY ArenaAssumption DEF Sizes
  <2> QED
    BY <1>3, <1>4, <1>5, <2>1 DEF Alloc, InUse
<1>6. ASSUME NEW v \in Arrays, AppendInPlace(v) PROVE Chained'
  BY <1>2, <1>6 DEF AppendInPlace, arenaVars
<1>7. ASSUME NEW v \in Arrays, AppendGrown(v) PROVE Chained'
  <2> DEFINE n == Bytes(v, GrownCapacity(arrays[v]))
  <2>1. /\ ~released /\ UNCHANGED released
        /\ \/ CapacityFits(v, GrownCapacity(arrays[v])) /\ AllocSucceeds(n)
           \/ UNCHANGED arenaVars
    BY <1>7 DEF AppendGrown, InUse
  <2>2. CapacityFits(v, GrownCapacity(arrays[v])) => n \in Sizes
    BY <1>1, <1>7, GrownFits
  <2> HIDE DEF n
  <2> QED
    BY <1>2, <1>3, <2>1, <2>2 DEF arenaVars
<1>8. CASE Free
  <2>1. ~released /\ released' = TRUE /\ live' = live \ Chain /\ chunks' = chunks
    BY <1>8 DEF Free, InUse
  <2>2. live = Chain
    BY <1>1, <2>1, ChainIsAll DEF Chained
  <2> QED
    BY <2>1, <2>2 DEF Chained
<1>9. CASE UNCHANGED vars
  BY <1>2, <1>9 DEF vars, arenaVars
<1> QED
  BY <1>5, <1>6, <1>7, <1>8, <1>9 DEF Next, Released

(* compilation_free gives every chunk back to the system, and until then   *)
(* none is lost from the list that sf_arena_free walks.                    *)
THEOREM NoLeak == Spec => []NothingLeaks
<1>1. Init => Chained
  <2>1. Len(<<>>) = 0
    OBVIOUS
  <2> QED
    BY <2>1 DEF Init, Chained
<1>2. IInv /\ Chained /\ [Next]_vars => Chained'
  BY ChainStep
<1>3. IInv /\ Chained => NothingLeaks
  BY ChainIsAll DEF IInv, Chained, NothingLeaks
<1> QED
  BY <1>1, <1>2, <1>3, ArenaSafety, PTL DEF Spec

=============================================================================
