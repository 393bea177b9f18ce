--------------------------------- MODULE Arena ---------------------------------
(***************************************************************************)
(* The arena allocator (arena.c) and the arrays that grow in it: syntax    *)
(* tree nodes, module lists and operations all live in one arena until     *)
(* compilation_free releases it.  A block, once handed out, is never moved *)
(* nor reused; an array that is full gets a new block, twice as large.     *)
(***************************************************************************)
EXTENDS Naturals, Sequences, FiniteSets

CONSTANTS
    Arrays,         \* arrays grown with sf_arena_grow_one
    ElemSize,       \* the size of an element of each
    Requests,       \* sizes asked of sf_arena_alloc directly
    SizeMax,        \* SIZE_MAX
    Header,         \* sizeof(sf_arena_chunk)
    DefaultChunk,   \* default_chunk_size
    FirstCapacity,  \* of an array; 8 in the code
    MaxBlocks,      \* bound: blocks handed out
    MaxAppends      \* bound: elements appended to one array

Alignment == 8

ASSUME ArenaAssumption ==
    /\ SizeMax \in Nat /\ Header \in Nat /\ SizeMax > Header
    /\ SizeMax >= Alignment
    /\ DefaultChunk \in 0 .. SizeMax /\ FirstCapacity \in 1 .. SizeMax
    /\ ElemSize \in [Arrays -> 2 .. SizeMax]
    /\ Requests \subseteq 0 .. SizeMax
    /\ MaxBlocks \in Nat /\ MaxAppends \in Nat

VARIABLES
    chunks,   \* every chunk malloc returned; a chunk is known by its number
    first,    \* arena->first and arena->current, or 0 for NULL
    current,
    live,     \* the chunks not yet given to free
    blocks,   \* the blocks handed out, oldest first
    arrays,   \* for each array its items (a block, or 0), count and capacity,
              \* and how many of the elements it holds were copied correctly
    asked,    \* elements that were to be appended to each array
    fatal,    \* the log has a fatal
    released  \* compilation_free has run

arenaVars == <<chunks, first, current, live, blocks>>
vars == <<arenaVars, arrays, asked, fatal, released>>

Sizes == 0 .. SizeMax

Chunk == [size : Sizes, used : Sizes, next : Nat]
Block == [chunk : Nat, start : Sizes, size : Sizes]
Array == [items : Nat, count : Nat, capacity : Sizes, kept : Nat]

TypeOK ==
    /\ chunks \in Seq(Chunk)
    /\ first \in 0 .. Len(chunks)
    /\ current \in 0 .. Len(chunks)
    /\ live \subseteq 1 .. Len(chunks)
    /\ blocks \in Seq(Block)
    /\ arrays \in [Arrays -> Array]
    /\ asked \in [Arrays -> Nat]
    /\ fatal \in BOOLEAN
    /\ released \in BOOLEAN

(* sf_arena_init, and arrays that are zeroed structures. *)
Init ==
    /\ chunks = <<>>
    /\ first = 0
    /\ current = 0
    /\ live = {}
    /\ blocks = <<>>
    /\ arrays = [v \in Arrays |-> [items |-> 0, count |-> 0, capacity |-> 0, kept |-> 0]]
    /\ asked = [v \in Arrays |-> 0]
    /\ fatal = FALSE
    /\ released = FALSE

-----------------------------------------------------------------------------
Wrapped(n) == n % (SizeMax + 1)

(* Mutant: no size is too large to be rounded up. *)
AlignUpNeverOverflows(n) == FALSE

AlignUpOverflows(n) == n > SizeMax - (Alignment - 1)

(* Mutant: the block takes what was asked for, unrounded. *)
NotAligned(n) == n

AlignUp(n) ==
    LET m == Wrapped(n + (Alignment - 1)) IN m - (m % Alignment)

(* Mutant: what the chunk holds already is not counted. *)
HasSize(n) == current # 0 /\ chunks[current].size >= n

HasSpace(n) ==
    /\ current # 0
    /\ chunks[current].size - chunks[current].used >= n

NewChunkSize(n) == IF n > DefaultChunk THEN n ELSE DefaultChunk

(* sf_arena_alloc where the current chunk has room. *)
AllocInChunk(n) ==
    /\ ~AlignUpOverflows(n)
    /\ HasSpace(AlignUp(n))
    /\ chunks' = [chunks EXCEPT ![current].used = @ + AlignUp(n)]
    /\ blocks' = Append(blocks, [chunk |-> current, start |-> chunks[current].used,
                                 size |-> n])
    /\ UNCHANGED <<first, current, live>>

(* Mutant: the new chunk always becomes the first of the list. *)
LinkedFirst(new) == chunks

(* The list of chunks with a new one behind the current one. *)
Linked(new) ==
    IF current = 0 THEN chunks ELSE [chunks EXCEPT ![current].next = new]

(* sf_arena_alloc with a new chunk (arena_ensure_space, arena_chunk_new). *)
AllocInNewChunk(n) ==
    LET new == Len(chunks) + 1
        size == NewChunkSize(AlignUp(n))
    IN  /\ ~AlignUpOverflows(n)
        /\ ~HasSpace(AlignUp(n))
        /\ size <= SizeMax - Header
        /\ chunks' = Append(Linked(new),
                            [size |-> size, used |-> AlignUp(n), next |-> 0])
        /\ first' = IF current = 0 THEN new ELSE first
        /\ current' = new
        /\ live' = live \cup {new}
        /\ blocks' = Append(blocks, [chunk |-> new, start |-> 0, size |-> n])

AllocSucceeds(n) == AllocInChunk(n) \/ AllocInNewChunk(n)

(* A new chunk may be too large, and malloc may fail at any time. *)
AllocFails(n) ==
    /\ \/ AlignUpOverflows(n)
       \/ ~HasSpace(AlignUp(n))
    /\ UNCHANGED arenaVars

InUse == ~released

Bounded == Len(blocks) < MaxBlocks

(* A node of the syntax tree, a name.  A failure is left to the caller. *)
Alloc(n) ==
    /\ InUse
    /\ Bounded
    /\ AllocSucceeds(n) \/ AllocFails(n)
    /\ UNCHANGED <<arrays, asked, fatal, released>>

-----------------------------------------------------------------------------
(* sf_arena_grow_one and the store that follows it in every caller. *)
Stored(a) ==
    [a EXCEPT !.count = @ + 1, !.kept = IF @ = a.count THEN @ + 1 ELSE @]

AppendInPlace(v) ==
    /\ InUse
    /\ arrays[v].count < arrays[v].capacity
    /\ asked[v] < MaxAppends
    /\ asked' = [asked EXCEPT ![v] = @ + 1]
    /\ arrays' = [arrays EXCEPT ![v] = Stored(@)]
    /\ UNCHANGED <<arenaVars, fatal, released>>

GrownCapacity(a) ==
    IF a.capacity = 0 THEN FirstCapacity ELSE Wrapped(a.capacity * 2)

(* Mutant: the size in bytes is not checked before it is computed. *)
AnyCapacityFits(v, capacity) == TRUE

CapacityFits(v, capacity) == capacity <= SizeMax \div ElemSize[v]

Bytes(v, capacity) == Wrapped(capacity * ElemSize[v])

(* Mutant: a failure to grow is not reported. *)
LogNothing == UNCHANGED fatal

LogInsufficientMemory == fatal' = TRUE

(* sf_arena_grow_array copies what the old block held; it is not freed. *)
AppendGrown(v) ==
    LET a == arrays[v]
        capacity == GrownCapacity(a)
        copied == IF a.kept < capacity THEN a.kept ELSE capacity
    IN  /\ InUse
        /\ Bounded
        /\ a.count >= a.capacity
        /\ asked[v] < MaxAppends
        /\ asked' = [asked EXCEPT ![v] = @ + 1]
        /\ \/ /\ CapacityFits(v, capacity)
              /\ AllocSucceeds(Bytes(v, capacity))
              /\ arrays' = [arrays EXCEPT ![v] =
                     Stored([a EXCEPT !.items = Len(blocks) + 1,
                                      !.capacity = capacity, !.kept = copied])]
              /\ UNCHANGED fatal
           \/ /\ CapacityFits(v, capacity) => AllocFails(Bytes(v, capacity))
              /\ LogInsufficientMemory
              /\ UNCHANGED <<arenaVars, arrays>>
        /\ UNCHANGED released

-----------------------------------------------------------------------------
(* The chunks that are reached from arena->first by way of chunk->next. *)
Chain ==
    {c \in 1 .. Len(chunks) : \A S \in SUBSET (1 .. Len(chunks)) :
        /\ first # 0 => first \in S
        /\ \A d \in S : chunks[d].next # 0 => chunks[d].next \in S
        => c \in S}

(* sf_arena_free, in compilation_free at the end of the run. *)
Free ==
    /\ InUse
    /\ released' = TRUE
    /\ live' = live \ Chain
    /\ first' = 0
    /\ current' = 0
    /\ UNCHANGED <<chunks, blocks, arrays, asked, fatal>>

Released == released /\ UNCHANGED vars

Next ==
    \/ \E n \in Requests : Alloc(n)
    \/ \E v \in Arrays : AppendInPlace(v)
    \/ \E v \in Arrays : AppendGrown(v)
    \/ Free
    \/ Released

Spec == Init /\ [][Next]_vars

-----------------------------------------------------------------------------
(***************************************************************************)
(* BlocksDisjoint: two callers never hold overlapping memory, and every    *)
(* block lies aligned inside the used part of one chunk, also for the      *)
(* sizes whose rounding or chunk header would wrap around.                 *)
(***************************************************************************)
BlockInChunk(b) ==
    /\ b.chunk \in 1 .. Len(chunks)
    /\ b.start % Alignment = 0
    /\ b.start + b.size <= chunks[b.chunk].used
    /\ chunks[b.chunk].used <= chunks[b.chunk].size
    /\ chunks[b.chunk].size <= SizeMax - Header

BlocksDisjoint ==
    /\ \A i \in DOMAIN blocks : BlockInChunk(blocks[i])
    /\ \A i, j \in DOMAIN blocks :
           i < j /\ blocks[i].chunk = blocks[j].chunk =>
               blocks[i].start + blocks[i].size <= blocks[j].start

(***************************************************************************)
(* ArraysFit: an array never reaches beyond its block, whatever was        *)
(* allocated in between, and growing it loses none of its elements.        *)
(***************************************************************************)
ArraysFit ==
    \A v \in Arrays :
        LET a == arrays[v]
        IN  /\ a.count <= a.capacity
            /\ a.kept = a.count
            /\ a.capacity # 0 =>
                   /\ a.items \in DOMAIN blocks
                   /\ blocks[a.items].size = a.capacity * ElemSize[v]

(***************************************************************************)
(* NothingDropped: an element that could not be appended (its callers only *)
(* return) has a fatal in the log, so no code is generated without it.     *)
(***************************************************************************)
NothingDropped == fatal \/ \A v \in Arrays : arrays[v].count = asked[v]

(***************************************************************************)
(* NothingLeaks: sf_arena_free reaches every chunk that malloc returned.   *)
(***************************************************************************)
NothingLeaks == live = IF released THEN {} ELSE Chain

=============================================================================
