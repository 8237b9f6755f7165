-------------------------------- MODULE Heap --------------------------------
(***************************************************************************)
(* The kernel heap (mm/allocator.rs): block headers laid out in the heap    *)
(* region, threaded by a free list.  allocate searches the list;            *)
(* deallocate finds its block by walking the headers from the start of the  *)
(* heap, each one giving the place of the next.                             *)
(*                                                                         *)
(* Addresses and sizes are in units of four bytes from the start of the     *)
(* heap.  hp_mem holds the headers whose magic is intact, stale ones        *)
(* included; a client overwrites those its payload covers.  The tracing     *)
(* that most of the source consists of is left out.                         *)
(***************************************************************************)
EXTENDS Integers, FiniteSets, FiniteSetsExt

CONSTANTS
    HeapSize,         \* heap_size
    HeaderSize,       \* size_of::<BlockHeader>(): 40 bytes
    MIN_BLOCK_SIZE,   \* 1024 bytes
    Requests,         \* the pairs <<size, align>> clients ask for, as in a Layout
    MaxLive,          \* bound: allocations alive at a time
    Null              \* the null pointer

VARIABLES
    hp_mem,        \* address -> BlockHeader, where the magic is valid
    hp_free_list,  \* free_list
    hp_live,       \* the allocations of the clients: [ptr, size]
    hp_hung        \* a search of the free list that does not end

heapVars == <<hp_mem, hp_free_list, hp_live, hp_hung>>

Header(size, is_free) == [size |-> size, free |-> is_free, prev |-> Null, next |-> Null]

HeapInit ==
    /\ hp_mem = [a \in {0} |-> Header(HeapSize, TRUE)]
    /\ hp_free_list = 0
    /\ hp_live = {}
    /\ hp_hung = FALSE

BlockEnd(mem, a) == a + mem[a].size

SetPrev(mem, a, v) == IF a = Null THEN mem ELSE [mem EXCEPT ![a].prev = v]
SetNext(mem, a, v) == IF a = Null THEN mem ELSE [mem EXCEPT ![a].next = v]

\* Where an allocation of align starts in the block at a, from the block's start.
Offset(a, align) ==
    LET payload_start == a + HeaderSize
    IN  ((payload_start + align - 1) \div align) * align - a

total_size(size) == Max({size + HeaderSize, MIN_BLOCK_SIZE})

-----------------------------------------------------------------------------
(* The search of the free list.                                             *)

\* More steps than there are headers: a list that is longer has a cycle.
Steps == 0 .. Cardinality(DOMAIN hp_mem)

\* The nodes of the free list in order, Null from its end on.
ListNodes ==
    LET node[n \in Steps] ==
            IF n = 0 THEN hp_free_list
            ELSE IF node[n - 1] = Null THEN Null ELSE hp_mem[node[n - 1]].next
    IN  node

Fits(a, size, align) ==
    /\ hp_mem[a].free
    /\ hp_mem[a].size >= total_size(size)
    /\ hp_mem[a].size >= Offset(a, align) + size

\* The steps at which the search meets a block that fits.
Found(size, align) == {n \in Steps :
    ListNodes[n] # Null /\ Fits(ListNodes[n], size, align)}

\* Where the rest of a split block starts: (end + 39) & !39 on byte addresses clears
\* bit 5 as well as the low three, and so leaves a gap of 32 bytes when it was set.
NewBlockAt(end) ==
    LET words == (end + 1) \div 2
    IN  2 * (IF (words \div 4) % 2 = 0 THEN words ELSE words + 4)

\* The block taken off the list.  Its own next was cleared before it is read, so
\* whatever followed it is cut off.
Unlinked(a, prev) ==
    LET m == [hp_mem EXCEPT ![a].free = FALSE, ![a].next = Null, ![a].prev = Null]
    IN  [mem |-> SetNext(m, prev, Null),
         list |-> IF prev = Null THEN Null ELSE hp_free_list]

Covered(a, from, size) == a < from + size /\ from < a + HeaderSize

\* A new header at b, of what is left up to the end of the old block, heads the list.
SplitOff(h, b, end) ==
    LET new == [Header(end - b, TRUE) EXCEPT !.next = h.list]
        m   == SetPrev(h.mem, h.list, b)
    IN  [mem |-> [x \in DOMAIN m \cup {b} |-> IF x = b THEN new ELSE m[x]], list |-> b]

\* The heap after the block at a, found behind prev, is given out.
Taken(a, prev, size, align) ==
    LET offset == Offset(a, align)
        end    == BlockEnd(hp_mem, a)
        h      == Unlinked(a, prev)
        b      == NewBlockAt(a + offset + size)
        cut    == [h EXCEPT !.mem[a].size = offset + size]
    IN  IF hp_mem[a].size - offset - size < MIN_BLOCK_SIZE THEN h
        ELSE IF end - b < MIN_BLOCK_SIZE THEN cut
        ELSE SplitOff(cut, b, end)

\* The client writes its payload: headers of former blocks under it are gone.
Overwritten(mem, from, size) ==
    [a \in {x \in DOMAIN mem : ~Covered(x, from, size)} |-> mem[a]]

allocate(size, align) ==
    LET found == Found(size, align)
        n     == Min(found)
        a     == ListNodes[n]
        prev  == IF n = 0 THEN Null ELSE ListNodes[n - 1]
        h     == Taken(a, prev, size, align)
        ptr   == a + Offset(a, align)
    IN  /\ ~hp_hung /\ Cardinality(hp_live) < MaxLive
        /\ \/ /\ found # {}
              /\ hp_mem' = Overwritten(h.mem, ptr, size)
              /\ hp_free_list' = h.list
              /\ hp_live' = hp_live \cup {[ptr |-> ptr, size |-> size]}
              /\ UNCHANGED hp_hung
           \/ /\ found = {} /\ ListNodes[Cardinality(DOMAIN hp_mem)] # Null
              /\ hp_hung' = TRUE
              /\ UNCHANGED <<hp_mem, hp_free_list, hp_live>>

-----------------------------------------------------------------------------
(* The walk over the blocks.                                                *)

\* The places the walk looks for a header, until it leaves the heap or finds none.
Walk ==
    LET place[n \in Steps] ==
            IF n = 0 THEN 0
            ELSE IF place[n - 1] \in DOMAIN hp_mem THEN BlockEnd(hp_mem, place[n - 1])
            ELSE place[n - 1]
    IN  {place[n] : n \in Steps}

Walked == Walk \cap DOMAIN hp_mem

Holds(a, ptr) == a + HeaderSize = ptr \/ (a + HeaderSize < ptr /\ ptr < BlockEnd(hp_mem, a))

\* The block put at the head of the list.
Listed(mem, a) ==
    LET m == [mem EXCEPT ![a].next = hp_free_list, ![a].prev = Null]
    IN  [mem |-> SetPrev(m, hp_free_list, a), list |-> a]

\* The free block that ends where the block at a begins.
PrevFree(a) == {b \in Walked : b < a /\ BlockEnd(hp_mem, b) = a /\ hp_mem[b].free}

Freed_TwiceGrown(a) ==
    IF PrevFree(a) = {} THEN Listed([hp_mem EXCEPT ![a].free = TRUE], a)
    ELSE LET b == Min(PrevFree(a))
         IN  Listed([hp_mem EXCEPT ![a].free = TRUE, ![b].size = @ + 2 * hp_mem[a].size], b)

\* The block at a is free.  An allocated block has no next, so only the block
\* before it can be merged; that one is put on the list it may already be on.
Freed(a) ==
    IF PrevFree(a) = {} THEN Listed([hp_mem EXCEPT ![a].free = TRUE], a)
    ELSE LET b == Min(PrevFree(a))
         IN  Listed([hp_mem EXCEPT ![a].free = TRUE, ![b].size = @ + hp_mem[a].size], b)

\* When the walk ends before the block, the memory is leaked.
deallocate(x) ==
    LET blocks == {a \in Walked : Holds(a, x.ptr)}
        h      == Freed(Min(blocks))
    IN  /\ ~hp_hung /\ x \in hp_live
        /\ hp_live' = hp_live \ {x}
        /\ \/ /\ blocks # {}
              /\ hp_mem' = h.mem
              /\ hp_free_list' = h.list
           \/ /\ blocks = {}
              /\ UNCHANGED <<hp_mem, hp_free_list>>
        /\ UNCHANGED hp_hung

HeapNext ==
    \/ \E r \in Requests : allocate(r[1], r[2])
    \/ \E x \in hp_live : deallocate(x)

HeapSpec == HeapInit /\ [][HeapNext]_heapVars

-----------------------------------------------------------------------------
\* The free blocks a search can reach.
Reachable == {ListNodes[n] : n \in Steps} \ {Null}

usage == MapThenSumSet(LAMBDA a : hp_mem[a].size, {a \in Walked : ~hp_mem[a].free})

Apart(a, n, b, m) == a + n <= b \/ b + m <= a

(* Every header lies in the heap and its links point at headers or are      *)
(* null; so does the head of the free list.                                 *)
HeapTypeOK ==
    /\ hp_free_list \in DOMAIN hp_mem \cup {Null}
    /\ \A a \in Reachable :
          /\ a >= 0 /\ BlockEnd(hp_mem, a) <= HeapSize
          /\ hp_mem[a].next \in DOMAIN hp_mem \cup {Null}

(* Two live allocations never share a byte, whatever was split, merged,     *)
(* leaked or listed twice before, and neither the block at which a search   *)
(* can arrive nor its header reaches into one.                              *)
LiveDisjoint ==
    /\ \A x, y \in hp_live : x # y => Apart(x.ptr, x.size, y.ptr, y.size)
    /\ \A x \in hp_live : x.ptr >= 0 /\ x.ptr + x.size <= HeapSize
    /\ \A x \in hp_live, a \in Reachable : Apart(x.ptr, x.size, a, hp_mem[a].size)

(* deallocate frees its own block: the block the walk stops at for a live   *)
(* pointer is allocated and covers that allocation and no other.            *)
FreesItsOwnBlock == \A x \in hp_live : \A a \in {b \in Walked : Holds(b, x.ptr)} :
    /\ ~hp_mem[a].free
    /\ x.ptr + x.size <= BlockEnd(hp_mem, a)
    /\ \A y \in hp_live \ {x} : ~Holds(a, y.ptr)

(* When the walk gets through the whole heap, usage() accounts for every    *)
(* live allocation; it is only cut short by the gap a split may leave.      *)
UsageCoversLive == HeapSize \in Walk =>
    usage >= MapThenSumSet(LAMBDA x : x.size, hp_live)

(* The heap keeps its clients apart through splits, merges and leaks, and   *)
(* walks to the right block when one gives its memory back (allocate,       *)
(* deallocate, usage).                                                      *)
BlocksKept == LiveDisjoint /\ FreesItsOwnBlock /\ UsageCoversLive

(* allocate returns a pointer or null: a search of the free list ends.      *)
AllocateReturns == ~hp_hung
=============================================================================
