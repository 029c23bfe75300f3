------------------------------- MODULE Arena -------------------------------
(***************************************************************************)
(* The heap of the core (core/mem): malloc, lmalloc, realloc, free, the    *)
(* freeing of a module's memory, and the building of the two heaps from    *)
(* the memory map at start-up.                                             *)
(*                                                                         *)
(* A heap is two circular doubly linked lists through a head node: every   *)
(* block in address order, and the free blocks.  blk maps the address of   *)
(* each header to its fields; an address outside its domain holds no       *)
(* header.  Each action runs under __malloc_semaphore, except realloc,     *)
(* which takes it only for the calls to malloc and free.                   *)
(***************************************************************************)
EXTENDS Integers, Sequences, FiniteSets

CONSTANTS
    H,           \* sizeof(struct arena_header), the unit of size
    Close,       \* 4096: realloc keeps a block with less than this to spare
    Sizes,       \* the sizes programs ask for, in bytes
    LowStart, LowLen,    \* the lowmem heap
    FreeHigh,    \* free_high_memory
    OneMeg,      \* 0x100000: what lies below is not for the main heap
    MemMax,      \* E820_MEM_MAX
    Width,       \* size_t wraps here (2^32 in the code)
    Maps         \* memory maps: sequences of [start, len, free]

ASSUME ArenaAssumption ==
    /\ H \in Nat \ {0} /\ Close \in Nat /\ Sizes \subseteq Nat \ {0}
    /\ \A m \in Maps : \A i \in DOMAIN m : m[i].start \in Nat /\ m[i].len \in Nat
    /\ {LowStart, LowLen, FreeHigh, OneMeg, MemMax, Width} \subseteq Nat

\* The head nodes of the two heaps, told apart from addresses by their sign.
Main == -1
Low == -2
Heaps == {Main, Low}

VARIABLES
    blk,      \* header address |-> its fields
    map,      \* the machine's memory map
    scanned,  \* how many of its regions syslinux_scan_memory has reported
    memsize,  \* __com32.cs_memsize
    live      \* ghost: header address |-> bytes its owner asked for

vars == <<blk, map, scanned, memsize, live>>

Drop(b, a) == [x \in DOMAIN b \ {a} |-> b[x]]
With(b, a, r) == [x \in DOMAIN b \cup {a} |-> IF x = a THEN r ELSE b[x]]

\* Header plus payload, rounded up to the unit.
Rounded(size) == ((size + 2 * H - 1) \div H) * H

----------------------------------------------------------------------------
\* The two lists

UnchainHalf(b, a) == [b EXCEPT ![b[a].prevFree].nextFree = b[a].nextFree]

\* Take a off the free chain.
Unchain(b, a) ==
    [b EXCEPT ![b[a].nextFree].prevFree = b[a].prevFree,
              ![b[a].prevFree].nextFree = b[a].nextFree]

ChainFirst(b, a) ==
    LET h == b[a].heap
        f == b[h].nextFree
    IN  [b EXCEPT ![a].nextFree = f, ![a].prevFree = h, ![h].nextFree = a, ![f].prevFree = a]

ChainLast(b, a) ==
    LET h == b[a].heap
        l == b[h].prevFree
    IN  [b EXCEPT ![a].prevFree = l, ![a].nextFree = h, ![h].prevFree = a, ![l].nextFree = a]

\* A free header of the given size at a, inserted after p in the block chain.
Insert(b, a, p, size) ==
    LET n == b[p].next IN
    With([b EXCEPT ![p].next = a, ![n].prev = a], a,
         [next |-> n, prev |-> p, nextFree |-> a, prevFree |-> a, size |-> size,
          heap |-> b[p].heap, type |-> "free", tag |-> "free"])

\* Remove the header at a from the block chain; its bytes go to the block before it.
Absorb(b, a) ==
    LET p == b[a].prev
        n == b[a].next
    IN  Drop([b EXCEPT ![p].size = @ + b[a].size, ![p].next = n, ![n].prev = p], a)

\* b[a] and the block after it touch, and that block is free.
FreeAfter(b, a) == b[b[a].next].type = "free" /\ a + b[a].size = b[a].next
FreeBefore(b, a) == b[b[a].prev].type = "free" /\ b[a].prev + b[b[a].prev].size = a

FreeBlockBackOnly(b, a) ==
    LET joins == FreeBefore(b, a)
        b1 == IF joins THEN Absorb(b, a)
              ELSE ChainFirst([b EXCEPT ![a].type = "free", ![a].tag = "free"], a)
    IN  [blk |-> b1, at |-> IF joins THEN b[a].prev ELSE a]

\* __free_block: the lists after a is freed, and the block it is now part of.
FreeBlock(b, a) ==
    LET joins == FreeBefore(b, a)
        b1 == IF joins THEN Absorb(b, a)
              ELSE ChainFirst([b EXCEPT ![a].type = "free", ![a].tag = "free"], a)
        a1 == IF joins THEN b[a].prev ELSE a
        b2 == IF FreeAfter(b1, a1) THEN Absorb(Unchain(b1, b1[a1].next), b1[a1].next) ELSE b1
    IN  [blk |-> b2, at |-> a1]

\* The blocks met on the way from head h back to it, along a list's links.
Around(link, h) ==
    LET walk[n \in 1 .. Cardinality(DOMAIN link)] ==
            IF n = 1 THEN link[h] ELSE link[walk[n - 1]]
        ends == {n \in DOMAIN walk : walk[n] = h}
        end == CHOOSE n \in ends : \A m \in ends : n <= m
    IN  [i \in 1 .. end - 1 |-> walk[i]]

Blocks(b, h) == Around([a \in DOMAIN b |-> b[a].next], h)
FreeChain(b, h) == Around([a \in DOMAIN b |-> b[a].nextFree], h)

MallocFromBlockShrinks(b, fp, size, tag) ==
    LET split == b[fp].size >= size + 2 * H
        nfp == fp + size
        f == b[fp]
        b1 == Insert([b EXCEPT ![fp].size = size], nfp, fp, f.size - size - H)
        b2 == [b1 EXCEPT ![nfp].nextFree = f.nextFree, ![nfp].prevFree = f.prevFree]
        b3 == [b2 EXCEPT ![f.nextFree].prevFree = nfp, ![f.prevFree].nextFree = nfp]
    IN  [(IF split THEN b3 ELSE Unchain(b, fp))
            EXCEPT ![fp].type = "used", ![fp].tag = tag, ![fp].nextFree = 0, ![fp].prevFree = 0]

\* __malloc_from_block
MallocFromBlock(b, fp, size, tag) ==
    LET split == b[fp].size >= size + 2 * H
        nfp == fp + size
        f == b[fp]
        b1 == Insert([b EXCEPT ![fp].size = size], nfp, fp, f.size - size)
        b2 == [b1 EXCEPT ![nfp].nextFree = f.nextFree, ![nfp].prevFree = f.prevFree]
        b3 == [b2 EXCEPT ![f.nextFree].prevFree = nfp, ![f.prevFree].nextFree = nfp]
    IN  [(IF split THEN b3 ELSE Unchain(b, fp))
            EXCEPT ![fp].type = "used", ![fp].tag = tag, ![fp].nextFree = 0, ![fp].prevFree = 0]

\* The block bios_malloc takes from, if any: the first that is large enough.
Fits(b, h, size) ==
    LET c == FreeChain(b, h)
        ok == {i \in DOMAIN c : b[c[i]].size >= Rounded(size)}
    IN  {c[i] : i \in {j \in ok : \A k \in ok : j <= k}}

----------------------------------------------------------------------------
\* Allocation

Booted == scanned = Len(map) /\ UNCHANGED <<map, scanned, memsize>>

\* malloc (heap Main, tag core), lmalloc (Low, core) and pmapi_lmalloc (Low, module)
Malloc(h, size, tag) ==
    /\ Booted
    /\ \E fp \in Fits(blk, h, size) :
          /\ blk' = MallocFromBlock(blk, fp, Rounded(size), tag)
          /\ live' = With(live, fp, size)

MallocFails(h, size) ==
    /\ Booted /\ Fits(blk, h, size) = {}
    /\ UNCHANGED <<blk, live>>

Free(a) ==
    /\ Booted
    /\ blk' = FreeBlock(blk, a).blk
    /\ live' = Drop(live, a)

----------------------------------------------------------------------------
\* bios_realloc

CloseEnough(a, size) ==
    LET old == blk[a].size
        new == Rounded(size)
    IN  old >= new /\ new >= old \div 4 /\ old - new < Close

\* The block with the free block after it merged in, when that is large enough.
Grown(a, size) ==
    IF FreeAfter(blk, a) /\ blk[blk[a].next].size + blk[a].size >= Rounded(size)
    THEN Absorb(Unchain(blk, blk[a].next), blk[a].next)
    ELSE blk

ReallocClose(a, size) ==
    /\ Booted /\ CloseEnough(a, size)
    /\ live' = [live EXCEPT ![a] = size]
    /\ UNCHANGED blk

ReallocInPlace(a, size) ==
    LET new == Rounded(size)
        b == Grown(a, size)
        x == b[a].size
        rest == Insert([b EXCEPT ![a].size = new], a + new, a, x - new)
    IN  /\ Booted /\ ~CloseEnough(a, size) /\ x >= new
        /\ blk' = IF x < new + 2 * H THEN b
                  ELSE IF new > blk[a].size THEN ChainLast(rest, a + new)
                  ELSE ChainFirst(rest, a + new)
        /\ live' = [live EXCEPT ![a] = size]

\* malloc a new block, copy, free the old one.
ReallocMove(a, size) ==
    /\ Booted /\ ~CloseEnough(a, size) /\ Grown(a, size)[a].size < Rounded(size)
    /\ \E fp \in Fits(blk, Main, size) :
          /\ blk' = FreeBlock(MallocFromBlock(blk, fp, Rounded(size), "core"), a).blk
          /\ live' = With(Drop(live, a), fp, size)

ReallocFails(a, size) ==
    /\ Booted /\ ~CloseEnough(a, size) /\ Grown(a, size)[a].size < Rounded(size)
    /\ Fits(blk, Main, size) = {}
    /\ UNCHANGED <<blk, live>>

----------------------------------------------------------------------------
\* comboot_cleanup_lowmem: __free_tagged(MALLOC_MODULE)

\* The loop over one heap: after a block is freed it goes on from the block
\* that now contains it.
FreeTaggedIn(b, h) ==
    LET Stop(s) == s.at = h
        Hit(s) == s.blk[s.at].type = "used" /\ s.blk[s.at].tag = "module"
        loop[n \in 0 .. Cardinality(DOMAIN b)] ==
            IF n = 0 THEN [blk |-> b, at |-> b[h].next]
            ELSE LET s == loop[n - 1]
                     f == IF Hit(s) THEN FreeBlock(s.blk, s.at) ELSE s
                 IN  IF Stop(s) THEN s ELSE [blk |-> f.blk, at |-> f.blk[f.at].next]
    IN  loop[Cardinality(DOMAIN b)].blk

FreeTaggedOneHeap ==
    /\ Booted
    /\ blk' = FreeTaggedIn(blk, Main)
    /\ live' = [a \in {x \in DOMAIN live : blk[x].tag # "module"} |-> live[a]]

FreeTagged ==
    /\ Booted
    /\ blk' = FreeTaggedIn(FreeTaggedIn(blk, Main), Low)
    /\ live' = [a \in {x \in DOMAIN live : blk[x].tag # "module"} |-> live[a]]

----------------------------------------------------------------------------
\* Start-up

\* __inject_free_block: the block goes in before the first block of its heap
\* that is not wholly below it, unless it overlaps that block.
Inject(b, h, start, len) ==
    LET size == (len \div H) * H
        c == Blocks(b, h)
        rest == {i \in DOMAIN c : start < c[i] + b[c[i]].size}
        nah == IF rest = {} THEN h ELSE c[CHOOSE i \in rest : \A j \in rest : i <= j]
    IN  IF nah # h /\ nah < start + size THEN b
        ELSE FreeBlock(Insert(b, start, b[nah].prev, size), start).blk

EmptyHeaps ==
    [h \in Heaps |-> [next |-> h, prev |-> h, nextFree |-> h, prevFree |-> h, size |-> 0,
                      heap |-> h, type |-> "head", tag |-> "head"]]

\* mem_init
Init ==
    /\ blk = Inject(EmptyHeaps, Low, LowStart, LowLen)
    /\ map \in Maps /\ scanned = 0
    /\ memsize = FreeHigh
    /\ live = <<>>

ScanLong ==
    LET r == map[scanned + 1]
        skip == r.start < OneMeg \/ r.start > MemMax \/ ~r.free
        start == IF r.start < memsize THEN memsize ELSE r.start
        len == IF r.len > (MemMax - start) % Width THEN (MemMax - start) % Width ELSE r.len
    IN  /\ scanned < Len(map)
        /\ scanned' = scanned + 1
        /\ IF skip THEN UNCHANGED <<blk, memsize>>
           ELSE /\ blk' = IF len >= 2 * H THEN Inject(blk, Main, start, len) ELSE blk
                /\ memsize' = start + len
        /\ UNCHANGED <<map, live>>

\* scan_highmem_area, called for the next region of the memory map
Scan ==
    LET r == map[scanned + 1]
        skip == r.start < OneMeg \/ r.start > MemMax \/ ~r.free
        start == IF r.start < memsize THEN memsize ELSE r.start
        cut == (r.len - (start - r.start)) % Width
        len == IF cut > (MemMax - start) % Width THEN (MemMax - start) % Width ELSE cut
    IN  /\ scanned < Len(map)
        /\ scanned' = scanned + 1
        /\ IF skip THEN UNCHANGED <<blk, memsize>>
           ELSE /\ blk' = IF len >= 2 * H THEN Inject(blk, Main, start, len) ELSE blk
                /\ memsize' = start + len
        /\ UNCHANGED <<map, live>>

Next ==
    \/ Scan
    \/ \E size \in Sizes :
          \/ \E h \in Heaps : Malloc(h, size, "core") \/ MallocFails(h, size)
          \/ Malloc(Low, size, "module")
          \/ \E a \in DOMAIN live :
                \/ ReallocClose(a, size) \/ ReallocInPlace(a, size)
                \/ ReallocMove(a, size) \/ ReallocFails(a, size)
    \/ \E a \in DOMAIN live : Free(a)
    \/ FreeTagged

Spec == Init /\ [][Next]_vars

----------------------------------------------------------------------------
\* Properties

Within(b, h) == {a \in DOMAIN b \ Heaps : b[a].heap = h}
Bytes(b, h) == UNION {a .. a + b[a].size - 1 : a \in Within(b, h)}

\* Both lists of a heap are circular and can be walked either way; the block
\* list has every block of the heap, in address order and without overlap,
\* and the free list has exactly the blocks marked free.
ListsAgree ==
    \A h \in Heaps :
        LET c == Blocks(blk, h)
            f == FreeChain(blk, h)
            Range(q) == {q[i] : i \in DOMAIN q}
        IN  /\ Range(c) = Within(blk, h)
            /\ \A i \in 1 .. Len(c) - 1 : c[i] + blk[c[i]].size <= c[i + 1]
            /\ \A a \in Range(c) \cup {h} : blk[blk[a].next].prev = a
            /\ Range(f) = {a \in Within(blk, h) : blk[a].type = "free"}
            /\ \A a \in Range(f) \cup {h} : blk[blk[a].nextFree].prevFree = a

\* No two free blocks touch: __free_block and realloc leave no memory split
\* that a later malloc could have used whole.
Coalesced ==
    \A a \in DOMAIN blk \ Heaps : blk[a].type = "free" => ~FreeAfter(blk, a)

\* The blocks in use are the allocations programs hold, each with the bytes
\* asked for after its header: nothing is handed out twice, shortened by a
\* neighbour's split or merge, or left behind by __free_tagged.
AllocationsHold ==
    /\ DOMAIN live = {a \in DOMAIN blk : blk[a].type = "used"}
    /\ \A a \in DOMAIN live : H + live[a] <= blk[a].size

\* Once the heaps are built no operation loses a byte of them or adds one.
BytesKept ==
    [][scanned = Len(map) => \A h \in Heaps : Bytes(blk', h) = Bytes(blk, h)]_vars

\* scan_highmem_area gives the main heap only memory of the region it is called
\* for, free, above the program's own image and below MemMax.  A region that ends
\* below cs_memsize is excepted: len wraps (init.c:29-31), and memory up to
\* MemMax is taken that no region need have reported.
HeapInMemory ==
    [][\A x \in Bytes(blk', Main) \ Bytes(blk, Main) :
          /\ scanned < Len(map) /\ map[scanned + 1].free
          /\ x >= FreeHigh /\ x >= OneMeg /\ x < MemMax
          /\ LET r == map[scanned + 1]
             IN  x \in r.start .. r.start + r.len - 1 \/ r.start + r.len < memsize]_vars
=============================================================================
