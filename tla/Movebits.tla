------------------------------ MODULE Movebits ------------------------------
(***************************************************************************)
(* syslinux_compute_movelist (com32/lib/syslinux/movebits.c): fragments of *)
(* memory are to be moved to their final places, and the function finds a  *)
(* sequence of moves that does it within the free memory there is.  Every  *)
(* move is carried out on data as it is emitted, the way the shuffler will *)
(* carry it out, so that data is what the moves so far make of the memory. *)
(***************************************************************************)
EXTENDS Zonelist, FiniteSets

CONSTANTS
    Fraglists,      \* sequences of fragments [dst, src, len]
    Memmaps         \* sequences of zones [start, len, type] to add

VARIABLES
    ifrags, memmap, \* the function's arguments
    pc,
    frags,          \* fragments still to be moved
    at,             \* shuffle_dealias: where it is in frags, with ps and pe
    postcopy,       \* copies for the end
    mmap,           \* the map of what is free
    types,          \* what each byte was last marked, which mmap stands for
    data,           \* the memory: the address each byte was at to begin with
    astray          \* one of the slips listed at Aliased, Wide and Overhangs

vars == <<ifrags, memmap, pc, frags, at, postcopy, mmap, types, data, astray>>
args == <<ifrags, memmap>>

Addrs == 0 .. M - 1
Frag(d, s, l) == [dst |-> d, src |-> s, len |-> l]
Adding(s, l, t) == [start |-> s, len |-> l, type |-> t]

Within(a, s, l) == a \in s .. s + l - 1
Source(a) == \E i \in DOMAIN ifrags : Within(a, ifrags[i].src, ifrags[i].len)
Destination(a) == \E i \in DOMAIN ifrags : Within(a, ifrags[i].dst, ifrags[i].len)
Usable(a) == \E i \in DOMAIN memmap : /\ Within(a, memmap[i].start, memmap[i].len)
                                      /\ memmap[i].type \in {"FREE", "ZERO", "TERMINAL"}

\* Callers choose destinations in memory that can be used.
Init ==
    /\ ifrags \in Fraglists /\ memmap \in Memmaps
    /\ \A a \in Addrs : Destination(a) => Usable(a)
    /\ pc = "dealias" /\ frags = ifrags /\ postcopy = <<>>
    /\ at = [p |-> 1, x |-> 1, ps |-> 0, pe |-> 0]
    /\ mmap = syslinux_init_memmap /\ types = [a \in Addrs |-> "UNDEFINED"]
    /\ data = [a \in Addrs |-> a] /\ astray = FALSE

MinOf(a, b) == IF a < b THEN a ELSE b

\* add_freelist and allocate_from, for a sequence of zones: what the map and the
\* types become.  The set has one element.
RECURSIVE MarkedMaps(_, _)
MarkedMaps(m, zs) ==
    IF zs = <<>> THEN {m}
    ELSE LET z == Head(zs)
             type(a) == IF a \in z.start .. z.start + z.len - 1 THEN z.type ELSE m.types[a]
         IN  UNION {MarkedMaps(n, Tail(zs)) :
                       n \in {[map   |-> syslinux_add_memmap(m.map, z),
                              types |-> [a \in Addrs |-> type(a)]]}}

Mark(zs) ==
    \E m \in MarkedMaps([map |-> mmap, types |-> types], zs) :
        mmap' = m.map /\ types' = m.types

\* Slip: pm_bcopy always copies upwards.
MovedUp(d, f) ==
    LET back == IF f.src < f.dst /\ f.dst < f.src + f.len THEN f.dst - f.src ELSE f.len
    IN  [a \in Addrs |-> IF a \in f.dst .. f.dst + f.len - 1
                         THEN d[(f.src + ((a - f.dst) % back)) % M] ELSE d[a]]

\* One move of the shuffler, pm_bcopy: copied upwards, or downwards if the
\* destination lies above the source and overlaps it, so as by a memmove.
Moved(d, f) == [a \in Addrs |-> IF a \in f.dst .. f.dst + f.len - 1
                                THEN d[(a - f.dst + f.src) % M] ELSE d[a]]

-----------------------------------------------------------------------------
(* shuffle_dealias *)

Begin(p) == IF p > Len(frags') THEN [p |-> p, x |-> 1, ps |-> 0, pe |-> 0]
            ELSE [p |-> p, x |-> 1, ps |-> frags'[p].src,
                  pe |-> frags'[p].src + frags'[p].len - 1]

StartDealias ==
    /\ pc = "dealias" /\ pc' = "alias" /\ UNCHANGED frags /\ at' = Begin(1)
    /\ UNCHANGED <<args, postcopy, mmap, types, data, astray>>

Xs == frags[at.x].src
Xe == frags[at.x].src + frags[at.x].len - 1

\* The one-byte overlaps at either end are not seen.
NoOverlap == at.pe <= Xs \/ at.ps >= Xe

NextPair ==
    /\ pc = "alias" /\ at.p <= Len(frags)
    /\ \/ at.x < at.p /\ NoOverlap /\ UNCHANGED frags /\ at' = [at EXCEPT !.x = @ + 1]
       \/ at.x = at.p /\ UNCHANGED frags /\ at' = Begin(at.p + 1)
    /\ UNCHANGED <<args, pc, postcopy, mmap, types, data, astray>>

\* The part of fragment p that lies inside x becomes a copy of x's place; what
\* sticks out at either end takes p's place in the list.  Unless there is any,
\* the next fragment is begun with; otherwise the scan goes on with the old
\* bounds.
Dealias ==
    /\ pc = "alias" /\ at.p <= Len(frags) /\ at.x < at.p /\ ~NoOverlap
    /\ LET f == frags[at.p]
           behind == IF at.pe > Xe THEN at.pe - Xe ELSE 0
           before == IF at.ps < Xs THEN Xs - at.ps ELSE 0
           pieces == (IF before > 0 THEN <<Frag(f.dst, at.ps, before)>> ELSE <<>>)
                     \o (IF behind > 0 THEN <<Frag(f.dst + f.len - behind,
                                                   f.src + f.len - behind, behind)>>
                         ELSE <<>>)
           ps == IF before > 0 THEN f.src + before ELSE at.ps
       IN  /\ frags' = SubSeq(frags, 1, at.p - 1) \o pieces
                       \o SubSeq(frags, at.p + 1, Len(frags))
           /\ postcopy' = <<Frag(f.dst + before, frags[at.x].dst + (ps - Xs),
                                 f.len - behind - before)>> \o postcopy
           /\ at' = IF pieces = <<>> THEN Begin(at.p)
                    ELSE [p |-> at.p, x |-> at.x + 1, ps |-> ps,
                          pe |-> IF behind > 0 THEN Xe ELSE at.pe]
    /\ UNCHANGED <<args, pc, mmap, types, data, astray>>

Overlap(f, g) == f.src < g.src + g.len /\ g.src < f.src + f.len

\* Sources that still overlap: an overlap of one byte, or with a third fragment.
Aliased == \E i, j \in DOMAIN frags : i # j /\ Overlap(frags[i], frags[j])

\* The map of what is free: the caller's, less the sources of the fragments.
BuildMap ==
    /\ pc = "alias" /\ at.p > Len(frags) /\ pc' = "loop"
    /\ Mark([i \in DOMAIN memmap |->
                [memmap[i] EXCEPT !.type = IF @ = "ZERO" THEN "FREE" ELSE @]]
            \o [i \in DOMAIN frags |-> Adding(frags[i].src, frags[i].len, "ALLOC")])
    /\ astray' = Aliased
    /\ UNCHANGED <<args, frags, at, postcopy, data>>

-----------------------------------------------------------------------------
(* What a fragment needs free to be moved: all of its destination, or what   *)
(* its source does not cover                                                 *)

ShiftUp(f) == f.src < f.dst /\ f.dst - f.src < f.len
ShiftDown(f) == f.src > f.dst /\ f.src - f.dst < f.len

NeedLen(f) == IF ShiftUp(f) THEN f.dst - f.src
              ELSE IF ShiftDown(f) THEN f.src - f.dst ELSE f.len
NeedBase(f) == IF ShiftUp(f) THEN f.dst + f.len - NeedLen(f) ELSE f.dst

\* The critical byte, which has to be moved first.
Cbyte(f) == IF ShiftUp(f) THEN f.dst + f.len - 1 ELSE f.dst

\* is_free_zone: the zone where the search for the region met the first of the
\* usable zones in a row that reach to its end, or 0.
RECURSIVE FreeFrom(_, _, _)
FreeFrom(i, start, last) ==
    LET stop == CHOOSE j \in i .. Len(mmap) :
                   /\ ~valid_terminal_type(mmap[j].type)
                   /\ \A h \in i .. j - 1 : valid_terminal_type(mmap[h].type)
    IN  CASE mmap[i].type = "END" -> 0
          [] mmap[i].type # "END" /\ mmap[i].start > start -> FreeFrom(i + 1, start, last)
          [] mmap[i].type # "END" /\ mmap[i].start <= start ->
                IF \E j \in i .. stop - 1 : LastBefore(mmap, j + 1) >= last THEN i
                ELSE IF mmap[stop].start > start THEN 0
                ELSE FreeFrom(stop + 1, start, last)

is_free_zone(start, len) == FreeFrom(1, start, start + len - 1)

\* free_area: the first of the smallest free zones of at least len bytes, or 0.
free_area(len) ==
    LET S == {i \in Zones(mmap) : mmap[i].type = "FREE" /\ SizeOf(mmap, i) >= len}
    IN  First({i \in S : \A j \in S : SizeOf(mmap, i) <= SizeOf(mmap, j)})

\* split_movelist: the chunk of fragment k with the len bytes from start on gets
\* an entry of its own, number SplitAt.
Split(fs, k, start, len) ==
    LET f == fs[k]
        l == start - f.src
    IN  SubSeq(fs, 1, k - 1)
        \o (IF l > 0 THEN <<Frag(f.dst, f.src, l)>> ELSE <<>>)
        \o <<Frag(f.dst + l, start, MinOf(len, f.len - l))>>
        \o (IF f.len - l > len THEN <<Frag(f.dst + l + len, start + len, f.len - l - len)>>
            ELSE <<>>)
        \o SubSeq(fs, k + 1, Len(fs))
SplitAt(fs, k, start) == IF start > fs[k].src THEN k + 1 ELSE k

\* The memory a move frees.
Freed(f) ==
    CASE f.dst > f.src -> Adding(f.src, MinOf(f.len, f.dst - f.src), "FREE")
      [] f.dst <= f.src /\ f.src >= f.dst + f.len -> Adding(f.src, f.len, "FREE")
      [] f.dst <= f.src /\ f.src < f.dst + f.len ->
            Adding(f.dst + f.len, f.src - f.dst, "FREE")

\* move_chunk: fragment k of fs is moved to its place, or the copylen bytes of
\* it that there is room for, those at the end if it is shifted up.
MoveChunk(fs, d, zones, k, copylen) ==
    LET some == copylen < NeedLen(fs[k])
        start == fs[k].src + (IF ShiftUp(fs[k]) THEN fs[k].len - copylen ELSE 0)
        g == IF some THEN Split(fs, k, start, copylen) ELSE fs
        i == IF some THEN SplitAt(fs, k, start) ELSE k
        f == g[i]
    IN  /\ frags' = RemoveAt(g, i)
        /\ data' = Moved(d, f)
        /\ Mark(zones \o <<Freed(f)>>)

-----------------------------------------------------------------------------
(* syslinux_compute_movelist's loop *)

InPlaceAlready(f) == f.src = f.dst
Looping == pc = "loop" /\ frags # <<>> /\ \A i \in DOMAIN frags : ~InPlaceAlready(frags[i])

Discard ==
    /\ pc = "loop" /\ \E i \in DOMAIN frags : InPlaceAlready(frags[i])
    /\ frags' = SelectSeq(frags, LAMBDA f : ~InPlaceAlready(f))
    /\ UNCHANGED <<args, pc, at, postcopy, mmap, types, data, astray>>

\* The first fragment that can be moved to its place as it is.
Movable == First({i \in DOMAIN frags : is_free_zone(NeedBase(frags[i]), NeedLen(frags[i])) # 0})

MoveNow ==
    /\ Looping /\ Movable # 0
    /\ LET f == frags[Movable]
       IN  MoveChunk(frags, data, <<Adding(NeedBase(f), NeedLen(f), "ALLOC")>>, Movable,
                     NeedLen(f))
    /\ UNCHANGED <<args, pc, at, postcopy, astray>>

\* Otherwise the first fragment, f, is worked on: ep is the zone its critical
\* byte is free in, avail the free bytes from that on.
f1 == frags[1]
ep == is_free_zone(Cbyte(f1), 1)
avail == IF ep = 0 THEN 0
         ELSE IF ShiftUp(f1) THEN (NeedBase(f1) + NeedLen(f1) - mmap[ep].start) % M
         ELSE (SizeOf(mmap, ep) - (NeedBase(f1) - mmap[ep].start)) % M

\* ep is only the first of several usable zones, and the byte is in another: what
\* is counted from that byte to the end of ep is not what is free there.
Wide == ~ShiftUp(f1) /\ Cbyte(f1) > LastBefore(mmap, ep + 1)

MovePart ==
    /\ Looping /\ Movable = 0 /\ avail # 0
    /\ LET copylen == MinOf(NeedLen(f1), avail)
           base == NeedBase(f1) + (IF ShiftUp(f1) THEN NeedLen(f1) - copylen ELSE 0)
       IN  MoveChunk(frags, data, <<Adding(base, copylen, "ALLOC")>>, 1, copylen)
    /\ astray' = (astray \/ Wide)
    /\ UNCHANGED <<args, pc, at, postcopy>>

\* What is in the way: the fragment whose source has the critical byte.
Stuck == Looping /\ Movable = 0 /\ avail = 0
InTheWay == First({i \in 2 .. Len(frags) :
                      /\ frags[i].src <= Cbyte(f1)
                      /\ Cbyte(f1) < frags[i].src + frags[i].len})
Largest == syslinux_memmap_largest(mmap, "FREE")

\* Where the fragment o in the way goes: to its place, to a free zone, or as
\* much of it as fits into the largest one, the critical byte included.
Eviction(o) ==
    IF is_free_zone(o.dst, o.len) # 0 THEN o
    ELSE IF free_area(o.len) # 0 THEN Frag(mmap[free_area(o.len)].start, o.src, o.len)
    ELSE LET flen == SizeOf(mmap, Largest)
             c == Cbyte(f1)
             low == (c + 1 - flen) % M
             src == IF ~ShiftUp(f1) THEN c ELSE IF o.src > low THEN o.src ELSE low
             len == IF ShiftUp(f1) THEN (c + 1 - src) % M ELSE MinOf(flen, o.len - (c - o.src))
         IN  Frag(mmap[Largest].start, src, len)

CanEvict == InTheWay # 0 /\ (\/ is_free_zone(frags[InTheWay].dst, frags[InTheWay].len) # 0
                             \/ free_area(frags[InTheWay].len) # 0
                             \/ Largest # 0)

\* The bytes evicted that f does not need, at the lower and at the upper end.
Low(e) == IF e.len > NeedLen(f1) /\ e.src < NeedBase(f1) THEN NeedBase(f1) - e.src ELSE 0

\* Slip: none is left for f.
HighAll(e) == e.len - Low(e)

High(e) == IF e.len - Low(e) > NeedLen(f1) THEN e.len - Low(e) - NeedLen(f1) ELSE 0

\* What f then claims: the bytes from the critical one on.
Claimed(e) ==
    LET n == e.len - Low(e) - High(e)
    IN  IF ShiftUp(f1) THEN Cbyte(f1) + 1 - n .. Cbyte(f1)
        ELSE NeedBase(f1) .. NeedBase(f1) + n - 1

\* The part evicted sticks out at the wrong end: f claims bytes that were not
\* evicted, or its own are marked free, the upper end being counted from copysrc.
Overhangs(e) ==
    \/ \E a \in Claimed(e) : ~Within(a, e.src, e.len)
    \/ Low(e) > 0 /\ High(e) > 0

Evict ==
    /\ Stuck /\ CanEvict
    /\ LET k == InTheWay
           e == Eviction(frags[k])
           some == e.len < frags[k].len
           g == IF some THEN Split(frags, k, e.src, e.len) ELSE frags
           i == IF some THEN SplitAt(frags, k, e.src) ELSE k
       IN  /\ MoveChunk([g EXCEPT ![i].src = e.dst], Moved(data, e),
                        <<Adding(e.dst, e.len, "ALLOC"), Adding(e.src, Low(e), "FREE"),
                          Adding(e.src + NeedLen(f1), High(e), "FREE")>>,
                        1, e.len - Low(e) - High(e))
           /\ astray' = (astray \/ Overhangs(e))
    /\ UNCHANGED <<args, pc, at, postcopy>>

Bail ==
    /\ Stuck /\ ~CanEvict /\ pc' = "failed"
    /\ UNCHANGED <<args, frags, at, postcopy, mmap, types, data, astray>>

Finish ==
    /\ pc = "loop" /\ frags = <<>> /\ pc' = "done"
    /\ data' = FoldLeft(Moved, data, postcopy)
    /\ UNCHANGED <<args, frags, at, postcopy, mmap, types, astray>>

-----------------------------------------------------------------------------
Next ==
    \/ StartDealias \/ NextPair \/ Dealias \/ BuildMap
    \/ Discard \/ MoveNow \/ MovePart \/ Evict \/ Bail \/ Finish

Spec == Init /\ [][Next]_vars

-----------------------------------------------------------------------------
(* Properties *)

\* A map is sorted, its neighbouring zones differ in type, and it says of every
\* byte what it was last marked, the first and the last address included.
ZonesExact ==
    /\ \A k \in Zones(mmap) :
          /\ mmap[k].start <= LastBefore(mmap, k + 1)
          /\ mmap[k].type # mmap[k + 1].type
          /\ \A a \in mmap[k].start .. LastBefore(mmap, k + 1) : types[a] = mmap[k].type
    /\ mmap[1].start = 0 /\ mmap[Len(mmap)] = Zone(0, "END")

\* When the moves are done every fragment is in its place, and no byte has
\* changed that was neither free nor part of a fragment; unless on the way one of
\* three things happened that the code's comments exclude: two fragments still
\* shared a source byte after shuffle_dealias (movebits.c:246-249), is_free_zone
\* returned a zone without the byte it was asked for (146-147), or a chunk was
\* evicted that left another room than the fragment claims (542-545).
MovesRight ==
    pc = "done" /\ ~astray =>
        /\ \A i \in DOMAIN ifrags : \A b \in 0 .. ifrags[i].len - 1 :
               data[ifrags[i].dst + b] = ifrags[i].src + b
        /\ \A a \in Addrs : ~Usable(a) /\ ~Source(a) => data[a] = a

RECURSIVE Bytes(_)
Bytes(fs) == IF fs = <<>> THEN 0 ELSE Head(fs).len + Bytes(Tail(fs))

\* Every round of syslinux_compute_movelist's loop leaves fewer bytes to be
\* moved, so the loop ends, whatever has been split and evicted on the way.
RoundsShrink == [][pc = "loop" /\ pc' = "loop" => Bytes(frags') < Bytes(frags)]_vars
=============================================================================
