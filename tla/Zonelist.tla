------------------------------ MODULE Zonelist ------------------------------
(***************************************************************************)
(* Memory maps (com32/lib/syslinux/zonelist.c): a sorted list of zones,    *)
(* each lasting to the start of the next.  The last entry is of type END   *)
(* and starts at 0, one past the highest address.                          *)
(***************************************************************************)
EXTENDS Integers, SequencesExt

CONSTANT M      \* addresses are 0 .. M - 1, as those of an addr_t

Zone(s, t) == [start |-> s, type |-> t]

syslinux_init_memmap == <<Zone(0, "UNDEFINED"), Zone(0, "END")>>

\* The address before zone k's start, the highest one before END.
LastBefore(z, k) == (z[k].start - 1) % M
SizeOf(z, k) == (z[k + 1].start - z[k].start) % M

\* Indices of the zones, END left out, and the first of a set of them.
Zones(z) == 1 .. Len(z) - 1
First(S) == IF S = {} THEN 0 ELSE CHOOSE i \in S : \A j \in S : i <= j

\* The type in force before entry k.
TypeBefore(z, k) == IF k = 1 THEN "END" ELSE z[k - 1].type

\* Slip: a zone of the same type behind the new one stays an entry of its own.
KeptUnmerged(z, e, last, type) == e

\* The first entry kept, if e is the first that starts after last: not e itself
\* if its zone is of the same type and follows at once.
Kept(z, e, last, type) == IF last = LastBefore(z, e) /\ z[e].type = type THEN e + 1 ELSE e

\* syslinux_add_memmap: a.len bytes from a.start get type a.type.  k is where
\* the new zone's start goes, e the first entry that outlives it; a marker is
\* needed at either end unless the type is the same on both sides of it.
syslinux_add_memmap(z, a) ==
    LET last == a.start + a.len - 1
        k == CHOOSE i \in 1 .. Len(z) :
                /\ z[i].type = "END" \/ a.start <= z[i].start
                /\ \A j \in 1 .. i - 1 : a.start > z[j].start
        aligned == a.start = z[k].start /\ z[k].type # "END"
        marked == a.type # TypeBefore(z, k)
        from == IF aligned /\ marked THEN k + 1 ELSE k
        e == CHOOSE i \in from .. Len(z) :
                last <= LastBefore(z, i) /\ \A j \in from .. i - 1 : last > LastBefore(z, j)
        oldtype == IF e > from THEN z[e - 1].type
                   ELSE IF aligned /\ marked THEN z[k].type ELSE TypeBefore(z, k)
    IN  IF a.len = 0 THEN z
        ELSE SubSeq(z, 1, k - 1)
             \o (IF marked THEN <<Zone(a.start, a.type)>> ELSE <<>>)
             \o (IF last < LastBefore(z, e) /\ oldtype # a.type
                 THEN <<Zone(last + 1, oldtype)>> ELSE <<>>)
             \o SubSeq(z, Kept(z, e, last, a.type), Len(z))

\* syslinux_memmap_largest: the first of the largest zones of a type, or 0.
syslinux_memmap_largest(z, type) ==
    LET S == {i \in Zones(z) : z[i].type = type /\ SizeOf(z, i) > 0}
    IN  First({i \in S : \A j \in S : SizeOf(z, j) <= SizeOf(z, i)})

valid_terminal_type(t) == t \in {"FREE", "TERMINAL"}
=============================================================================
