----------------------------- MODULE AdvVector -----------------------------
(* The data area of the auxiliary data vector: a sequence of items, each a   *)
(* tag, a length and that many bytes, ended by a zero tag.  syslinux_setadv  *)
(* exists twice, in com32/elflink/ldlinux/setadv.c for the boot loader and   *)
(* in libinstaller/setadv.c for the installers; syslinux_getadv reads.       *)
(* "items" is what the callers have asked for.  Both programs work on the    *)
(* same vector, which one hands to the other on the disk.                    *)
EXTENDS Integers, Sequences, SequencesExt, FiniteSetsExt

CONSTANTS
    ADV_LEN,   \* bytes of the data area: 500
    Tags,      \* tags in use
    Bytes,     \* bytes of the data
    Sizes      \* lengths of the data; 0 deletes the item

ASSUME AdvVectorAssumption ==
    /\ ADV_LEN \in Nat \ {0} /\ Tags \cup Bytes \subseteq 1 .. 255
    /\ Sizes \subseteq 0 .. 255

VARIABLES
    adv,     \* the data area
    items,   \* the data last set for each tag
    last,    \* the last call: its tag, the bytes it needs, whether it succeeded
    spoiled  \* ghost: the installer has deleted an item of a full area
vars == <<adv, items, last, spoiled>>

ADV_END == 0
None == <<>>

\* memmove(p, p + plen, n)
Moved(b, p, plen, n) ==
    [i \in DOMAIN b |-> IF i \in p .. p + n - 1 THEN b[i + plen] ELSE b[i]]

RECURSIVE FindLosesRoom(_, _, _, _, _, _)
\* mutant: the room of what was deleted is not given back
FindLosesRoom(who, tag, b, p, rleft, left) ==
    LET plen == b[p + 1] + 2
    IN  IF rleft < 2 \/ b[p] = ADV_END \/ (IF b[p] = tag THEN plen >= rleft ELSE plen > rleft)
        THEN [b |-> b, p |-> p, left |-> left]
        ELSE IF b[p] = tag
             THEN FindLosesRoom(who, tag, Moved(b, p, plen, rleft - plen), p,
                                rleft - plen, left - plen)
             ELSE FindLosesRoom(who, tag, b, p + plen, rleft - plen, left - plen)

RECURSIVE Find(_, _, _, _, _, _)
\* the loop of syslinux_setadv: delete the items of the tag, and stop at the
\* end, at an item that overruns, or where the rest is the item to delete.
\* Only the loader reads fewer bytes after a deletion.
Find(who, tag, b, p, rleft, left) ==
    LET plen == b[p + 1] + 2
    IN  IF rleft < 2 \/ b[p] = ADV_END \/ (IF b[p] = tag THEN plen >= rleft ELSE plen > rleft)
        THEN [b |-> b, p |-> p, left |-> left]
        ELSE IF b[p] = tag
             THEN Find(who, tag, Moved(b, p, plen, rleft - plen), p,
                       IF who = "loader" THEN rleft - plen ELSE rleft, left)
             ELSE Find(who, tag, b, p + plen, rleft - plen, left - plen)

\* the new item at p, the rest zeros
Written(b, p, item) ==
    [i \in DOMAIN b |-> CASE i < p -> b[i]
                          [] i \in p .. p + Len(item) - 1 -> item[i - p + 1]
                          [] OTHER -> 0]

Item(tag, data) == IF data = <<>> THEN <<>> ELSE <<tag, Len(data)>> \o data

Used(tags) == FoldSet(LAMBDA t, n : n + Len(Item(t, items[t])), 0, tags)

\* syslinux_setadv.  In an area that is full to the last byte the installer
\* goes on into the bytes memmove has left behind and may take them for items.
Setadv(who, tag, data) ==
    LET r == Find(who, tag, adv, 1, ADV_LEN, ADV_LEN)
        item == Item(tag, data)
    IN  /\ last' = [tag |-> tag, need |-> Len(item), ok |-> r.left >= Len(item)]
        /\ IF r.left < Len(item)
           THEN UNCHANGED <<adv, items>>
           ELSE /\ adv' = Written(r.b, r.p, item)
                /\ items' = [items EXCEPT ![tag] = data]
        /\ spoiled' = \/ spoiled
                      \/ who = "installer" /\ items[tag] # None /\ Used(Tags) = ADV_LEN

RECURSIVE GetadvShort(_, _, _, _)
\* mutant: an item that ends with the area is not found
GetadvShort(tag, b, p, left) ==
    IF left < 2 THEN None
    ELSE LET plen == b[p + 1]
         IN  IF b[p] = ADV_END \/ left - 2 <= plen THEN None
             ELSE IF b[p] = tag THEN SubSeq(b, p + 2, p + 1 + plen)
             ELSE GetadvShort(tag, b, p + 2 + plen, left - 2 - plen)

\* syslinux_getadv
RECURSIVE Getadv(_, _, _, _)
Getadv(tag, b, p, left) ==
    IF left < 2 THEN None
    ELSE LET plen == b[p + 1]
         IN  IF b[p] = ADV_END \/ left - 2 < plen THEN None
             ELSE IF b[p] = tag THEN SubSeq(b, p + 2, p + 1 + plen)
             ELSE Getadv(tag, b, p + 2 + plen, left - 2 - plen)

Datas == UNION {[1 .. n -> Bytes] : n \in Sizes}

\* syslinux_reset_adv
Init ==
    /\ adv = [i \in 1 .. ADV_LEN |-> 0]
    /\ items = [t \in Tags |-> None]
    /\ last = [tag |-> Max(Tags), need |-> 0, ok |-> TRUE]
    /\ spoiled = FALSE

\* An area with an item twice that is full to the last byte can keep the
\* installer's loop going for ever; its calls are followed no further then.
Next ==
    \E who \in {"loader", "installer"}, tag \in Tags, data \in Datas :
        (spoiled => who = "loader") /\ Setadv(who, tag, data)

Spec == Init /\ [][Next]_vars

\* syslinux_getadv finds for every tag, used or not, what syslinux_setadv was
\* last given for it: "(Over)write a data item in the auxilliary data vector.
\* To delete an item, set its length to zero."  Excepted is what follows a
\* deletion by the installer from an area that was full to the last byte.
GetsWhatWasSet ==
    ~spoiled => \A t \in Tags \cup Bytes :
        Getadv(t, adv, 1, ADV_LEN) = IF t \in Tags THEN items[t] ELSE None

\* A call fails only if the item does not fit beside the others: "Not enough
\* space for data".
FailsWhenFull ==
    ~last.ok /\ ~spoiled => last.need > ADV_LEN - Used(Tags \ {last.tag})
=============================================================================
