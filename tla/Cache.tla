------------------------------- MODULE Cache --------------------------------
(***************************************************************************)
(* The block cache of core/fs/cache.c: a fixed array of entries, searched  *)
(* from the front, and a list of them in order of use.  A cache c is a     *)
(* record: c.lru, the list from the oldest entry to the newest; c.block,   *)
(* the block an entry is for; c.data, the block its data came from.        *)
(***************************************************************************)
EXTENDS Integers, SequencesExt

NoBlock == -1

cache_init(n) ==
    [lru   |-> [i \in 1 .. n |-> i],
     block |-> [i \in 1 .. n |-> NoBlock],
     data  |-> [i \in 1 .. n |-> NoBlock]]

Holding(c, b) == {i \in DOMAIN c.block : c.block[i] = b}

\* _get_cache_block: the entry for b, or the oldest one.
Entry(c, b) ==
    IF Holding(c, b) = {} THEN Head(c.lru)
    ELSE CHOOSE i \in Holding(c, b) : \A j \in Holding(c, b) : i <= j

\* get_cache: the entry becomes the newest one and is for b, even if the read
\* of b fails, which leaves the data of the block it was for before.
get_cache(c, b, ok) ==
    LET i == Entry(c, b)
    IN  [lru   |-> Append(Remove(c.lru, i), i),
         block |-> [c.block EXCEPT ![i] = b],
         data  |-> IF c.block[i] # b /\ ok THEN [c.data EXCEPT ![i] = b] ELSE c.data]

Missing(c, b) == Holding(c, b) = {}

\* What the caller of get_cache(c, b, ok) is given a pointer to.
Data(c, b) == c.data[Entry(c, b)]
=============================================================================
