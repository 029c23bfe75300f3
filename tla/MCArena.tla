------------------------------ MODULE MCArena ------------------------------
(* An instance of Arena for TLC. *)
EXTENDS Arena

Region(start, len, free) == [start |-> start, len |-> len, free |-> free]

\* Main memory in two pieces with a reserved hole; the program's image is at
\* the start of the first.
HeapMap == <<Region(0, 12, TRUE), Region(20, 22, TRUE), Region(42, 4, FALSE), Region(46, 9, TRUE)>>

Regions == {Region(st, ln, f) : st \in {16, 20, 26, 29, 56}, ln \in {3, 6, 9}, f \in BOOLEAN}

\* Ascending maps of three regions: free or reserved, touching or not, below
\* OneMeg, across the end of the image, and across MemMax.
AscendingMaps ==
    LET Ascends(m) == \A i \in 1 .. Len(m) - 1 : m[i].start + m[i].len <= m[i + 1].start
    IN  {m \in {<<a, b, c>> : a \in Regions, b \in Regions, c \in Regions} : Ascends(m)}

\* Maps whose first region is a high one, so that most of the others lie below
\* what has been taken by then, one of them also below the end of the image.
OtherMaps == {<<Region(46, ln, TRUE), r>> : ln \in {9, 10}, r \in Regions \cup {Region(20, 1, TRUE)}}

MCMaps == {HeapMap} \cup AscendingMaps \cup OtherMaps
=============================================================================
