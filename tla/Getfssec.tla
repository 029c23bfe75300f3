------------------------------ MODULE Getfssec ------------------------------
(***************************************************************************)
(* Reading an open file through pmapi_read_file and generic_getfssec       *)
(* (core/fs/fs.c, core/fs/getfssec.c): a request for some sectors is       *)
(* served from the extents a filesystem driver's next_extent method hands  *)
(* out one at a time, looking ahead and joining extents that are           *)
(* contiguous on the disk.  The driver is what its contract in getfssec.c  *)
(* says: it maps a run of sectors or fails.  A sector of data is named by  *)
(* the physical sector it came from.                                       *)
(***************************************************************************)
EXTENDS Integers

CONSTANTS
    SectorSize,     \* bytes in a sector
    Word,           \* what the width of uint32_t is taken for
    Requests,       \* sectors a caller may ask for
    Files,          \* the files: [map, size], map from sector to disk sector
    MaxExtent,      \* bound on the extents an abstract driver hands out
    Faults          \* may reads of the disk fail

ASSUME SizesAssumption ==
    /\ SectorSize \in Nat \ {0}
    /\ Word \in Nat /\ SectorSize < Word
    /\ Requests \subseteq Nat \ {0}
    /\ MaxExtent \in Nat
    /\ Faults \in BOOLEAN

\* Special values of an extent's physical start: a hole, and no information.
EXTENT_ZERO == -1
EXTENT_VOID == -2
EXTENT_SPECIAL(p) == p < 0

\* Every sector of a file is on the disk or in a hole.
ASSUME FilesAssumption ==
    \A f \in Files :
        /\ f.size \in 0 .. Word - 1
        /\ DOMAIN f.map \subseteq Nat
        /\ \A l \in DOMAIN f.map : f.map[l] \in Nat \cup {EXTENT_ZERO}

VARIABLES
    file,       \* the file read, one of Files
    size,       \* inode->size, which a driver may cut down
    offset,     \* file->offset
    this,       \* inode->this_extent
    next,       \* inode->next_extent
    pc,         \* where the call in progress is; "open" and "closed" between calls
    lsector,    \* first sector of the call
    left,       \* sectors still to transfer
    bytesLeft,  \* bytes_left
    got,        \* sectors transferred, bytes_read / SectorSize
    buf,        \* what they hold
    failed      \* some read of the disk has failed

io == <<file, offset, this, lsector, left, bytesLeft, got, buf>>
vars == <<file, size, offset, this, next, pc, lsector, left, bytesLeft, got,
          buf, failed>>

Extent == [pstart : Int, lstart : Nat, len : Nat]
NoExtent == [pstart |-> 0, lstart |-> 0, len |-> 0]

NoData == [i \in 1 .. 0 |-> 0]

MinOf(a, b) == IF a < b THEN a ELSE b

next_psector(p, skip) == IF EXTENT_SPECIAL(p) THEN p ELSE p + skip

Within(l, e) == e.lstart <= l /\ l < e.lstart + e.len

Init ==
    /\ file \in Files /\ size = file.size
    /\ offset = 0 /\ this = NoExtent /\ next = NoExtent
    /\ pc = "open" /\ lsector = 0 /\ left = 0 /\ bytesLeft = 0
    /\ got = 0 /\ buf = NoData /\ failed = FALSE

-----------------------------------------------------------------------------
(* generic_getfssec *)

\* uint32_t arithmetic: a size cut down below the offset gives a huge rest.
BytesLeft == (size - offset) % Word
SectorsLeft == ((BytesLeft + SectorSize - 1) % Word) \div SectorSize

\* Drop from e the sectors before l.
Skip(e, l) == [pstart |-> next_psector(e.pstart, l - e.lstart),
               lstart |-> l, len |-> e.len - (l - e.lstart)]

\* What this_extent becomes at the start of a call: what is known at l.
Usable(l) ==
    LET e == IF Within(l, this) THEN this ELSE next
    IN  IF Within(l, e) THEN Skip(e, l)
        ELSE [pstart |-> e.pstart, lstart |-> l, len |-> 0]

\* A request for no sector, or at the end of the file, returns 0 at once and
\* leaves the caller's have_more unset.
ReadFile(n) ==
    /\ pc = "open"
    /\ bytesLeft' = BytesLeft /\ lsector' = offset \div SectorSize
    /\ left' = MinOf(n, SectorsLeft)
    /\ got' = 0 /\ buf' = NoData
    /\ IF left' = 0
       THEN pc' \in {"open", "closed"} /\ UNCHANGED this
       ELSE pc' = "fill" /\ this' = Usable(lsector')
    /\ UNCHANGED <<file, size, offset, next, failed>>

\* next_extent does not continue this_extent.
Stale == next.len = 0 \/ next.lstart # this.lstart + this.len

\* get_next_extent
CallNextExtent ==
    /\ pc = "fill" /\ left > this.len /\ Stale
    /\ pc' = "driver"
    /\ UNCHANGED <<io, size, next, failed>>

\* Slip: extents that follow each other in the file are joined wherever they are.
ContiguousAnyhow == next.len # 0

Contiguous == next.len # 0 /\ next.pstart = next_psector(this.pstart, this.len)

\* The inner loop once it has a next extent: start with it, join it, or stop
\* looking ahead.
Join ==
    /\ pc = "join" \/ (pc = "fill" /\ left > this.len /\ ~Stale)
    /\ \/ /\ this.len = 0 /\ this' = next
          /\ IF next.len = 0 THEN left' = 0 /\ pc' = "io"
                             ELSE pc' = "fill" /\ UNCHANGED left
       \/ /\ this.len # 0 /\ Contiguous
          /\ this' = [this EXCEPT !.len = @ + next.len]
          /\ pc' = "fill" /\ UNCHANGED left
       \/ /\ this.len # 0 /\ ~Contiguous
          /\ pc' = "io" /\ UNCHANGED <<this, left>>
    /\ UNCHANGED <<file, size, offset, next, lsector, bytesLeft, got, buf, failed>>

Chunk == MinOf(left, this.len)

\* The next Chunk sectors go to the buffer.  The result of rdwr_sectors is not
\* looked at: after a failure the caller's buffer holds whatever it held.
Transferred(n, ok) ==
    [i \in 1 .. got + n |-> IF i <= got THEN buf[i]
                            ELSE IF ok THEN next_psector(this.pstart, i - got - 1)
                            ELSE EXTENT_VOID]

ReadChunk ==
    /\ pc = "io" \/ (pc = "fill" /\ left <= this.len)
    /\ \E ok \in BOOLEAN :
        /\ ok \/ (Faults /\ Chunk > 0 /\ this.pstart # EXTENT_ZERO)
        /\ buf' = Transferred(Chunk, ok)
        /\ failed' = (failed \/ ~ok)
    /\ this' = [pstart |-> IF this.pstart = EXTENT_ZERO THEN this.pstart
                           ELSE this.pstart + Chunk,
                lstart |-> this.lstart + Chunk, len |-> this.len - Chunk]
    /\ got' = got + Chunk /\ left' = left - Chunk
    /\ pc' = IF left' = 0 THEN "return" ELSE "fill"
    /\ UNCHANGED <<file, size, offset, next, lsector, bytesLeft>>

\* The return to pmapi_read_file, which closes the file at its end.
BytesRead == MinOf(got * SectorSize, bytesLeft)

Return ==
    /\ pc = "return"
    /\ offset' = offset + BytesRead
    /\ pc' = IF BytesRead < bytesLeft THEN "open" ELSE "closed"
    /\ UNCHANGED <<file, size, this, next, lsector, left, bytesLeft, got, buf, failed>>

-----------------------------------------------------------------------------
(* The driver's side: next_extent *)

Lstart == this.lstart + this.len

\* e says where file sectors really are.
Maps(e) ==
    \A i \in 0 .. e.len - 1 :
        /\ e.lstart + i \in DOMAIN file.map
        /\ file.map[e.lstart + i] = next_psector(e.pstart, i)

NextExtentFound ==
    /\ Lstart \in DOMAIN file.map
    /\ \E n \in 1 .. MaxExtent :
           next' = [pstart |-> file.map[Lstart], lstart |-> Lstart, len |-> n]
    /\ Maps(next')
    /\ UNCHANGED <<size, failed>>

NextExtentFails ==
    /\ next' = [next EXCEPT !.lstart = Lstart, !.len = 0]
    /\ size' \in 0 .. size
    /\ UNCHANGED failed

NextExtentMisled ==
    /\ Faults \/ failed
    /\ next' \in [pstart : Int, lstart : {Lstart}, len : Nat]
    /\ size' \in 0 .. size /\ failed' = TRUE

\* What the filesystems promise: a run of sectors that starts at Lstart, or an
\* error.  A driver that met a disk error may answer anything.
NextExtent ==
    /\ pc = "driver" /\ pc' = "join"
    /\ NextExtentFound \/ NextExtentFails \/ NextExtentMisled
    /\ UNCHANGED io

\* A read of the disk by the driver itself fails, for the moment unnoticed.
DriverReadFails ==
    /\ pc = "driver" /\ Faults /\ failed' = TRUE
    /\ UNCHANGED <<io, size, next, pc>>

-----------------------------------------------------------------------------
Steps == CallNextExtent \/ Join \/ ReadChunk \/ Return

Next == (\E n \in Requests : ReadFile(n)) \/ Steps \/ NextExtent \/ DriverReadFails

Spec == Init /\ [][Next]_vars

-----------------------------------------------------------------------------
(* Properties *)

TypeOK ==
    /\ file \in Files /\ size \in 0 .. Word - 1 /\ size <= file.size
    /\ offset \in Nat /\ this \in Extent /\ next \in Extent
    /\ pc \in {"open", "fill", "driver", "join", "io", "return", "closed"}
    /\ lsector \in Nat /\ left \in Nat /\ bytesLeft \in 0 .. Word - 1
    /\ got \in Nat /\ buf \in [1 .. got -> Int] /\ failed \in BOOLEAN

\* Whatever extents generic_getfssec looked ahead to, joined, cut or kept from
\* an earlier call, the i-th sector it puts into the caller's buffer is the
\* i-th sector of the file from the offset on.
Delivered ==
    ~failed => \A i \in 1 .. got :
                   /\ lsector + i - 1 \in DOMAIN file.map
                   /\ buf[i] = file.map[lsector + i - 1]

\* pmapi_read_file closes the file only when all its bytes have been read,
\* unless the driver has found the file shorter than its directory entry says.
ClosedAtEnd == pc = "closed" /\ size = file.size => offset = size
=============================================================================
