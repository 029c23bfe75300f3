--------------------------- MODULE GetfssecProofs ---------------------------
(***************************************************************************)
(* For every file, every driver that keeps its contract and every sequence *)
(* of requests: what generic_getfssec delivers is the file, and the file   *)
(* is closed only at its end.                                              *)
(*                                                                         *)
(* The argument: both remembered extents always map the file truthfully,   *)
(* and during a call this_extent starts at the next sector the caller is   *)
(* to get, so that joining, cutting and reading keep both facts.           *)
(***************************************************************************)
EXTENDS Getfssec, TLAPS

USE DEF EXTENT_ZERO, EXTENT_VOID, EXTENT_SPECIAL

InCall == pc \in {"fill", "driver", "join", "io"}

\* What a step relies on besides the types.
Tracks ==
    /\ ~failed => Maps(this) /\ Maps(next)
    /\ InCall => this.lstart = lsector + got
    /\ pc = "join" => next.lstart = this.lstart + this.len

Inv == TypeOK /\ Tracks /\ Delivered

\* The whole-number arithmetic the steps use.
LEMMA Quotient ==
    ASSUME NEW a \in Nat, NEW b \in Nat \ {0}
    PROVE  a \div b \in Nat
BY SMT

LEMMA Remainder ==
    ASSUME NEW a \in Int, NEW b \in Nat \ {0}
    PROVE  a % b \in 0 .. b - 1
BY SMT

LEMMA SmallRemainder ==
    ASSUME NEW b \in Nat \ {0}, NEW a \in 0 .. b - 1
    PROVE  a % b = a
BY SMT

LEMMA Product ==
    ASSUME NEW a \in Nat, NEW b \in Nat
    PROVE  a * b \in Nat
BY SMT

LEMMA InvInit == Init => Inv
<1> SUFFICES ASSUME Init PROVE Inv
    OBVIOUS
<1>1. file \in Files /\ file.size \in 0 .. Word - 1
    BY FilesAssumption DEF Init
<1>2. TypeOK
    <2>1. NoData \in [1 .. 0 -> Int] /\ NoExtent \in Extent /\ 0 \in 0 .. Word - 1
        BY SizesAssumption DEF NoData, NoExtent, Extent
    <2>2. buf \in [1 .. got -> Int]
        BY <2>1 DEF Init
    <2>3. size \in 0 .. Word - 1 /\ size <= file.size
        BY <1>1 DEF Init
    <2> QED BY <1>1, <2>1, <2>2, <2>3 DEF Init, TypeOK
<1>3. Tracks /\ Delivered
    BY DEF Init, Tracks, Delivered, InCall, Maps, NoExtent
<1> QED BY <1>2, <1>3 DEF Inv

\* A call starts from what is known of its first sector.
LEMMA UsableMaps ==
    ASSUME NEW l \in Nat, this \in Extent, next \in Extent
    PROVE  /\ Usable(l) \in Extent /\ Usable(l).lstart = l
           /\ Maps(this) /\ Maps(next) => Maps(Usable(l))
<1> DEFINE e == IF Within(l, this) THEN this ELSE next
<1>1. e \in Extent /\ (Maps(this) /\ Maps(next) => Maps(e))
    OBVIOUS
<1>2. CASE Within(l, e)
    <2>1. Usable(l) = [pstart |-> next_psector(e.pstart, l - e.lstart),
                       lstart |-> l, len |-> e.len - (l - e.lstart)]
        BY <1>2 DEF Usable, Skip
    <2>2. l - e.lstart \in Nat /\ e.len - (l - e.lstart) \in Nat
        BY <1>1, <1>2 DEF Within, Extent
    <2>3. next_psector(e.pstart, l - e.lstart) \in Int
        BY <1>1, <2>2 DEF next_psector, Extent
    <2>4. ASSUME Maps(e), NEW i \in 0 .. e.len - (l - e.lstart) - 1
          PROVE  /\ l + i \in DOMAIN file.map
                 /\ file.map[l + i] = next_psector(next_psector(e.pstart, l - e.lstart), i)
        <3>1. (l - e.lstart) + i \in 0 .. e.len - 1 /\ e.lstart + ((l - e.lstart) + i) = l + i
            BY <1>1, <2>2, <2>4 DEF Extent
        <3>2. next_psector(next_psector(e.pstart, l - e.lstart), i)
                = next_psector(e.pstart, (l - e.lstart) + i)
            BY <1>1, <2>2, <2>4 DEF next_psector, Extent
        <3> QED BY <2>4, <3>1, <3>2 DEF Maps
    <2> HIDE DEF e
    <2> QED BY <1>1, <2>1, <2>2, <2>3, <2>4 DEF Maps, Extent
<1>3. CASE ~Within(l, e)
    <2>1. Usable(l) = [pstart |-> e.pstart, lstart |-> l, len |-> 0]
        BY <1>3 DEF Usable
    <2> HIDE DEF e
    <2> QED BY <1>1, <2>1 DEF Maps, Extent
<1> QED BY <1>2, <1>3

LEMMA ReadFileKeeps == Inv /\ (\E n \in Requests : ReadFile(n)) => Inv'
<1> SUFFICES ASSUME Inv, NEW n \in Requests, ReadFile(n) PROVE Inv'
    OBVIOUS
<1> USE DEF Inv
<1>1. BytesLeft \in 0 .. Word - 1 /\ SectorsLeft \in Nat /\ offset \div SectorSize \in Nat
    <2>1. BytesLeft \in 0 .. Word - 1
        <3>1. size - offset \in Int /\ Word \in Nat \ {0}
            BY SizesAssumption DEF TypeOK
        <3> QED BY <3>1, Remainder DEF BytesLeft
    <2>2. (BytesLeft + SectorSize - 1) % Word \in Nat
        BY <2>1, Remainder, SizesAssumption
    <2> QED BY <2>1, <2>2, Quotient, SizesAssumption DEF TypeOK, SectorsLeft
<1>2. left' \in Nat
    BY <1>1, SizesAssumption DEF ReadFile, MinOf
<1>3. /\ Usable(lsector') \in Extent /\ Usable(lsector').lstart = lsector'
      /\ Maps(this) /\ Maps(next) => Maps(Usable(lsector'))
    BY <1>1, UsableMaps DEF ReadFile, TypeOK
<1>4. TypeOK'
    BY <1>1, <1>2, <1>3 DEF ReadFile, TypeOK, NoData
<1>5. Maps(next)' <=> Maps(next)
    BY DEF ReadFile, Maps
<1>6. CASE this' = Usable(lsector')
    <2>1. Maps(this)' <=> Maps(Usable(lsector'))
        BY <1>6 DEF ReadFile, Maps
    <2> QED BY <1>3, <1>4, <1>5, <1>6, <2>1, SizesAssumption
            DEF ReadFile, Tracks, Delivered, InCall, TypeOK
<1>7. CASE UNCHANGED this /\ pc' \in {"open", "closed"}
    <2>1. Maps(this)' <=> Maps(this)
        BY <1>7 DEF ReadFile, Maps
    <2> QED BY <1>4, <1>5, <1>7, <2>1 DEF ReadFile, Tracks, Delivered, InCall
<1> QED BY <1>6, <1>7 DEF ReadFile

LEMMA DriverKeeps == Inv /\ (CallNextExtent \/ NextExtent \/ DriverReadFails) => Inv'
<1> USE DEF Inv
<1>1. ASSUME Inv, CallNextExtent PROVE Inv'
    BY <1>1 DEF CallNextExtent, io, TypeOK, Tracks, Delivered, InCall, Maps
<1>2. ASSUME Inv, DriverReadFails PROVE Inv'
    BY <1>2 DEF DriverReadFails, io, TypeOK, Tracks, Delivered, InCall
<1>3. ASSUME Inv, NextExtent PROVE Inv'
    <2> USE <1>3
    <2>1. Lstart \in Nat /\ Lstart = this.lstart + this.len
        BY DEF TypeOK, Extent, Lstart
    <2>0. size \in 0 .. Word - 1 /\ file.size \in 0 .. Word - 1 /\ size <= file.size
        BY FilesAssumption DEF TypeOK
    <2>2. /\ next' \in Extent /\ next'.lstart = Lstart
          /\ size' \in 0 .. Word - 1 /\ size' <= file.size
          /\ failed' \in BOOLEAN /\ (failed => failed')
          /\ ~failed' => Maps(next')
        <3>1. CASE NextExtentFound
            <4>1. file.map[Lstart] \in Int
                BY <3>1, FilesAssumption DEF NextExtentFound, TypeOK
            <4> QED BY <2>1, <3>1, <4>1 DEF NextExtentFound, TypeOK, Extent
        <3>2. CASE NextExtentFails
            <4>1. next' \in Extent /\ next'.lstart = Lstart /\ next'.len = 0
                BY <2>1, <3>2 DEF NextExtentFails, TypeOK, Extent
            <4>2. size' \in 0 .. Word - 1 /\ size' <= file.size
                BY <2>0, <3>2, SizesAssumption DEF NextExtentFails
            <4>3. Maps(next')
                BY <4>1 DEF Maps
            <4> QED BY <3>2, <4>1, <4>2, <4>3 DEF NextExtentFails, TypeOK
        <3>3. CASE NextExtentMisled
            <4>1. next' \in Extent /\ next'.lstart = Lstart
                BY <2>1, <3>3 DEF NextExtentMisled, Extent
            <4>2. size' \in 0 .. Word - 1 /\ size' <= file.size
                BY <2>0, <3>3, SizesAssumption DEF NextExtentMisled
            <4> QED BY <3>3, <4>1, <4>2 DEF NextExtentMisled
        <3> QED BY <3>1, <3>2, <3>3 DEF NextExtent
    <2>3. TypeOK'
        BY <2>2 DEF NextExtent, io, TypeOK
    <2>4. /\ Maps(this)' <=> Maps(this)
          /\ Maps(next)' <=> Maps(next')
        BY DEF NextExtent, io, Maps
    <2>5. Tracks'
        BY <2>1, <2>2, <2>4 DEF NextExtent, io, Tracks, InCall
    <2>6. Delivered'
        BY <2>2 DEF NextExtent, io, Delivered
    <2> QED BY <2>3, <2>5, <2>6
<1> QED BY <1>1, <1>2, <1>3

LEMMA JoinKeeps == Inv /\ Join => Inv'
<1> SUFFICES ASSUME Inv, Join PROVE Inv'
    OBVIOUS
<1> USE DEF Inv
<1>0. this \in Extent /\ next \in Extent
    BY DEF TypeOK
<1>1. next.lstart = this.lstart + this.len
    BY DEF Join, Tracks, Stale
<1>2. this.lstart = lsector + got
    BY DEF Join, Tracks, InCall
<1>3. Maps(next)' <=> Maps(next)
    BY DEF Join, Maps
<1>4. CASE this.len = 0
    <2>1. this' = next /\ left' \in {0, left} /\ pc' \in {"io", "fill"}
        BY <1>4 DEF Join
    <2>2. Maps(this)' <=> Maps(next)
        BY <2>1 DEF Join, Maps
    <2>3. TypeOK'
        BY <2>1 DEF Join, TypeOK
    <2>4. this'.lstart = lsector' + got'
        BY <1>0, <1>1, <1>2, <1>4, <2>1 DEF Join, Extent
    <2> QED BY <1>3, <2>1, <2>2, <2>3, <2>4 DEF Join, Tracks, Delivered, InCall
<1>5. CASE this.len # 0 /\ Contiguous
    <2>1. this' = [this EXCEPT !.len = @ + next.len] /\ pc' = "fill" /\ left' = left
        BY <1>5 DEF Join
    <2>2. this' \in Extent /\ this'.lstart = this.lstart /\ this'.pstart = this.pstart
                           /\ this'.len = this.len + next.len
        BY <1>0, <2>1 DEF Extent
    <2>3. ASSUME Maps(this), Maps(next) PROVE Maps(this)'
        <3> SUFFICES ASSUME NEW i \in 0 .. this.len + next.len - 1
                     PROVE  /\ this.lstart + i \in DOMAIN file.map
                            /\ file.map[this.lstart + i] = next_psector(this.pstart, i)
            <4>1. file' = file
                BY DEF Join
            <4> QED BY <1>0, <2>2, <4>1 DEF Maps, Extent, next_psector
        <3>1. CASE i < this.len
            BY <1>0, <2>3, <3>1 DEF Maps, Extent
        <3>2. CASE i >= this.len
            <4>1. /\ i - this.len \in 0 .. next.len - 1
                  /\ next.lstart + (i - this.len) = this.lstart + i
                BY <1>0, <1>1, <3>2 DEF Extent
            <4>2. next_psector(next.pstart, i - this.len) = next_psector(this.pstart, i)
                BY <1>0, <1>5, <3>2 DEF Contiguous, next_psector, Extent
            <4> QED BY <2>3, <4>1, <4>2 DEF Maps
        <3> QED BY <1>0, <3>1, <3>2 DEF Extent
    <2>4. TypeOK'
        BY <2>1, <2>2 DEF Join, TypeOK
    <2> QED BY <1>2, <1>3, <2>1, <2>2, <2>3, <2>4 DEF Join, Tracks, Delivered, InCall
<1>6. CASE this.len # 0 /\ ~Contiguous
    <2>1. UNCHANGED this /\ left' = left /\ pc' = "io"
        BY <1>6 DEF Join
    <2>2. Maps(this)' <=> Maps(this)
        BY <2>1 DEF Join, Maps
    <2>3. TypeOK'
        BY <2>1 DEF Join, TypeOK
    <2> QED BY <1>2, <1>3, <2>1, <2>2, <2>3 DEF Join, Tracks, Delivered, InCall
<1> QED BY <1>4, <1>5, <1>6 DEF Join

LEMMA ReadChunkKeeps == Inv /\ ReadChunk => Inv'
<1> SUFFICES ASSUME Inv, ReadChunk PROVE Inv'
    OBVIOUS
<1> USE DEF Inv
<1>0. this \in Extent /\ next \in Extent /\ left \in Nat /\ got \in Nat /\ lsector \in Nat
    BY DEF TypeOK
<1>1. Chunk \in Nat /\ Chunk <= this.len /\ Chunk <= left
    BY <1>0 DEF Chunk, MinOf, Extent
<1>2. this.lstart = lsector + got
    BY DEF ReadChunk, Tracks, InCall
<1>3. PICK ok \in BOOLEAN : buf' = Transferred(Chunk, ok) /\ failed' = (failed \/ ~ok)
    BY DEF ReadChunk
<1>4. /\ got' = got + Chunk /\ left' = left - Chunk /\ pc' \in {"return", "fill"}
      /\ this'.pstart = IF this.pstart = EXTENT_ZERO THEN this.pstart ELSE this.pstart + Chunk
      /\ this'.lstart = this.lstart + Chunk /\ this'.len = this.len - Chunk
      /\ UNCHANGED <<file, size, offset, next, lsector, bytesLeft>>
    BY DEF ReadChunk
<1>5. TypeOK'
    <2>1. this' \in Extent
        BY <1>0, <1>1 DEF ReadChunk, Extent
    <2>2. left' \in Nat /\ got' \in Nat
        BY <1>0, <1>1, <1>4
    <2>3. \A i \in 1 .. got : buf[i] \in Int
        BY DEF TypeOK
    <2>4. \A i \in 1 .. got + Chunk : next_psector(this.pstart, i - got - 1) \in Int
        BY <1>0, <1>1 DEF next_psector, Extent
    <2>5. buf' \in [1 .. got' -> Int]
        <3>1. \A i \in 1 .. got + Chunk : ~(i <= got) \/ i \in 1 .. got
            BY <1>0, <1>1
        <3>2. \A i \in 1 .. got + Chunk :
                 (IF i <= got THEN buf[i]
                  ELSE IF ok THEN next_psector(this.pstart, i - got - 1)
                  ELSE EXTENT_VOID) \in Int
            BY <2>3, <2>4, <3>1
        <3> QED BY <1>3, <1>4, <3>2 DEF Transferred
    <2>6. failed' \in BOOLEAN
        BY <1>3 DEF TypeOK
    <2> QED BY <1>4, <2>1, <2>2, <2>5, <2>6 DEF TypeOK
<1>6. ASSUME ~failed' PROVE Maps(this)' /\ Maps(next)'
    <2>1. Maps(this) /\ Maps(next) /\ ok
        BY <1>3, <1>6 DEF Tracks, TypeOK
    <2>2. Maps(next)'
        BY <1>4, <2>1 DEF Maps
    <2>3. SUFFICES ASSUME NEW i \in 0 .. this.len - Chunk - 1
                   PROVE  /\ this.lstart + Chunk + i \in DOMAIN file.map
                          /\ file.map[this.lstart + Chunk + i] = next_psector(this'.pstart, i)
        BY <1>0, <1>1, <1>4, <2>2 DEF Maps, Extent, next_psector
    <2>4. Chunk + i \in 0 .. this.len - 1 /\ this.lstart + (Chunk + i) = this.lstart + Chunk + i
        BY <1>0, <1>1 DEF Extent
    <2>5. /\ this.lstart + (Chunk + i) \in DOMAIN file.map
          /\ file.map[this.lstart + (Chunk + i)] = next_psector(this.pstart, Chunk + i)
        BY <2>1, <2>4 DEF Maps
    <2>6. this.pstart \in Nat \cup {EXTENT_ZERO}
        <3>1. file \in Files /\ 0 \in 0 .. this.len - 1 /\ this.lstart + 0 \in Nat
            BY <1>0, <1>1 DEF TypeOK, Extent
        <3>2. /\ this.lstart + 0 \in DOMAIN file.map
              /\ file.map[this.lstart + 0] = next_psector(this.pstart, 0)
            BY <2>1, <3>1 DEF Maps
        <3>3. next_psector(this.pstart, 0) = this.pstart
            BY <1>0 DEF next_psector, Extent
        <3> QED BY <3>1, <3>2, <3>3, FilesAssumption
    <2>7. next_psector(this'.pstart, i) = next_psector(this.pstart, Chunk + i)
        BY <1>1, <1>4, <2>6 DEF next_psector
    <2> QED BY <2>4, <2>5, <2>7
<1>7. Tracks'
    BY <1>0, <1>1, <1>2, <1>4, <1>6 DEF Tracks, InCall, Extent
<1>8. Delivered'
    <2> SUFFICES ASSUME ~failed', NEW i \in 1 .. got + Chunk
                 PROVE  /\ lsector + i - 1 \in DOMAIN file.map
                        /\ buf'[i] = file.map[lsector + i - 1]
        BY <1>0, <1>1, <1>4 DEF Delivered
    <2>1. Maps(this) /\ ok /\ ~failed
        BY <1>3 DEF Tracks, TypeOK
    <2>2. CASE i <= got
        <3>1. buf'[i] = buf[i] /\ i \in 1 .. got
            BY <1>0, <1>3, <2>2 DEF Transferred
        <3> QED BY <2>1, <3>1 DEF Delivered
    <2>3. CASE i > got
        <3>1. i - got - 1 \in 0 .. this.len - 1
            BY <1>0, <1>1, <2>3 DEF Extent
        <3>2. this.lstart + (i - got - 1) = lsector + i - 1
            BY <1>0, <1>2 DEF Extent
        <3>3. buf'[i] = next_psector(this.pstart, i - got - 1)
            BY <1>0, <1>1, <1>3, <2>1, <2>3 DEF Transferred
        <3> QED BY <2>1, <3>1, <3>2, <3>3 DEF Maps
    <2> QED BY <1>0, <1>1, <2>2, <2>3
<1> QED BY <1>5, <1>7, <1>8

LEMMA ReturnKeeps == Inv /\ Return => Inv'
<1> SUFFICES ASSUME Inv, Return PROVE Inv'
    OBVIOUS
<1> USE DEF Inv
<1>1. got * SectorSize \in Nat
    BY Product, SizesAssumption DEF TypeOK
<1>2. offset' \in Nat
    BY <1>1 DEF Return, BytesRead, MinOf, TypeOK
<1>3. TypeOK'
    BY <1>2 DEF Return, TypeOK
<1>4. (Maps(this)' <=> Maps(this)) /\ (Maps(next)' <=> Maps(next))
    BY DEF Return, Maps
<1> QED BY <1>3, <1>4 DEF Return, Tracks, Delivered, InCall

LEMMA InvNext == Inv /\ [Next]_vars => Inv'
<1> SUFFICES ASSUME Inv, [Next]_vars PROVE Inv'
    OBVIOUS
<1>1. CASE UNCHANGED vars
    <2>1. (Maps(this)' <=> Maps(this)) /\ (Maps(next)' <=> Maps(next))
        BY <1>1 DEF vars, Maps
    <2> QED BY <1>1, <2>1 DEF vars, Inv, TypeOK, Tracks, Delivered, InCall
<1>2. CASE Next
    BY <1>2, ReadFileKeeps, DriverKeeps, JoinKeeps, ReadChunkKeeps, ReturnKeeps DEF Next, Steps
<1> QED BY <1>1, <1>2

\* generic_getfssec puts the file's sectors, and nothing else, into the
\* caller's buffer, for every file, every cut into extents a driver makes and
\* every sequence of requests, as long as no read of the disk fails.
THEOREM DeliversTheFile == Spec => []Delivered
<1>1. Inv => Delivered
    BY DEF Inv
<1> QED BY <1>1, InvInit, InvNext, PTL DEF Spec

-----------------------------------------------------------------------------
(* The end of the file *)

\* No file is within a sector of the largest uint32_t.
NoWrap == \A f \in Files : f.size + SectorSize <= Word

\* As long as the driver has not cut the file down, the offset stays within it
\* and a call knows what is left.
AtOffset ==
    size = file.size =>
        /\ offset <= size
        /\ InCall \/ pc = "return" => bytesLeft = size - offset
        /\ pc = "closed" => offset = size

LEMMA AtOffsetReadFile ==
    ASSUME NoWrap, Inv, AtOffset, NEW n \in Requests, ReadFile(n)
    PROVE  AtOffset'
<1> SUFFICES ASSUME size = file.size
             PROVE  /\ offset <= size /\ bytesLeft' = size - offset
                    /\ pc' = "closed" => offset = size
    BY DEF ReadFile, AtOffset
<1>1. /\ SectorSize \in Nat \ {0} /\ Word \in Nat \ {0} /\ n \in Nat \ {0}
      /\ size \in Nat /\ offset \in Nat /\ offset <= size /\ size + SectorSize <= Word
    BY SizesAssumption DEF NoWrap, Inv, TypeOK, AtOffset
<1>2. BytesLeft = size - offset
    <2>1. size - offset \in 0 .. Word - 1
        BY <1>1
    <2> QED BY <1>1, <2>1, SmallRemainder DEF BytesLeft
<1>3. ASSUME pc' = "closed" PROVE offset = size
    <2>1. MinOf(n, SectorsLeft) = 0
        BY <1>3 DEF ReadFile
    <2>2. BytesLeft + SectorSize - 1 \in 0 .. Word - 1
        BY <1>1, <1>2
    <2>3. SectorsLeft = (BytesLeft + SectorSize - 1) \div SectorSize
        BY <1>1, <2>2, SmallRemainder DEF SectorsLeft
    <2>4. SectorsLeft = 0
        BY <1>1, <2>1 DEF MinOf
    <2>5. ASSUME NEW a \in Nat, a \div SectorSize = 0 PROVE a < SectorSize
        BY <1>1, <2>5
    <2>6. BytesLeft + SectorSize - 1 < SectorSize
        BY <2>2, <2>3, <2>4, <2>5
    <2> QED BY <1>1, <1>2, <2>6
<1> QED BY <1>1, <1>2, <1>3 DEF ReadFile

LEMMA AtOffsetNext == NoWrap /\ Inv /\ AtOffset /\ [Next]_vars => AtOffset'
<1> SUFFICES ASSUME NoWrap, Inv, AtOffset, [Next]_vars PROVE AtOffset'
    OBVIOUS
<1>1. CASE \E n \in Requests : ReadFile(n)
    BY <1>1, AtOffsetReadFile
<1>2. CASE CallNextExtent \/ Join \/ ReadChunk \/ DriverReadFails \/ UNCHANGED vars
    BY <1>2 DEF CallNextExtent, Join, ReadChunk, DriverReadFails, io, vars, AtOffset, InCall
<1>3. CASE NextExtent
    <2>1. file.size \in Int /\ size \in Int /\ size <= file.size
        BY FilesAssumption, SizesAssumption DEF Inv, TypeOK
    <2>2. size' \in Int /\ size' <= size
        BY <1>3, <2>1 DEF NextExtent, NextExtentFound, NextExtentFails, NextExtentMisled
    <2>3. size' = file.size => size = file.size
        BY <2>1, <2>2
    <2> QED BY <1>3, <2>3 DEF NextExtent, io, AtOffset, InCall
<1>4. CASE Return
    <2>1. got * SectorSize \in Nat
        BY Product, SizesAssumption DEF Inv, TypeOK
    <2>2. size \in Int /\ offset \in Int /\ bytesLeft \in Nat
        BY SizesAssumption DEF Inv, TypeOK
    <2> QED BY <1>4, <2>1, <2>2 DEF Return, BytesRead, MinOf, AtOffset, InCall
<1> QED BY <1>1, <1>2, <1>3, <1>4 DEF Next, Steps

\* pmapi_read_file closes a file only once all of it has been read, unless the
\* driver has found it shorter than its directory entry says.  The file must
\* not be within a sector of 4 GiB, where sectors_left wraps to 0.
THEOREM ClosesAtTheEnd == NoWrap => (Spec => []ClosedAtEnd)
<1> SUFFICES ASSUME NoWrap PROVE Spec => []ClosedAtEnd
    OBVIOUS
<1>1. Init => AtOffset
    <2>1. Init => size \in Nat
        BY FilesAssumption, SizesAssumption DEF Init
    <2> QED BY <2>1 DEF Init, AtOffset, InCall
<1>2. Inv /\ AtOffset /\ [Next]_vars => AtOffset'
    BY AtOffsetNext
<1>3. AtOffset => ClosedAtEnd
    BY DEF AtOffset, ClosedAtEnd
<1> QED BY <1>1, <1>2, <1>3, InvInit, InvNext, PTL DEF Spec
=============================================================================
