------------------------------ MODULE FatFile -------------------------------
(***************************************************************************)
(* Reading a file of a FAT volume from end to end: read() on a file        *)
(* descriptor (com32/lib/sys/fileread.c) over pmapi_read_file and          *)
(* generic_getfssec (Getfssec), whose extents come from fat_next_extent    *)
(* (core/fs/fat/fat.c), which follows the cluster chain in FAT sectors it  *)
(* gets through the block cache (Cache).  In some behaviours the driver is *)
(* the abstract one of Getfssec instead, for the extents FAT never makes.  *)
(***************************************************************************)
EXTENDS Getfssec, Cache

CONSTANTS
    Volumes,        \* [kind, secs, fat, start, size]: a volume and a file on it
    OtherFiles,     \* files read through the abstract driver
    Clusters,       \* sbi->clusters
    FatSector,      \* sbi->fat
    DataSector,     \* sbi->data
    Entries,        \* dev->cache_entries
    MAXBLOCK,       \* size of a file descriptor's buffer
    Counts          \* what read() is called with

VARIABLES
    vol,        \* the volume, or NoVolume
    cache,      \* the block cache of the device
    pvt,        \* PVT(inode): [offset, here], both counted in clusters
    drv,        \* fat_next_extent's locals
    rd,         \* __file_read's locals
    fbuf,       \* bytes in the descriptor's buffer from datap on
    foff,       \* fp->i.offset
    out         \* bytes read() has returned so far

fatVars == <<cache, pvt, drv>>
readVars == <<rd, fbuf, foff, out>>
allVars == <<vars, vol, fatVars, readVars>>

NoVolume == [kind |-> 0]

ClusterNos == 2 .. Clusters + 1

-----------------------------------------------------------------------------
(* The FAT on the disk *)

EndOfChain(k) == CASE k = 12 -> 2^12 - 1 [] k = 16 -> 2^16 - 1 [] k = 32 -> 2^28 - 1

\* The value of FAT entry c; the first two entries are reserved.
FatEntry(v, c) == IF c \notin ClusterNos \/ v.fat[c] = -1 THEN EndOfChain(v.kind)
                  ELSE v.fat[c]

\* Byte k of the table: three nibbles per entry of a FAT12, little-endian words
\* otherwise, with the four reserved bits of a FAT32 entry set.
FatByte(v, k) ==
    LET nibble(n) == (FatEntry(v, n \div 3) \div 16^(n % 3)) % 16
        part(w) == (FatEntry(v, k \div w) \div 256^(k % w)) % 256
    IN  CASE v.kind = 12 -> nibble(2 * k) + 16 * nibble(2 * k + 1)
          [] v.kind = 16 -> part(2)
          [] v.kind = 32 -> part(4) + (IF k % 4 = 3 THEN 240 ELSE 0)

\* The sectors of the file: the cluster chain from its first cluster on.
FileOf(v) ==
    LET bytes == v.secs * SectorSize
        wanted == (v.size + bytes - 1) \div bytes
        chain[i \in 0 .. wanted] ==
            IF i = 0 THEN v.start
            ELSE IF chain[i - 1] \in ClusterNos THEN FatEntry(v, chain[i - 1])
            ELSE EndOfChain(v.kind)
        there == {i \in 0 .. wanted - 1 : \A j \in 0 .. i : chain[j] \in ClusterNos}
    IN  [map  |-> [l \in {l \in 0 .. wanted * v.secs - 1 : l \div v.secs \in there} |->
                      DataSector + (chain[l \div v.secs] - 2) * v.secs + (l % v.secs)],
         size |-> v.size]

-----------------------------------------------------------------------------
(* fat.c: fat_next_extent *)

\* A byte of the FAT sector whose data a cache entry holds.
ByteAt(d, o) == IF d = NoBlock THEN 0 ELSE FatByte(vol, (d - FatSector) * SectorSize + o)

\* Where the entry of cluster p starts in the table.
FatOffset(p) == CASE vol.kind = 12 -> p + p \div 2 [] vol.kind = 16 -> 2 * p
                  [] vol.kind = 32 -> 4 * p

\* A FAT12 entry may start at the last byte of a sector.
Across(p) == vol.kind = 12 /\ FatOffset(p) % SectorSize = SectorSize - 1

\* The cache entries get_next_cluster needs: one block, or two.
FatBlock(p) == FatSector + FatOffset(p) \div SectorSize

CacheAfter(p, ok) ==
    LET c == get_cache(cache, FatBlock(p), ok)
    IN  IF Across(p) THEN get_cache(c, FatBlock(p) + 1, ok) ELSE c

get_next_cluster(p, ok) ==
    LET first == Data(get_cache(cache, FatBlock(p), ok), FatBlock(p))
        byte(i) == IF i = 1 /\ Across(p) THEN ByteAt(Data(CacheAfter(p, ok), FatBlock(p) + 1), 0)
                   ELSE ByteAt(first, (FatOffset(p) % SectorSize) + i)
        word == byte(0) + 256 * byte(1)
    IN  CASE vol.kind = 12 -> IF p % 2 = 1 THEN word \div 16 ELSE word % 4096
          [] vol.kind = 16 -> word
          [] vol.kind = 32 -> word + 65536 * byte(2) + 2^24 * (byte(3) % 16)

\* Some disk read get_next_cluster would make.
Reads(p) == \/ Missing(cache, FatBlock(p))
            \/ Across(p) /\ Missing(cache, FatBlock(p) + 1)

\* An access to the FAT: ok is FALSE if a read of it fails.
Access(p, ok) ==
    /\ ok \/ (Faults /\ Reads(p))
    /\ cache' = CacheAfter(p, ok)
    /\ failed' = (failed \/ ~ok)

Off == [pc |-> "off"]

Walk(l, p) == [pc |-> "walk", l |-> l, p |-> p]

\* Clusters the file should have, and the one asked for.
Tcluster == (size + vol.secs * SectorSize - 1) \div (vol.secs * SectorSize)
Mcluster == Lstart \div vol.secs

FatFails(sz) ==
    /\ next' = [next EXCEPT !.lstart = Lstart, !.len = 0] /\ size' = sz
    /\ pc' = "join" /\ drv' = Off
    /\ UNCHANGED <<io, failed, cache, pvt>>

\* Where the walk starts: where the last call ended, or at the first cluster.
FatStart ==
    /\ pc = "driver" /\ vol # NoVolume /\ drv.pc = "off"
    /\ IF Mcluster >= Tcluster THEN FatFails(size)
       ELSE /\ drv' = IF pvt.offset > Mcluster THEN Walk(0, vol.start)
                      ELSE Walk(pvt.offset, pvt.here)
            /\ UNCHANGED <<vars, cache, pvt>>
    /\ UNCHANGED <<vol, readVars>>

\* A chain that ends too early cuts inode->size down, to a count of sectors.
FatWalk ==
    /\ drv.pc = "walk"
    /\ \/ /\ drv.p \notin ClusterNos
          /\ FatFails(drv.l * vol.secs)
       \/ /\ drv.p \in ClusterNos /\ drv.l >= Mcluster
          /\ drv' = [pc |-> "run", l |-> drv.l, p |-> drv.p, first |-> drv.p]
          /\ UNCHANGED <<vars, cache, pvt>>
       \/ /\ drv.p \in ClusterNos /\ drv.l < Mcluster
          /\ \E ok \in BOOLEAN :
                /\ Access(drv.p, ok)
                /\ drv' = [drv EXCEPT !.l = @ + 1, !.p = get_next_cluster(drv.p, ok)]
          /\ UNCHANGED <<io, size, next, pc, pvt>>
    /\ UNCHANGED <<vol, readVars>>

\* Slip: the cluster that ends the run is counted in.
FatDoneLong(l, x) ==
    /\ next' = [pstart |-> DataSector + (drv.first - 2) * vol.secs, lstart |-> Lstart,
                len    |-> (drv.p + 2 - drv.first) * vol.secs]
    /\ pvt' = [offset |-> l, here |-> x]
    /\ pc' = "join" /\ drv' = Off /\ UNCHANGED <<io, size>>

\* The extent is the clusters from drv.first to drv.p; l and x say where the
\* next call may go on.
FatDone(l, x) ==
    /\ next' = [pstart |-> DataSector + (drv.first - 2) * vol.secs, lstart |-> Lstart,
                len    |-> (drv.p + 1 - drv.first) * vol.secs]
    /\ pvt' = [offset |-> l, here |-> x]
    /\ pc' = "join" /\ drv' = Off /\ UNCHANGED <<io, size>>

\* As long as the next cluster of the chain is the next one on the disk.
FatRun ==
    /\ drv.pc = "run"
    /\ \/ /\ drv.l + 1 >= Tcluster
          /\ FatDone(drv.l + 1, IF drv.p = drv.first THEN 0 ELSE drv.p)
          /\ UNCHANGED <<failed, cache>>
       \/ /\ drv.l + 1 < Tcluster
          /\ \E ok \in BOOLEAN :
                LET x == get_next_cluster(drv.p, ok)
                IN  /\ Access(drv.p, ok)
                    /\ IF x = drv.p + 1
                       THEN /\ drv' = [drv EXCEPT !.l = @ + 1, !.p = x]
                            /\ UNCHANGED <<io, size, next, pc, pvt>>
                       ELSE FatDone(drv.l + 1, x)
    /\ UNCHANGED <<vol, readVars>>

\* The abstract driver.
OtherDriver ==
    /\ pc = "driver" /\ vol = NoVolume /\ pc' = "join"
    /\ NextExtentFound \/ (NextExtentFails /\ size' = size)
    /\ UNCHANGED <<io, vol, fatVars, readVars>>

-----------------------------------------------------------------------------
(* fileread.c: __file_read *)

ByteOf(p, k) == IF p < 0 THEN p ELSE p * SectorSize + k

\* What the last pmapi_read_file put into its buffer.
BufBytes == [i \in 1 .. BytesRead |->
                ByteOf(buf[((i - 1) \div SectorSize) + 1], (i - 1) % SectorSize)]

Read(c) ==
    /\ rd.pc = "idle"
    /\ rd' = [pc |-> "loop", count |-> c, n |-> 0]
    /\ UNCHANGED <<vars, vol, fatVars, fbuf, foff, out>>

\* The loop ends: all there, at the end of the file, or with an error.
ReturnRead(err) == rd' = [pc |-> IF rd.n > 0 \/ rd.count = 0 THEN "idle" ELSE err]

\* Slip: the test for a closed handle is left out.
ReadDoneOpen ==
    /\ rd.pc = "loop"
    /\ rd.count = 0 \/ (fbuf = <<>> /\ foff >= file.size)
    /\ ReturnRead("eof")
    /\ UNCHANGED <<vars, vol, fatVars, fbuf, foff, out>>

ReadDone ==
    /\ rd.pc = "loop"
    /\ rd.count = 0 \/ (fbuf = <<>> /\ (foff >= file.size \/ pc = "closed"))
    /\ ReturnRead("eof")
    /\ UNCHANGED <<vars, vol, fatVars, fbuf, foff, out>>

\* A large read goes to the caller's memory, any other through the buffer.
ReadBlock ==
    /\ rd.pc = "loop" /\ rd.count > 0 /\ fbuf = <<>> /\ foff < file.size
    /\ IF rd.count > MAXBLOCK
       THEN ReadFile(rd.count \div SectorSize) /\ rd' = [rd EXCEPT !.pc = "direct"]
       ELSE ReadFile(MAXBLOCK \div SectorSize) /\ rd' = [rd EXCEPT !.pc = "block"]
    /\ UNCHANGED <<vol, fatVars, fbuf, foff, out>>

Taken(n) == [rd EXCEPT !.pc = "loop", !.count = @ - n, !.n = @ + n]

GotBlock ==
    /\ pc \in {"open", "closed"} /\ rd.pc \in {"direct", "block"}
    /\ \/ /\ BytesRead = 0 /\ ReturnRead("error")
          /\ UNCHANGED <<fbuf, out>>
       \/ /\ BytesRead > 0 /\ rd.pc = "direct"
          /\ out' = out \o BufBytes /\ rd' = Taken(BytesRead)
          /\ UNCHANGED fbuf
       \/ /\ BytesRead > 0 /\ rd.pc = "block"
          /\ fbuf' = BufBytes /\ rd' = [rd EXCEPT !.pc = "loop"]
          /\ UNCHANGED out
    /\ UNCHANGED <<vars, vol, fatVars, foff>>

\* Slip: datap stays where it is.
CopyOutAgain ==
    /\ rd.pc = "loop" /\ rd.count > 0 /\ fbuf # <<>>
    /\ LET n == MinOf(rd.count, Len(fbuf))
       IN  /\ out' = out \o SubSeq(fbuf, 1, n) /\ fbuf' = SubSeq(fbuf, 1, Len(fbuf) - n)
           /\ foff' = foff + n /\ rd' = Taken(n)
    /\ UNCHANGED <<vars, vol, fatVars>>

CopyOut ==
    /\ rd.pc = "loop" /\ rd.count > 0 /\ fbuf # <<>>
    /\ LET n == MinOf(rd.count, Len(fbuf))
       IN  /\ out' = out \o SubSeq(fbuf, 1, n) /\ fbuf' = SubSeq(fbuf, n + 1, Len(fbuf))
           /\ foff' = foff + n /\ rd' = Taken(n)
    /\ UNCHANGED <<vars, vol, fatVars>>

-----------------------------------------------------------------------------
FatInit ==
    /\ vol \in Volumes \cup {NoVolume}
    /\ Init /\ file \in (IF vol = NoVolume THEN OtherFiles ELSE {FileOf(vol)})
    /\ cache = cache_init(Entries) /\ drv = Off
    /\ pvt = [offset |-> 0, here |-> IF vol = NoVolume THEN 0 ELSE vol.start]
    /\ rd = [pc |-> "idle"] /\ fbuf = <<>> /\ foff = 0 /\ out = <<>>

GetfssecStep == Steps /\ UNCHANGED <<vol, fatVars, readVars>>

FatNext ==
    \/ \E c \in Counts : Read(c)
    \/ ReadDone \/ ReadBlock \/ GotBlock \/ CopyOut
    \/ GetfssecStep
    \/ FatStart \/ FatWalk \/ FatRun \/ OtherDriver

\* A caller that reads until there is no more.
FatSpec == FatInit /\ [][FatNext]_allVars /\ WF_allVars(FatNext)

-----------------------------------------------------------------------------
(* Properties *)

\* fat_next_extent is the driver Getfssec assumes: in the FAT kinds, with
\* entries across sectors and a cache too small for the table, it maps the
\* file's own clusters or fails. The chain may end early, meet a free cluster
\* or come back on itself, but names only clusters the volume has: the loop at
\* fat.c:130-135 takes an entry just past the last cluster for one more.
Implements == Spec

Whole == (file.size + SectorSize - 1) \div SectorSize

\* read() returns the bytes of the file in order, whatever mix of large reads
\* and small ones through the buffer the caller makes, and says that the file
\* ends only after the last one, if its chain is as long as its size.
StreamRight ==
    ~failed =>
        /\ \A i \in 1 .. Len(out) :
              out[i] = ByteOf(file.map[(i - 1) \div SectorSize], (i - 1) % SectorSize)
        /\ rd.pc = "eof" /\ 0 .. Whole - 1 \subseteq DOMAIN file.map => Len(out) = file.size

\* A caller that reads on comes to the end of the file or gets an error, even
\* when the chain is a loop or FAT sectors read wrongly lead it astray.
Finishes == <>(rd.pc \in {"eof", "error"})
=============================================================================
