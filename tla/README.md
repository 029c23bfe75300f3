# A TLA+ development for Syslinux

Syslinux is a family of boot loaders (SYSLINUX, EXTLINUX, ISOLINUX, PXELINUX)
built from one core, a set of file systems, a 32-bit module environment
(com32), and installers. This directory models the parts whose correctness
depends on the order of things: threads and interrupts, messages that may be
lost, memory that is handed out and taken back, references that are counted,
state that must survive a power failure; and two algorithms, the reading of a
file by extents and the moving of memory, whose cases are too many to test.

## The parts of the system

| Part | Where | Module |
|---|---|---|
| Thread core: scheduler, semaphores, timeouts, life cycle | `core/thread` | `Threads`, `Locks` |
| Interrupt stubs and real-mode calls | `core/pm.inc`, `core/callback.inc`, `core/timer.inc` | `Threads` (when the scheduler is reached) |
| Mailboxes between threads | `core/thread/mbox.c`, used by `core/lwip` | `Mailbox`, `Fifo` |
| Memory allocator | `core/mem` | `Arena` |
| TFTP client | `core/fs/pxe/tftp.c`, `pxe.c`, UDP input of `core/lwip` | `Tftp` |
| Auxiliary data vector, in memory | `com32/elflink/ldlinux/{set,get}adv.c`, `libinstaller/setadv.c` | `AdvVector` |
| Auxiliary data vector, on disk | `core/adv.inc`, `libinstaller/advio.c`, `ldlinux.c`, `com32/menu/menumain.c` | `AdvDisk` |
| Open files, inodes, path search, working directory | `core/fs/fs.c`, `chdir.c`, `readdir.c` | `Vfs` |
| Reading a file by extents | `core/fs/getfssec.c` | `Getfssec` |
| Block cache, FAT driver, file descriptors | `core/fs/cache.c`, `fat/fat.c`, `com32/lib/sys/fileread.c` | `Cache`, `FatFile` |
| PXE interrupt and polling | `core/fs/pxe/isr.c`, `core/pxeisr.inc` | `PxeIsr` |
| Memory maps and move lists | `com32/lib/syslinux/zonelist.c`, `movebits.c`, `core/bcopyxx.inc` | `Zonelist`, `Movebits` |
| Other file systems, HTTP, FTP, DHCP, DNS | `core/fs` | not modelled: sequential decoding |
| Module loader, serial console | `com32/lib/sys/module`, `core/serirq.c` | not modelled: see the end |
| The rest of lwIP; LZO, Lua, gPXE | `core/lwip`, `lzo`, `com32/lua`, `gpxe` | not modelled: third-party code |
| Menus, chain loading, hardware tools | `com32/menu`, `chain`, `hdt`, ... | not modelled: interaction |
| Installers other than the vector | `extlinux`, `dos`, `win`, `linux`, `mtools` | not modelled: file copying |
| MEMDISK, master boot records, EFI front end | `memdisk`, `mbr`, `efi` | not modelled: assembly and firmware wrappers |

`PROJECT.json` lists every part with its files and the reason for its status,
the source lines of every definition, and the hazards of the code with the
properties that cover them.

How the parts meet: an interrupt, or the return from a real-mode call, enters
the scheduler (`Threads`). The card's interrupt, or the polling thread, wakes
the receive thread (`PxeIsr`), which takes packets from the card and posts them
to the TCP/IP thread, which posts them to the connection the boot thread reads
from (`Mailbox`, whose four semaphores are those of `Threads`). The boot thread
runs the TFTP client on top (`Tftp`). On a disk it searches a path (`Vfs`) and
reads the file it finds (`FatFile` over `Getfssec` and `Cache`). What it has
read is moved to where a kernel wants it (`Movebits` over `Zonelist`). All
threads share the allocator (`Arena`) under one semaphore. The auxiliary data
vector is all that the loader leaves on the disk for the next boot (`AdvVector`,
`AdvDisk`).

## Threads

There is one processor. The variable `curr` is `current()`; `ring` is the
circular thread list, read from the thread after `curr` round to `curr`, which
is the order in which `__schedule` walks it. A semaphore is its `count` and its
`queue`. `blocked`, `deadline` and `timedOut` are the fields of the thread's
`thread_block`. `now` is `ms_timer()` and `last` is the tick for which
`pxe_poll_wakeups` last ran the timeouts.

Each action is a stretch of code that an interrupt cannot split. `sem_down` is
therefore two steps, the `decl` (`SemDown`) and the slow path under `irq_save`
(`SemDownBail`, `SemDownImmediate`, `SemDownBlock`), and so is `sem_up`.
`Schedule` is `__schedule` with the hook `pxe_poll_wakeups`; it is part of every
action whose code calls it. Interrupts (`TimerIrq`, `OtherIrq`, `RecvIrq`) may
come between any two steps, as the callers of the semaphores (`malloc.c`,
`mbox.c`, the PXE threads) run with interrupts on. Three ghost variables
(`waited`, `holds`, `held`) record how long a thread has slept and who was given
which unit.

| Run | Shows |
|---|---|
| `threads_core` | lists, units, priorities and timeouts stay right with interrupts anywhere, across the wrap of the clock, while the scheduler hook raises the receive semaphore and a thread is killed or exits |
| `threads_locks` | a lock excludes until an interrupt has cut a `sem_up` of it, no wake-up is lost until one has cut a `sem_up` or a `sem_down`; timed waits end and equal priorities take turns in any case |
| `threads_lost` | a wake-up can be lost: the fast path is not atomic with the slow one |

`Locks` adds the history variable `cut` to `Threads`, and changes none of its
steps. It names the semaphores that others have reached inside a call: an
interrupt came between the `decl` or `incl` and the `irq_save` of the slow path
and switched to another thread, or raised the semaphore itself. There the code
does not keep what its comments say. After a cut `sem_up` two threads may hold a
lock: one that had not queued yet took the unit in the bail-out clause of
`__sem_down_slow`, and the slow path of `sem_up` still hands one to a sleeper.
After a cut `sem_down` or `sem_up` a thread may sleep on a free semaphore, which
is what `threads_lost` shows. `MutualExclusion` and `NoLostWakeupUncut` say that
these are the only ways: through bail-outs, time-outs, kills and interrupts
elsewhere both promises hold. Threads are killed in `threads_core` only; the
theorems `LocksExclude` and `WakeupsArrive` include it.

Bounds: three or four threads (idle, the boot thread, one more urgent, one
equal), one lock and one event, a clock modulo 3 or 4 so that it wraps, counts
up to 1 above the initial one (`MaxCount`). Four threads are enough for a
preempted holder, a waiter, a bystander and idle.

Fairness: the timer interrupt comes again and again whenever it can
(strong, as interrupts are masked now and then), BIOS calls return, and a
thread that runs finishes the call it is in. Nothing makes a thread start a
call, and nothing makes a holder let go.

## Mailbox and Fifo

`mbox_post` and `mbox_fetch` over four semaphores, a slot ring with `head` and
`tail`. `Fifo` is the abstract specification, a bounded sequence; `IsFifo` says
that `Mailbox` implements it, with the messages read from the slots. A behaviour
begins by choosing one of `Uses`: the priorities of the threads and the waits
they call with. `mailbox` has the two uses of the TCP/IP stack, with semaphores
that can be interrupted and the real priorities (receive -20, TCP/IP -10, boot
0): the TCP/IP thread's own mailbox, which it fetches from with its next timeout
or without one, and the `recvmbox` of a connection.

A timed fetch of the TCP/IP thread can break the promise of `sys_arch.txt`. A
poster, less urgent than the fetcher, is interrupted between the `incl` of its
`sem_up` and the slow path; the fetch times out, a later one takes the message
by the bail-out clause, and the next sleeps on the empty ring, where the slow
path (`core/thread/semaphore.c:73`) wakes it for a message that is gone. The
ghost `overtaken` records that a `sem_up` has lost its unit in this way. The
three properties are about behaviours up to there, and the model does not follow
them further, since what the fetch then returns is an old slot.

Fairness is strong for each thread: every packet takes the processor away from
the threads below, but they are not kept from it for ever. Two slots and two
messages make the ring wrap, fill and run empty.

## Arena

`malloc`, `realloc`, `free` and the clean-up of a module's memory on the two
heaps, with the doubly linked list of blocks and the free list as the code keeps
them, and `scan_memory` building the main heap from a memory map. Addresses are
small integers; headers take `H` units and a remainder of less than `Close`
stays with the block. The run `arena` starts from every ascending map of three
regions, touching or not, below and across the end of the program's image and
the end of memory, from a map that gives a main heap in two pieces, and from
maps that begin with a high region, and does every sequence of calls on each. In
the last, a region may end below `cs_memsize`: then `len` wraps in
`scan_highmem_area` (`init.c:29-31`), and the heap gets whatever lies above the
region taken before. `HeapInMemory` excepts such a region; the lists, the
merging and the allocations are checked on the heap it leaves. Sizes asked for
are far below 2^32. Calls do not interleave: `malloc` and `free` hold
`__malloc_semaphore`, whose exclusion is a question for `Threads`; `realloc`
does not, and relies on the boot thread being the only caller.

## Tftp

The client from the first request to the last block: `tftp_open` with its
retries and its parsing of options or a first block, `tftp_get_packet`, reading
by `pxe_getfssec`, closing, and the repeated openings of `pxe_searchdir`. The
server is external: it knows options or does not, and answers a repeated
request as it did the first, or with an error. The network loses, repeats and
reorders.

`tftp` checks that the reader gets the file's bytes, in order, once, that the
end is reported when it is reached and not before, that nothing is acknowledged
that was not received, that packets are received into a buffer, and that every
opening and every transfer ends. Two of these have an exception, and the run has
its case. A server that puts a null byte behind its options makes `tftp_open`
leave the parsing before the buffer is allocated, and later packets go to
address 0 (`GetNowhere`: the machine may stop there); `ReceivesIntoBuffer` says
that it is the only such case. A file of one short block from a server without
options never comes to its end: `have_more` stays set and the socket open
(`tftp.c:319`, `pxe.c:223-225`), though `pxe.c:227-230` says otherwise;
`Finishes` says that it is the only such transfer (`NeverEof`), and the reader
has all of its bytes by then.

Which packets reach the client is `udp_input` (`ForSocket`), and `recv_udp`,
which drops what the mailbox has no room for (`Arrive`).

Bounds: files of 0, 1, 3 and 5 units, blocks of 2 (without options) or 3, so
that a file is empty, one short block, a whole number of blocks, or not; two
entries of `TimeoutTable`, one repetition of the opening, two server transfers
(a repeated request starts a second one), `Cap` packets in flight in each
direction. Block numbers are modulo 3, so that the third block has number 0; a
transfer ends before a number is used again, because a packet delayed by a whole
cycle of numbers, 65536 blocks in the code, would be taken. Deadlock checking is
off, since a client that has closed its file is done.

Fairness: the client runs, timeouts that recur are noticed (strong), and the
mailbox is empty again and again, as a server repeats itself after seconds and
the client polls every 15 ms. The network owes nothing.

## AdvVector and AdvDisk

`AdvVector` has the bytes: `syslinux_setadv`, once as in the loader and once as
in the installers, and `syslinux_getadv`, on one area of 8 bytes that items fill
exactly and that both programs change in turn. `adv_vector` shows that what was
set is found and that a call fails only for lack of room. The installers' older
loop goes wrong when it deletes an item of an area full to the last byte; the
ghost `spoiled` records that it has, the properties except it, and the
installers are not followed any further, since their loop may then not end.

`AdvDisk` has the two copies: a boot reads and verifies them, erases a
boot-once command, writes the copies one after the other, executes the command;
the menu saves a label; the installer sets, clears or keeps a command and may
change the label, with one write of both copies. The power may fail anywhere; a
copy in flight is then old, new or torn. With `Faults` the disk may refuse
sectors, and `refused` records that it has: what the copies hold is promised
only of a disk that takes every sector, since `adv_write` goes on after an error
as if there were none.

Two failures of the power find no copy safe, and the ghost `exposed` records
them until both copies have been written again. `write_adv` has both copies in
flight at once (`advio.c:140-145`), where `adv.inc:20-21` says there is a sync in
between. And a boot does not mend a second copy that an earlier failure has
torn, but writes the first, the only good one, before it.

`adv_disk` lets the power fail up to three times, anywhere, and sectors be
refused. Outside the two cases a good copy is left, with the label saved last or
one whose saving was cut short; no command runs twice, in any case; and every
boot gets to the operating system. Three failures are enough for one to tear the
second copy, one to hit the first at the next boot, and one more after it.
Fairness: the loader does not stop by itself and the user chooses an entry.

## Getfssec, Cache and FatFile

`Getfssec` is one open file: `inode->size`, `file->offset`, the two extents the
inode remembers, and the locals of `generic_getfssec`. Its actions are the
stretches between calls of the driver: the start of a call (`ReadFile`), asking
for an extent (`CallNextExtent`), starting with it, joining it or giving up
looking ahead (`Join`), one transfer (`ReadChunk`), and the return to
`pmapi_read_file`, which closes the file at its end (`Return`). Arithmetic is
modulo `Word`, as in `uint32_t`. The driver is the contract written at the top
of `getfssec.c` (`NextExtent`): it maps a run of sectors truthfully, or fails
and may then cut the size down; after a disk error it may answer anything.

`FatFile` puts a reader above and a driver below. Above is `__file_read`, with
large reads straight into the caller's memory and small ones through the
descriptor's buffer. Below is `fat_next_extent`, which walks the cluster chain
one `get_next_cluster` at a time; every look at the table goes through `Cache`,
an LRU list with the flaw of the code that a block whose read failed stays in
the cache as if it had been read. FAT entries are decoded from the bytes of the
table: nibbles of FAT12, across a sector border or not, words of FAT16, 28 bits
of FAT32. The table itself is external. In some behaviours the driver is the
abstract one, for holes and for extents cut in ways FAT never cuts them.

`fat_file` checks that the sectors delivered are the file's (`Delivered`), that
the bytes `read()` returns are (`StreamRight`), that the FAT driver keeps the
contract (`Implements`, the specification of `Getfssec` as a property), and that
reading ends (`Finishes`). Bounds: every chain and loop over the volume's three
clusters, of one or two sectors of four bytes, in the three kinds; sizes that do
and do not fill a sector; reads of 5 and of 12 bytes with a buffer of 8, so that
both paths and a mix of them occur; a cache of two blocks, where the FAT32 table
takes five. An entry that names the cluster just past the last one is left out
of the tables: the run `fat_next_extent` builds would include it. Fairness: the
caller reads on. Nothing else is concurrent. Deadlock checking is off because a
reader that has reached the end is done.

## Vfs

The heap of inodes with their reference counts and parents, `files[]`, the
working directory, and `searchdir` component by component: the root, `.`, `..`,
a name that is found or not, a link that is followed. Its callers are
`open_file`, `opendir`, `realpath` and `chdir`, which keep or release what was
found; `close_file` is also `closedir` and the end of a file. The driver's
`iget` and `readlink` are a constant tree of nodes; `ext2_iget` is the one it
was written from. With `Faults`, `strdup`, `iget`, `readlink` and `malloc` fail
at any place, and `MaxInodes` makes memory run out. Searches do not overlap:
only the boot thread opens files.

`vfs` checks that every inode counts its references exactly at every step
(`RefsExact`), that a search ends at the node a reference definition of paths
gives (`FindsTheFile`, `Resolve`), and that it ends at all (`SearchEnds`).
Bounds: a tree three levels deep with a relative link, an absolute link through
it and a link to itself; two open files, three links in a row (20 in the code),
six inodes. Two open files are enough for one to be found from a directory held
by another. Fairness: a search goes on, and is not owed any failure.

## PxeIsr

The card with its packets, the interrupt line and its handler `pxe_isr`, the
flags between the handler and the scheduler's hook, the receive thread, the
polling thread, and the boot thread from `pxe_start_isr` to `reset_pxe`. How the
card is connected is chosen at the start: with an interrupt number or without,
announcing interrupts or not, working or not, on a shared line or not. The
semaphores are the two steps of `sem_down` and `sem_up` that `Threads` has in
full. The UNDI driver is external, as these files use it: after it has answered
"ours" it is silent until the processing is done. `jiffies` wraps; the count of
spurious interrupts is a machine word that can be decremented past zero.

`pxe_isr` checks that every "ours" is processed exactly once (`OursOnce`) and
that a packet does not stay in the card for ever (`NothingStuck`). Bounds: two
packets in the card, two spurious interrupts in a tick where the code has 100,
two ticks of watching where it has 4. Fairness: the clock ticks, an interrupt
that stays asserted is taken, the hook runs at every return from real mode,
threads are scheduled, and a client that gets no answer sends again.

## Zonelist and Movebits

`Zonelist` is `syslinux_add_memmap` on a list whose addresses wrap at `M`.
`Movebits` is `syslinux_compute_movelist`: the removal of aliased sources
(`shuffle_dealias`, one pair of fragments at a time), then its loop, one action
per way a round can go: discard, move, move a part, evict what is in the way
and move, give up. Every move is carried out on `data` when it is emitted, so
that `data` is the memory as the shuffler will leave it, each byte named by the
address it started at. `types` is what every byte was last marked, the reference
for the map of zones.

`movelist` checks that the map is exact and has no needless entries
(`ZonesExact`), that a list of moves that is returned carries every fragment to
its place and changes nothing else but free memory (`MovesRight`), and that each
round leaves fewer bytes to move, so that the loop ends (`RoundsShrink`). Bounds:
a memory of seven bytes, all lists of two fragments of up to four bytes and of
three of up to two, sources apart or overlapping (among three, by more than a
byte), in three maps, with the whole memory free but a byte, with terminal and
reserved zones, and with zones to be zeroed. Two fragments that want each other's
place with too little room, and three in a circle, are among them. Deadlock
checking is off: the function returns. The searches of `mmap` and the arithmetic
were compared with the compiled function on every input of the run.

`MovesRight` says nothing once `astray` is set. That marks three slips, each a
contradiction of a comment in `movebits.c`: sources that still share a byte after
`shuffle_dealias` (`Aliased`, lines 246-249); usable zones of two types side by
side, of which `is_free_zone` returns the first though the byte asked for is in
the second (`Wide`, 146-147); and an evicted chunk that does not leave the room
its fragment claims, because it reaches beyond the critical byte on the wrong
side or is cut on both (`Overhangs`, 542-545). Each is set only where the slip
happens in the behaviour, so that `MovesRight` also says there is no fourth.

## Other observations

Reading the code for these models brought up more that its comments do not say.
Where a property has to except something, its section above says what; the
following are not the subject of a property.

- A deadline of exactly 2^32 ms is stored as 0, which means no timeout
  (`core/thread/semaphore.c`); `TimeoutOnTime` and `TimeoutFiresUnlessZero`
  except it.
- `tftp_filepos` does not count a first block that came without options, and
  so the length found at the end of the file is short by that block.
- `adv_write` reports success for a sector the disk has refused.
- A boot that finds the first copy good leaves the second as it is, so an
  older vector can come back when a later write spoils the first.
- An opening that runs out of retries leaves its socket open.
- The installers' `syslinux_setadv` (`libinstaller/setadv.c:93`) lacks the
  correction of the loader's copy: deleting from a full area brings old items
  back, and a later call may not end.
- `generic_getfssec` ignores the result of `rdwr_sectors`, and returns 0 for a
  request at the end of the file without setting `have_more`.
- `fat_next_extent` cuts `inode->size`, a count of bytes, down to a count of
  sectors; the next call's `bytes_left` may then wrap.
- A large `read()` does not advance `fp->i.offset`. The end is found all the
  same, since the handle is cleared.
- In `searchdir`, the branch "iget returned a different parent" cannot be taken,
  and a failing `strdup` of a name leaves an inode without one.
- `pxe_isr` overwrites the low byte of the tick it stores in `pxeirq_last`, and
  on too many spurious interrupts computes the interrupt controller's port from
  all of the interrupt number and does not acknowledge the interrupt.
- One foreign interrupt that finds a packet makes `undi_transmit` believe in the
  card's interrupt. `NothingStuck` leaves out a dead interrupt on a shared line.
- `install_irq_vector` returns `ok` unassigned if the clock runs out before the
  first look at it.
- `allocate_from` ignores that `syslinux_add_memmap` may fail.

## Proofs

| Theorem | Module | Says |
|---|---|---|
| `TypeCorrect`, `MostUrgentRuns`, `WalkEnds` | `ThreadsProofs` | types; the running thread is the most urgent runnable one; wherever a thread runs code of its own no tick is left to process, so the timeout walk is never started from a thread that has left the list |
| `NoUnitLost`, `ListsAgree` | `SemaphoreProofs` | units are conserved; lists and `blocked` agree |
| `LocksExclude`, `WakeupsArrive` | `LockProofs` | mutual exclusion until a `sem_up` is cut, no lost wake-up until a `sem_up` or `sem_down` is |
| `CopySurvives`, `LabelSurvives`, `CommandsRunOnce` | `AdvProofs` | a good copy, and the label saved last, survive every failure but one that finds no copy safe; commands run at most once |
| `DeliversTheFile`, `ClosesAtTheEnd` | `GetfssecProofs` | the sectors delivered are the file's; a file is closed only when it has been read to its end |
| `ProcessedOnce` | `PxeIsrProofs` | every "ours" of the network card is processed exactly once |

They hold for any number of threads, semaphores, commands and labels, any
priorities, timeouts and clock, under `ThreadsAssumption` and
`AdvDiskAssumption`, which say that the constants have their types, that idle
is the least urgent thread and that idle and the boot thread are not killed.
They have no further condition than the ones in the properties themselves: a
call that was not cut, a disk that has refused no sector.

The argument for the thread core is one chain of inductive invariants. `Sound`
adds to the types that `curr` is the end of `ring`, that idle is on the list and
never blocked (`Alive`: without it `__schedule` may find nothing to run), and
that the most urgent thread runs. `Conserved` adds that each list holds exactly
the threads blocked on its semaphore, each once, without which the count of
sleepers says nothing about the list `sem_up` pops. `Locked` adds, for
`LockSpec`, that a thread in the window of a call is `curr` or its call is
recorded in `cut`; that there are no more holders than units out (`HeldBy`);
that holders and a unit whose `sem_up` is in progress are no more than the units
there are (`OneEach`), until a `sem_up` is cut; and that somebody sleeps only
when all units are out or one is about to be handed over (`Awake`), until any
call is cut.

For the vector, as long as no sector was refused, `Written` says that a copy
already written equals the memory, and `Safe`, until the power fails when no
copy is safe, that there is a good copy and that the label of every good copy,
and of the memory about to be written, is one of those `SaveKept` allows. The
two theorems need each other's half: without a good copy a boot would start from
an empty vector, whose label nobody saved. `OnceInv` says that the loader's
memory holds no command while it writes, that both copies equal the memory when
the command is executed, and that an executed command is in no copy, in no
memory, and below the next number to be given out.

For the network card, `Inv` of `PxeIsrProofs` adds to `OursOnce` that the
receive semaphore's count is below zero only while the receive thread has
already subtracted its unit, so no part of the sum is negative and a card that
may assert has no round left anywhere; and that there is no polling thread
before `start_poll_thread`. Nothing is assumed about the constants.

For `generic_getfssec` the assumptions are `SizesAssumption` and
`FilesAssumption`: a sector is smaller than the range of the word, and files are
any maps from sectors to disk sectors or holes. `Delivered` is not inductive.
`Tracks` adds that both remembered extents map the file truthfully as long as
no read has failed, that during a call `this_extent` starts at the next sector
the caller is to get, and that the extent to be joined starts where the other
ends. `ClosesAtTheEnd` has the condition `NoWrap`: no size is within a sector of
the width of the word, where `sectors_left` would wrap to 0. Since `fat_file`
shows that the FAT driver implements the contract, on its bounded volumes, the
theorem speaks about the composed system as far as that run does.

Only model-checked: all liveness and what needs `ENABLED`; `TimeoutOnTime`;
everything about `Mailbox`, `Arena`, `Tftp`, `AdvVector`, `FatFile`, `Vfs`
and `Movebits` (`AdvVector`, `Vfs` and `Movebits` are recursive over data).

## Not modelled

- Other file system drivers, HTTP, FTP, DHCP, DNS, the configuration parser,
  menus, hardware tools: sequential programs that decode data or talk to the
  user. What a driver owes to `generic_getfssec` is `NextExtent`.
- Directories of FAT and long names, the text of a path that `realpath` and
  `chdir` make, `open_config`, the choice of a driver in `fs_init`.
- `cache_lock_block` and `cache_read`: locked blocks only occur in drivers that
  are not modelled; `cache_read` is a loop over `get_cache`.
- The other searches of `zonelist.c` and the encoding of moves in `shuffle.c`.
- The serial receive ring: its wrap-around masks an address, so what happens
  depends on where the ring is linked.
- The module loader: relocation and symbols are decoding of data; its lists of
  dependencies could be a model of their own.
- The memory behind a thread's name: that `__exit_thread` frees the stack it
  runs on is seen in `Threads` only as a call of `free`.
- lwIP, LZO, Lua, gPXE, libpng and the like, most of the lines of the tree:
  third-party code. MEMDISK, master boot records, the EFI
  front end: assembly on registers and wrappers around firmware.
