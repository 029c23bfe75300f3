------------------------------ MODULE AdvDisk ------------------------------
(* The auxiliary data vector on the disk: two copies of a sector, written    *)
(* one after the other by the boot loader (core/adv.inc) and together by the *)
(* installers (libinstaller/advio.c), and what a boot makes of them after    *)
(* the power has failed.  Of the vector's items there are two: the boot-once *)
(* command, numbered in the order they are set, 0 for none, and the label    *)
(* the menu saves.                                                           *)
EXTENDS Integers

CONSTANTS
    MaxOnce,   \* boot-once commands that are set
    Labels,    \* menu entries
    MaxCrash,  \* power failures
    Faults     \* the disk may refuse a sector, after the BIOS's retries too

Places == {"off", "menu", "os", "write0", "write1", "run", "install"}

ASSUME AdvDiskAssumption ==
    /\ MaxOnce \in Nat \ {0} /\ MaxCrash \in Nat /\ Labels \subseteq Nat /\ 0 \in Labels
    /\ Faults \in BOOLEAN

VARIABLES
    disk,     \* the two copies
    mem,      \* the vector in memory
    pc,       \* where the machine is
    pending,  \* copies the installer's write has not reached
    command,  \* the boot-once command this boot executes
    set,      \* boot-once commands set so far
    saved,    \* the label last saved, and those whose saving was cut short
    ran,      \* how often each command was executed
    crashes,
    refused,  \* the disk has refused a sector
    exposed   \* since both were last written, the power has failed when no copy was safe

vars == <<disk, mem, pc, pending, command, set, saved, ran, crashes, refused, exposed>>
ghosts == <<set, ran, crashes, refused, exposed>>

Copies == {0, 1}
Commands == 1 .. MaxOnce
MaxRan == 2  \* executions are counted up to here

Vectors == [once : 0 .. MaxOnce, save : Labels]
Empty == [once |-> 0, save |-> 0]
Torn == [once |-> MaxOnce + 1, save |-> 0]  \* the checksum is wrong
Copied == [Copies -> Vectors \cup {Torn}]

\* adv_verify, and syslinux_validate_adv: the first copy that is consistent,
\* an empty vector if there is none
Verify(d) == IF d[0] # Torn THEN d[0] ELSE IF d[1] # Torn THEN d[1] ELSE Empty

\* syslinux_reset_adv
Init ==
    /\ disk = [i \in Copies |-> Empty] /\ mem = Empty /\ pc = "os" /\ pending = {}
    /\ command = 0 /\ set = 0 /\ saved = {0}
    /\ ran = [c \in Commands |-> 0] /\ crashes = 0 /\ refused = FALSE
    /\ exposed = FALSE

(***************************************************************************)
(* The boot loader                                                         *)
(***************************************************************************)

\* what adv_read_write may read: where the disk refuses a sector the memory
\* stays what it was when the machine started, and fails the check
Reads == {d \in Copied :
            \A i \in Copies : d[i] = disk[i] \/ (Faults /\ d[i] = Torn)}

\* d is what this boot reads
Read(d) == d \in Reads /\ refused' = (refused \/ d # disk)

\* what this boot does with the vector v: erase the command and execute it,
\* or go to the menu
Found(v, left, next) ==
    /\ mem' = left /\ command' = v.once
    /\ pc' = IF v.once = 0 THEN "menu" ELSE next
    /\ UNCHANGED <<disk, pending, set, saved, ran, crashes, exposed>>

\* mutant: the vector is not written
BootSkips ==
    /\ pc = "off"
    /\ \E d \in Copied : Read(d) /\ Found(Verify(d), [Verify(d) EXCEPT !.once = 0], "run")

\* mutant: the whole vector is erased
BootResets == pc = "off" /\ \E d \in Copied : Read(d) /\ Found(Verify(d), Empty, "write0")

\* adv_init, then main of ldlinux
Boot ==
    /\ pc = "off"
    /\ \E d \in Copied : Read(d) /\ Found(Verify(d), [Verify(d) EXCEPT !.once = 0], "write0")

\* an entry of the menu is chosen, and saved if it has MENU SAVE
MenuSave(l) ==
    /\ pc = "menu"
    /\ mem' = [mem EXCEPT !.save = l] /\ saved' = saved \cup {l} /\ pc' = "write0"
    /\ UNCHANGED <<disk, pending, command, ghosts>>

\* an entry that is not saved
MenuBoot ==
    /\ pc = "menu" /\ pc' = "os"
    /\ UNCHANGED <<disk, mem, pending, command, saved, ghosts>>

\* adv_write goes on with the other copy, or returns without an error
Wrote(i) ==
    /\ pc' = IF i = 0 THEN "write1" ELSE IF command # 0 THEN "run" ELSE "os"
    /\ saved' = IF i = 1 THEN {mem.save} ELSE saved
    /\ exposed' = (exposed /\ i = 0)
    /\ UNCHANGED <<mem, pending, command, set, ran, crashes>>

Writing(i) == pc = (IF i = 0 THEN "write0" ELSE "write1")

\* adv_read_write: a copy is on the disk before the next is begun
WriteSector(i) ==
    /\ Writing(i)
    /\ disk' = [disk EXCEPT ![i] = mem]
    /\ Wrote(i) /\ UNCHANGED refused

\* mutant: after an error adv_write starts again
WriteRetries(i) ==
    /\ Faults /\ Writing(i)
    /\ pc' = "write0"
    /\ UNCHANGED <<disk, mem, pending, command, saved, ghosts>>

\* adv_retries attempts fail: adv_write does not look at the carry flag
WriteFails(i) ==
    /\ Faults /\ Writing(i)
    /\ \E v \in {disk[i], Torn} : disk' = [disk EXCEPT ![i] = v]
    /\ Wrote(i) /\ refused' = TRUE

\* load_kernel(cmdline): an operating system, or the menu's program
Run ==
    /\ pc = "run"
    /\ ran' = [ran EXCEPT ![command] = IF @ < MaxRan THEN @ + 1 ELSE @]
    /\ \E next \in {"os", "menu"} : pc' = next
    /\ command' = 0
    /\ UNCHANGED <<disk, mem, pending, set, saved, crashes, refused, exposed>>

(***************************************************************************)
(* The installer, under the operating system                               *)
(***************************************************************************)

\* read_adv, modify_adv and write_adv, which writes only over a vector that
\* has a consistent copy; --menu-save gives a label, --reset-adv takes it away, or
\* the old one stays
Install(c, l) ==
    /\ pc = "os" /\ \E i \in Copies : disk[i] # Torn
    /\ mem' = [once |-> c, save |-> l] /\ saved' = saved \cup {l}
    /\ pending' = Copies /\ pc' = "install"
    /\ UNCHANGED <<disk, command, ran, crashes, refused, exposed>>

\* --once
SetOnce(l) == set < MaxOnce /\ Install(set + 1, l) /\ set' = set + 1

\* --clear-once, or --reset-adv
ClearOnce(l) == Install(0, l) /\ UNCHANGED set

\* neither
KeepOnce(l) == Install(Verify(disk).once, l) /\ UNCHANGED set

\* one write of both copies: they reach the disk in either order
InstallSector(i) ==
    /\ pc = "install" /\ i \in pending
    /\ disk' = [disk EXCEPT ![i] = mem]
    /\ pending' = pending \ {i}
    /\ pc' = IF pending = {i} THEN "os" ELSE "install"
    /\ saved' = IF pending = {i} THEN {mem.save} ELSE saved
    /\ exposed' = (exposed /\ pending # {i})
    /\ UNCHANGED <<mem, command, set, ran, crashes, refused>>

\* the write ends with an error, which the installer reports
InstallFails ==
    /\ Faults /\ pc = "install"
    /\ \E bad \in SUBSET pending :
        disk' = [i \in Copies |-> IF i \in bad THEN Torn ELSE disk[i]]
    /\ pending' = {} /\ pc' = "os" /\ refused' = TRUE
    /\ UNCHANGED <<mem, command, set, saved, ran, crashes, exposed>>

\* the operating system ends
Shutdown ==
    /\ pc = "os" /\ pc' = "off"
    /\ UNCHANGED <<disk, mem, pending, command, saved, ghosts>>

\* mutant: adv_read_write writes both copies with one request
InFlightBoth ==
    CASE pc \in {"write0", "write1"} -> Copies [] pc = "install" -> pending [] OTHER -> {}

\* copies that are being written when the power fails
InFlight ==
    CASE pc = "write0" -> {0} [] pc = "write1" -> {1} [] pc = "install" -> pending
      [] OTHER -> {}

\* no copy is safe: write_adv writes both with one request and one sync, and a
\* boot does not mend a second copy that was torn before it writes the first
Exposed ==
    \/ pc = "install" /\ pending = Copies
    \/ pc = "write0" /\ disk[1] = Torn

\* the power fails
Crash ==
    /\ crashes < MaxCrash /\ pc # "off"
    /\ crashes' = crashes + 1 /\ pc' = "off" /\ pending' = {} /\ command' = 0
    /\ disk' \in {d \in Copied : \A i \in Copies :
                    d[i] = disk[i] \/ (i \in InFlight /\ d[i] \in {mem, Torn})}
    /\ exposed' = (exposed \/ Exposed)
    /\ UNCHANGED <<mem, set, saved, ran, refused>>

Next ==
    \/ Boot \/ MenuBoot \/ Run \/ InstallFails \/ Shutdown \/ Crash
    \/ \E l \in Labels : MenuSave(l) \/ SetOnce(l) \/ ClearOnce(l) \/ KeepOnce(l)
    \/ \E i \in Copies : WriteSector(i) \/ WriteFails(i) \/ InstallSector(i)

Spec == Init /\ [][Next]_vars

\* the boot loader does not stop by itself, and the user chooses an entry
FairSpec ==
    /\ Spec /\ WF_vars(Boot) /\ WF_vars(Run)
    /\ WF_vars(MenuBoot \/ \E l \in Labels : MenuSave(l))
    /\ WF_vars(\E i \in Copies : WriteSector(i) \/ WriteFails(i))

(***************************************************************************)
(* Properties                                                              *)
(***************************************************************************)

\* Every variable has its type.
TypeOK ==
    /\ disk \in Copied /\ mem \in Vectors /\ pc \in Places
    /\ pending \subseteq Copies /\ command \in 0 .. MaxOnce
    /\ set \in 0 .. MaxOnce /\ saved \subseteq Labels
    /\ ran \in [Commands -> 0 .. MaxRan] /\ crashes \in 0 .. MaxCrash /\ refused \in BOOLEAN
    /\ exposed \in BOOLEAN

\* The vector "exists in two copies", so that however often the power fails a
\* machine that is off has a consistent one, unless its disk fails.  Two ways to
\* lose both are excepted: a power failure in write_adv before either copy is on
\* the disk (it has no "sync in between, if from the operating system", as
\* adv.inc says), and one in the first sector of adv_write after an earlier one
\* has torn the second copy.  They count until both copies are written again.
SomeCopyGood == pc = "off" /\ ~refused /\ ~exposed => \E i \in Copies : disk[i] # Torn

\* A boot finds the label that was saved last, by the menu or the installer, or
\* one whose saving a power failure has cut short since; setting and erasing a
\* boot-once command do not disturb it.  The exceptions are SomeCopyGood's.
SaveKept == pc = "off" /\ ~refused /\ ~exposed => Verify(disk).save \in saved

\* A boot-once command is executed once at most (ldlinux.c: "clear it and then
\* execute the boot-once"), wherever the power fails, unless the disk does:
\* adv_write does not say so.
RanOnce == ~refused => \A c \in Commands : ran[c] <= 1

\* A disk that refuses the vector does not stop the boot: the retries are
\* counted, and errors lead on to the next sector and to the command.
BootGoesOn == pc = "off" ~> pc = "os"
=============================================================================
