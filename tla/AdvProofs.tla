----------------------------- MODULE AdvProofs -----------------------------
(* Proofs about AdvDisk: what survives power failures, for any number of     *)
(* boot-once commands and menu entries.                                      *)
EXTENDS AdvDisk, TLAPS

\* The provers a step tries if it names none, in this order, with their limits
\* in seconds.
USE SMTT(20), ZenonT(20), Z3T(30), SMTT(40)

LEMMA TornIsNoVector == \A v \in Vectors : v # Torn /\ v.once # Torn.once
<1>1. MaxOnce \in Nat
    BY AdvDiskAssumption
<1>2. Torn.once = MaxOnce + 1
    BY DEF Torn
<1>3. ASSUME NEW v \in Vectors PROVE v.once \in 0 .. MaxOnce
    BY DEF Vectors
<1> QED BY <1>1, <1>2, <1>3

LEMMA VerifyIsVector ==
    ASSUME NEW d \in Copied
    PROVE  Verify(d) \in Vectors
<1>1. Empty \in Vectors
    BY AdvDiskAssumption DEF Empty, Vectors
<1> QED BY <1>1 DEF Verify, Copies, Copied

LEMMA TypeInit == Init => TypeOK
<1> SUFFICES ASSUME Init PROVE TypeOK
    OBVIOUS
<1>1. Empty \in Vectors
    BY AdvDiskAssumption DEF Empty, Vectors
<1>2. disk \in Copied /\ ran \in [Commands -> 0 .. MaxRan]
    BY <1>1 DEF Init, Copied, MaxRan
<1>3. pc \in Places /\ pending \subseteq Copies /\ saved \subseteq Labels
    BY AdvDiskAssumption DEF Init, Places
<1>4. command \in 0 .. MaxOnce /\ set \in 0 .. MaxOnce /\ crashes \in 0 .. MaxCrash
    BY AdvDiskAssumption DEF Init
<1> QED BY <1>1, <1>2, <1>3, <1>4 DEF Init, TypeOK

LEMMA TypeStep == TypeOK /\ [Next]_vars => TypeOK'
<1> SUFFICES ASSUME TypeOK, [Next]_vars PROVE TypeOK'
    OBVIOUS
<1> USE DEF TypeOK
<1>0. MaxOnce \in Nat \ {0} /\ MaxCrash \in Nat /\ 0 \in Labels
    BY AdvDiskAssumption
<1>1. ASSUME NEW v \in Vectors, NEW c \in 0 .. MaxOnce PROVE [v EXCEPT !.once = c] \in Vectors
    BY DEF Vectors
<1>2. ASSUME NEW v \in Vectors, NEW l \in Labels PROVE [v EXCEPT !.save = l] \in Vectors
    BY DEF Vectors
<1>3. \A v \in Vectors : v.once \in 0 .. MaxOnce /\ v.save \in Labels
    BY DEF Vectors
<1>4. CASE Boot
    <2>1. PICK d \in Copied : Read(d) /\ Found(Verify(d), [Verify(d) EXCEPT !.once = 0], "write0")
        BY <1>4 DEF Boot
    <2>2. Verify(d) \in Vectors
        BY VerifyIsVector
    <2>3. mem' \in Vectors /\ command' \in 0 .. MaxOnce
        BY <1>0, <1>1, <1>3, <2>1, <2>2 DEF Found
    <2>4. refused' \in BOOLEAN
        BY <2>1 DEF Read
    <2> QED BY <2>1, <2>3, <2>4 DEF Found, Places
<1>5. ASSUME NEW l \in Labels, MenuSave(l) PROVE TypeOK'
    BY <1>2, <1>5 DEF MenuSave, ghosts, Places
<1>6. CASE MenuBoot
    BY <1>6 DEF MenuBoot, ghosts, Places
<1>7. ASSUME NEW i \in Copies, Wrote(i), disk' \in Copied, refused' \in BOOLEAN PROVE TypeOK'
    BY <1>3, <1>7 DEF Wrote, Places
<1>8. ASSUME NEW i \in Copies, WriteSector(i) PROVE TypeOK'
    BY <1>7, <1>8 DEF WriteSector, Copied
<1>9. ASSUME NEW i \in Copies, WriteFails(i) PROVE TypeOK'
    BY <1>7, <1>9 DEF WriteFails, Copied
<1>10. CASE Run
    <2>1. \A n \in 0 .. MaxRan : (IF n < MaxRan THEN n + 1 ELSE n) \in 0 .. MaxRan
        BY DEF MaxRan
    <2>2. ran' \in [Commands -> 0 .. MaxRan]
        BY <1>10, <2>1 DEF Run
    <2>3. pc' \in Places /\ command' \in 0 .. MaxOnce
        BY <1>0, <1>10 DEF Run, Places
    <2> QED BY <1>10, <2>2, <2>3 DEF Run
<1>11. ASSUME NEW c \in 0 .. MaxOnce, NEW l \in Labels, Install(c, l), set' \in 0 .. MaxOnce
       PROVE  TypeOK'
    <2>1. mem' \in Vectors
        BY <1>11 DEF Install, Vectors
    <2> QED BY <1>11, <2>1 DEF Install, Places
<1>12. ASSUME NEW l \in Labels, SetOnce(l) PROVE TypeOK'
    <2>1. set + 1 \in 0 .. MaxOnce
        BY <1>0, <1>12 DEF SetOnce
    <2> QED BY <1>11, <1>12, <2>1 DEF SetOnce
<1>13. ASSUME NEW l \in Labels, ClearOnce(l) \/ KeepOnce(l) PROVE TypeOK'
    <2>1. Verify(disk).once \in 0 .. MaxOnce
        BY <1>3, VerifyIsVector
    <2> QED BY <1>0, <1>11, <1>13, <2>1 DEF ClearOnce, KeepOnce
<1>14. ASSUME NEW i \in Copies, InstallSector(i) PROVE TypeOK'
    BY <1>3, <1>14 DEF InstallSector, Places, Copied
<1>15. CASE InstallFails
    BY <1>15 DEF InstallFails, Places, Copied
<1>16. CASE Shutdown
    BY <1>16 DEF Shutdown, ghosts, Places
<1>17. CASE Crash
    BY <1>0, <1>17 DEF Crash, Places
<1>18. CASE UNCHANGED vars
    BY <1>18 DEF vars
<1> QED BY <1>4, <1>5, <1>6, <1>8, <1>9, <1>10, <1>12, <1>13, <1>14, <1>15, <1>16, <1>17, <1>18
        DEF Next

(***************************************************************************)
(* A copy and the label in it survive                                      *)
(***************************************************************************)

\* A copy that has been written is as the memory.
Written ==
    /\ pc = "write1" => disk[0] = mem
    /\ pc = "install" => \A i \in Copies \ pending : disk[i] = mem

\* There is a good copy, and what is in one was saved and not replaced since, as
\* is what is about to be written.
Safe ==
    /\ \E i \in Copies : disk[i] # Torn
    /\ \A i \in Copies : disk[i] # Torn => disk[i].save \in saved
    /\ pc \in {"menu", "write0", "write1", "run", "install"} => mem.save \in saved

SurviveInv == TypeOK /\ (~refused => Written /\ (~exposed => Safe))

LEMMA RefusedStays == ASSUME TypeOK, [Next]_vars PROVE refused => refused'
<1>1. ASSUME NEW i \in Copies, WriteSector(i) \/ WriteFails(i) \/ InstallSector(i)
      PROVE  refused => refused'
    BY <1>1 DEF WriteSector, WriteFails, InstallSector
<1>2. ASSUME NEW l \in Labels, MenuSave(l) \/ SetOnce(l) \/ ClearOnce(l) \/ KeepOnce(l)
      PROVE  refused => refused'
    BY <1>2 DEF MenuSave, SetOnce, ClearOnce, KeepOnce, Install, ghosts
<1>3. CASE Boot \/ MenuBoot \/ Run
    BY <1>3 DEF Boot, Read, MenuBoot, Run, ghosts
<1>4. CASE InstallFails \/ Shutdown \/ Crash \/ UNCHANGED vars
    BY <1>4 DEF InstallFails, Shutdown, Crash, ghosts, vars
<1> QED BY <1>1, <1>2, <1>3, <1>4 DEF Next

\* A boot takes the label of a good copy.
LEMMA VerifiedLabel ==
    ASSUME TypeOK, Safe
    PROVE  Verify(disk) \in Vectors /\ Verify(disk).save \in saved
<1>1. PICK i \in Copies : disk[i] # Torn
    BY DEF Safe
<1>2. \E j \in Copies : Verify(disk) = disk[j] /\ disk[j] # Torn
    BY <1>1 DEF Verify, Copies
<1>3. Verify(disk).save \in saved
    BY <1>2 DEF Safe
<1> QED BY <1>3, VerifyIsVector DEF TypeOK

\* Once both copies are written nothing that happened before counts.
LEMMA BothWritten ==
    ASSUME mem' = mem, mem # Torn, saved' = {mem.save}, pc' \in {"run", "os"},
           \A i \in Copies : disk'[i] = mem
    PROVE  Written' /\ Safe'
<1>1. 0 \in Copies
    BY DEF Copies
<1> QED BY <1>1 DEF Written, Safe

LEMMA SurviveStep ==
    ASSUME SurviveInv, [Next]_vars, ~refused'
    PROVE  Written' /\ (~exposed' => Safe')
<1>0. /\ TypeOK /\ Written /\ (~exposed => Safe) /\ DOMAIN disk = Copies
      /\ mem \in Vectors /\ mem # Torn
    <2>1. TypeOK /\ Written /\ (~exposed => Safe)
        BY RefusedStays DEF SurviveInv
    <2> QED BY <2>1, TornIsNoVector DEF TypeOK, Copied
<1>1. \A v \in Vectors : /\ \A c : [v EXCEPT !.once = c].save = v.save
                        /\ \A l : [v EXCEPT !.save = l].save = l
    BY DEF Vectors
<1>2. CASE Boot
    <2>1. PICK d \in Copied : Read(d) /\ Found(Verify(d), [Verify(d) EXCEPT !.once = 0], "write0")
        BY <1>2 DEF Boot
    <2>2. d = disk /\ Verify(d) \in Vectors
        BY <2>1, VerifyIsVector DEF Read
    <2>3. mem'.save = Verify(disk).save /\ pc' \in {"menu", "write0"} /\ UNCHANGED <<disk, saved, exposed>>
        BY <1>1, <2>1, <2>2 DEF Found
    <2>4. ASSUME ~exposed' PROVE Safe'
        <3>1. Safe /\ mem'.save \in saved
            BY <1>0, <2>3, <2>4, VerifiedLabel
        <3> QED BY <2>3, <3>1 DEF Safe
    <2>5. Written'
        BY <2>3 DEF Written
    <2> QED BY <2>4, <2>5
<1>3. ASSUME NEW l \in Labels, MenuSave(l) PROVE Written' /\ (~exposed' => Safe')
    <2>1. /\ mem'.save = l /\ saved' = saved \cup {l} /\ pc' = "write0"
          /\ UNCHANGED <<disk, exposed>>
        BY <1>0, <1>1, <1>3 DEF MenuSave, ghosts
    <2> QED BY <1>0, <2>1 DEF Written, Safe
<1>4. CASE MenuBoot \/ Shutdown
    <2>1. pc' \in {"os", "off"} /\ UNCHANGED <<disk, mem, saved, exposed>>
        BY <1>4 DEF MenuBoot, Shutdown, ghosts
    <2> QED BY <1>0, <2>1 DEF Written, Safe
<1>5. ASSUME NEW i \in Copies, WriteSector(i) PROVE Written' /\ (~exposed' => Safe')
    <2>1. disk' = [disk EXCEPT ![i] = mem] /\ mem' = mem
        BY <1>5 DEF WriteSector, Wrote
    <2>2. CASE i = 0
        <3>1. pc = "write0" /\ pc' = "write1" /\ saved' = saved /\ exposed' = exposed
            BY <1>0, <1>5, <2>2 DEF WriteSector, Writing, Wrote, TypeOK
        <3>2. disk'[0] = mem /\ disk'[1] = disk[1]
            BY <1>0, <2>1, <2>2 DEF Copies
        <3>3. ASSUME ~exposed' PROVE Safe'
            BY <1>0, <2>1, <3>1, <3>2, <3>3 DEF Safe, Copies
        <3> QED BY <2>1, <3>1, <3>2, <3>3 DEF Written
    <2>3. CASE i = 1
        <3>1. pc' \in {"run", "os"} /\ saved' = {mem.save} /\ disk[0] = mem
            BY <1>0, <1>5, <2>3 DEF WriteSector, Writing, Wrote, Written
        <3>2. \A j \in Copies : disk'[j] = mem
            BY <1>0, <2>1, <2>3, <3>1 DEF Copies
        <3> QED BY <1>0, <2>1, <3>1, <3>2, BothWritten
    <2> QED BY <2>2, <2>3 DEF Copies
<1>6. CASE Run
    <2>1. pc = "run" /\ pc' \in {"os", "menu"} /\ UNCHANGED <<disk, mem, saved, exposed>>
        BY <1>6 DEF Run
    <2> QED BY <1>0, <2>1 DEF Written, Safe
<1>7. ASSUME NEW c, NEW l, Install(c, l) PROVE Written' /\ (~exposed' => Safe')
    <2>1. /\ mem'.save = l /\ saved' = saved \cup {l} /\ pc' = "install" /\ pending' = Copies
          /\ UNCHANGED <<disk, exposed>>
        BY <1>7 DEF Install
    <2> QED BY <1>0, <2>1 DEF Written, Safe
<1>8. ASSUME NEW i \in Copies, InstallSector(i) PROVE Written' /\ (~exposed' => Safe')
    <2>1. /\ disk' = [disk EXCEPT ![i] = mem] /\ mem' = mem /\ pc = "install"
          /\ pending' = pending \ {i} /\ \A j \in Copies \ pending : disk[j] = mem
        BY <1>0, <1>8 DEF InstallSector, Written
    <2>2. disk'[i] = mem /\ \A j \in Copies \ pending' : disk'[j] = mem
        BY <1>0, <2>1
    <2>3. CASE pending = {i}
        <3>1. pc' = "os" /\ saved' = {mem.save}
            BY <1>8, <2>3 DEF InstallSector
        <3>2. \A j \in Copies : disk'[j] = mem
            BY <2>1, <2>2, <2>3
        <3> QED BY <1>0, <2>1, <3>1, <3>2, BothWritten
    <2>4. CASE pending # {i}
        <3>1. pc' = "install" /\ saved' = saved /\ exposed' = exposed
            BY <1>0, <1>8, <2>4 DEF InstallSector, TypeOK
        <3>2. ASSUME ~exposed' PROVE Safe'
            <4>1. mem.save \in saved /\ \A j \in Copies : disk[j] # Torn => disk[j].save \in saved
                BY <1>0, <2>1, <3>1, <3>2 DEF Safe
            <4>2. \A j \in Copies : disk'[j] = mem \/ disk'[j] = disk[j]
                BY <1>0, <2>1
            <4> QED BY <1>0, <2>1, <2>2, <3>1, <4>1, <4>2 DEF Safe
        <3> QED BY <2>1, <2>2, <3>1, <3>2 DEF Written
    <2> QED BY <2>3, <2>4
<1>9. CASE Crash
    <2>1. /\ pc' = "off" /\ saved' = saved /\ exposed' = (exposed \/ Exposed)
          /\ \A i \in Copies : disk'[i] = disk[i] \/ (i \in InFlight /\ disk'[i] \in {mem, Torn})
        BY <1>9 DEF Crash
    <2>2. Written'
        BY <2>1 DEF Written
    <2>3. ASSUME ~exposed' PROVE Safe'
        <3>1. Safe /\ ~Exposed
            BY <1>0, <2>1, <2>3
        <3>2. ASSUME NEW i \in Copies, i \in InFlight PROVE mem.save \in saved
            BY <3>1, <3>2 DEF InFlight, Safe
        <3>3. ASSUME NEW i \in Copies, disk'[i] # Torn PROVE disk'[i].save \in saved
            BY <2>1, <3>1, <3>2, <3>3 DEF Safe
        <3>4. \E i \in Copies : i \notin InFlight /\ disk[i] # Torn
            <4>1. CASE pc = "write0"
                BY <3>1, <4>1 DEF Exposed, InFlight, Copies
            <4>2. CASE pc = "write1"
                BY <1>0, <4>2 DEF Written, InFlight, Copies
            <4>3. CASE pc = "install"
                <5>1. PICK i \in Copies : i \notin pending
                    BY <1>0, <3>1, <4>3 DEF Exposed, TypeOK
                <5> QED BY <1>0, <4>3, <5>1 DEF Written, InFlight
            <4>4. CASE pc \notin {"write0", "write1", "install"}
                BY <3>1, <4>4 DEF Safe, InFlight
            <4> QED BY <4>1, <4>2, <4>3, <4>4
        <3>5. \E i \in Copies : disk'[i] # Torn
            BY <2>1, <3>4
        <3> QED BY <2>1, <3>3, <3>5 DEF Safe
    <2> QED BY <2>2, <2>3
<1>10. CASE UNCHANGED vars
    BY <1>0, <1>10 DEF vars, Written, Safe
<1>11. ~InstallFails /\ \A i \in Copies : ~WriteFails(i)
    BY DEF InstallFails, WriteFails
<1>12. ASSUME NEW l \in Labels, SetOnce(l) \/ ClearOnce(l) \/ KeepOnce(l)
       PROVE  Written' /\ (~exposed' => Safe')
    BY <1>7, <1>12 DEF SetOnce, ClearOnce, KeepOnce
<1> QED BY <1>2, <1>3, <1>4, <1>5, <1>6, <1>8, <1>9, <1>10, <1>11, <1>12 DEF Next

LEMMA Survives == Spec => []SurviveInv
<1>1. Init => SurviveInv
    <2> SUFFICES ASSUME Init PROVE SurviveInv
        OBVIOUS
    <2>1. Empty \in Vectors /\ Empty.save = 0 /\ Empty # Torn
        BY AdvDiskAssumption, TornIsNoVector DEF Empty, Vectors
    <2> QED BY <2>1, TypeInit DEF Init, SurviveInv, Written, Safe, Copies
<1>2. SurviveInv /\ [Next]_vars => SurviveInv'
    BY SurviveStep, TypeStep DEF SurviveInv
<1> QED BY <1>1, <1>2, PTL DEF Spec

\* However often and wherever the power fails, the next boot finds a consistent
\* copy: adv_read_write has the first on the disk before it begins the second.
\* What the property excepts is a disk that has refused a sector, a power failure
\* in write_adv before either copy is on the disk, and one in the first sector of
\* adv_write while the second copy is torn.
THEOREM CopySurvives == Spec => []SomeCopyGood
<1>1. SurviveInv => SomeCopyGood
    BY DEF SurviveInv, Safe, SomeCopyGood
<1> QED BY <1>1, Survives, PTL

\* However often and wherever the power fails, the next boot finds the label that
\* was saved last, or one whose saving was cut short since: main and the
\* installers keep the label when they set or erase a boot-once command.  The
\* exceptions are those of CopySurvives.
THEOREM LabelSurvives == Spec => []SaveKept
<1>1. SurviveInv => SaveKept
    BY VerifiedLabel DEF SurviveInv, SaveKept
<1> QED BY <1>1, Survives, PTL

(***************************************************************************)
(* A boot-once command is executed once                                    *)
(***************************************************************************)

\* Numbers are not used before they are given out.
GivenOut ==
    /\ mem.once <= set /\ command <= set
    /\ \A i \in Copies : disk[i] # Torn => disk[i].once <= set

\* The boot loader has erased the command in memory, and the copies it has
\* written are as the memory.
Erased ==
    /\ pc \in {"menu", "write0", "write1", "run"} => mem.once = 0
    /\ pc = "write1" => disk[0] = mem
    /\ pc = "run" => \A i \in Copies : disk[i] = mem

\* A command that was executed is nowhere any more.
Gone(c) ==
    /\ ran[c] = 1 /\ c <= set /\ c # mem.once /\ c # command
    /\ \A i \in Copies : disk[i].once # c

OnceInv ==
    /\ TypeOK
    /\ ~refused => GivenOut /\ Erased /\ \A c \in Commands : ran[c] # 0 => Gone(c)

LEMMA OnceStep == ASSUME OnceInv, [Next]_vars, ~refused' PROVE OnceInv'
<1> DEFINE Rest == \A c \in Commands : ran[c] # 0 => Gone(c)
<1>0. /\ TypeOK /\ TypeOK' /\ GivenOut /\ Erased /\ Rest
      /\ set \in Nat /\ command \in Nat /\ Commands \subseteq Nat \ {0} /\ mem.once \in Nat
    <2>1. TypeOK /\ TypeOK' /\ GivenOut /\ Erased /\ Rest
        BY TypeStep, RefusedStays DEF OnceInv
    <2>2. MaxOnce \in Nat /\ mem.once \in 0 .. MaxOnce /\ set \in 0 .. MaxOnce /\ command \in 0 .. MaxOnce
        BY <2>1, AdvDiskAssumption DEF TypeOK, Vectors
    <2>3. Commands \subseteq Nat \ {0}
        BY <2>2 DEF Commands
    <2> QED BY <2>1, <2>2, <2>3
<1>1. \A v \in Vectors : /\ v # Torn /\ v.once \in Nat
                        /\ \A c : [v EXCEPT !.once = c].once = c
                        /\ \A l : [v EXCEPT !.save = l].once = v.once
    BY TornIsNoVector, AdvDiskAssumption DEF Vectors
<1>2. \A c \in Commands : Torn.once # c
    BY AdvDiskAssumption DEF Torn, Commands
<1> SUFFICES GivenOut' /\ Erased' /\ Rest'
    BY <1>0 DEF OnceInv
<1>3. CASE Boot
    <2>1. PICK d \in Copied : Read(d) /\ Found(Verify(d), [Verify(d) EXCEPT !.once = 0], "write0")
        BY <1>3 DEF Boot
    <2>2. d = disk
        BY <2>1 DEF Read
    <2> DEFINE v == Verify(disk)
    <2>3. v \in Vectors /\ (v = Empty \/ \E i \in Copies : v = disk[i] /\ disk[i] # Torn)
        BY <1>0, VerifyIsVector DEF TypeOK, Verify, Copies, Copied
    <2>4. v.once <= set /\ \A c \in Commands : ran[c] # 0 => c # v.once
        <3>1. CASE v = Empty
            <4>1. v.once = 0
                BY <3>1 DEF Empty
            <4> QED BY <1>0, <4>1
        <3>2. ASSUME NEW i \in Copies, v = disk[i], disk[i] # Torn
              PROVE  v.once <= set /\ \A c \in Commands : ran[c] # 0 => c # v.once
            <4> HIDE DEF v
            <4> QED BY <1>0, <3>2 DEF GivenOut, Gone
        <3> QED BY <2>3, <3>1, <3>2
    <2>5. /\ mem'.once = 0 /\ command' = v.once /\ pc' \in {"menu", "write0"}
          /\ UNCHANGED <<disk, set, ran>>
        BY <1>1, <2>1, <2>2, <2>3 DEF Found
    <2> HIDE DEF v
    <2>6. GivenOut' /\ Erased'
        BY <1>0, <2>4, <2>5 DEF GivenOut, Erased
    <2>7. Rest'
        BY <1>0, <2>4, <2>5 DEF Gone
    <2> QED BY <2>6, <2>7
<1>4. ASSUME NEW l \in Labels, MenuSave(l) PROVE GivenOut' /\ Erased' /\ Rest'
    <2>1. mem'.once = mem.once /\ pc' = "write0" /\ pc = "menu" /\ UNCHANGED <<disk, command, set, ran>>
        BY <1>0, <1>1, <1>4 DEF MenuSave, ghosts, TypeOK
    <2> QED BY <1>0, <2>1 DEF GivenOut, Erased, Gone
<1>5. CASE MenuBoot \/ Shutdown
    <2>1. pc' \in {"os", "off"} /\ UNCHANGED <<disk, mem, command, set, ran>>
        BY <1>5 DEF MenuBoot, Shutdown, ghosts
    <2> QED BY <1>0, <2>1 DEF GivenOut, Erased, Gone
<1>6. ASSUME NEW i \in Copies, WriteSector(i) PROVE GivenOut' /\ Erased' /\ Rest'
    <2>1. /\ disk' = [disk EXCEPT ![i] = mem] /\ DOMAIN disk = Copies
          /\ UNCHANGED <<mem, command, set, ran>>
        BY <1>0, <1>6 DEF WriteSector, Wrote, TypeOK, Copied
    <2>2. GivenOut' /\ Rest'
        BY <1>0, <2>1 DEF GivenOut, Gone
    <2>3. pc \in {"write0", "write1"} /\ mem.once = 0
        BY <1>0, <1>6 DEF WriteSector, Writing, Erased
    <2>4. CASE i = 0
        <3>1. pc' = "write1" /\ disk'[0] = mem
            BY <1>6, <2>1, <2>4 DEF WriteSector, Wrote
        <3> QED BY <2>1, <2>2, <2>3, <3>1 DEF Erased
    <2>5. CASE i = 1
        <3>1. pc = "write1" /\ disk[0] = mem
            BY <1>0, <1>6, <2>5 DEF WriteSector, Writing, Erased
        <3>2. pc' \in {"run", "os"}
            BY <1>6, <2>5 DEF WriteSector, Wrote
        <3>3. \A j \in Copies : disk'[j] = mem
            BY <2>1, <2>5, <3>1 DEF Copies
        <3> QED BY <2>1, <2>2, <2>3, <3>2, <3>3 DEF Erased
    <2> QED BY <2>2, <2>4, <2>5 DEF Copies
<1>7. CASE Run
    <2>1. /\ pc = "run" /\ mem.once = 0 /\ \A i \in Copies : disk[i].once = 0
          /\ pc' \in {"os", "menu"} /\ command' = 0 /\ UNCHANGED <<disk, mem, set>>
          /\ ran' = [ran EXCEPT ![command] = IF @ < MaxRan THEN @ + 1 ELSE @]
        BY <1>0, <1>7 DEF Run, Erased
    <2>2. GivenOut' /\ Erased'
        BY <1>0, <2>1 DEF GivenOut, Erased
    <2>3. ASSUME NEW c \in Commands, ran'[c] # 0 PROVE Gone(c)'
        <3>1. c # 0 /\ ran \in [Commands -> 0 .. MaxRan]
            BY <1>0 DEF TypeOK
        <3>2. ran'[c] = 1 /\ c <= set
            <4>1. CASE c = command
                <5>1. ran[c] = 0
                    BY <1>0, <4>1 DEF Gone
                <5> QED BY <1>0, <2>1, <3>1, <4>1, <5>1 DEF GivenOut, MaxRan
            <4>2. CASE c # command
                <5>1. ran'[c] = ran[c]
                    BY <2>1, <3>1, <4>2
                <5> QED BY <1>0, <2>3, <5>1 DEF Gone
            <4> QED BY <4>1, <4>2
        <3> QED BY <2>1, <3>1, <3>2 DEF Gone
    <2> QED BY <2>2, <2>3
<1>8. ASSUME NEW c \in Nat, NEW l, Install(c, l), set' \in Nat, set' >= set, c <= set',
             \A x \in Commands : ran[x] # 0 => x # c
      PROVE  GivenOut' /\ Erased' /\ Rest'
    <2>2. mem'.once = c /\ pc' = "install" /\ UNCHANGED <<disk, command, ran>>
        BY <1>8 DEF Install
    <2>3. \A i \in Copies : disk[i] # Torn => disk[i].once \in Nat
        BY <1>0, <1>1 DEF TypeOK, Copied
    <2>4. GivenOut' /\ Erased'
        BY <1>0, <1>8, <2>2, <2>3 DEF GivenOut, Erased
    <2>5. Rest'
        <3> SUFFICES ASSUME NEW x \in Commands, ran'[x] # 0 PROVE Gone(x)'
            OBVIOUS
        <3>1. ran[x] = 1 /\ x <= set /\ x # command /\ \A i \in Copies : disk[i].once # x
            BY <1>0, <2>2 DEF Gone
        <3>2. x # c /\ x <= set'
            <4>1. x \in Nat /\ x # 0 /\ x <= set
                BY <1>0, <3>1
            <4> QED BY <1>0, <1>8, <3>1, <4>1
        <3> QED BY <2>2, <3>1, <3>2 DEF Gone
    <2> QED BY <2>4, <2>5
<1>9. ASSUME NEW l \in Labels, SetOnce(l) PROVE GivenOut' /\ Erased' /\ Rest'
    <2>1. \A x \in Commands : ran[x] # 0 => x # set + 1
        BY <1>0 DEF Gone
    <2> QED BY <1>0, <1>8, <1>9, <2>1 DEF SetOnce
<1>10. ASSUME NEW l \in Labels, ClearOnce(l) \/ KeepOnce(l) PROVE GivenOut' /\ Erased' /\ Rest'
    <2>1. CASE ClearOnce(l)
        BY <1>0, <1>8, <2>1 DEF ClearOnce
    <2>2. CASE KeepOnce(l)
        <3>1. PICK i \in Copies : Verify(disk) = disk[i] /\ disk[i] # Torn
            BY <2>2 DEF KeepOnce, Install, Verify, Copies
        <3>2. disk[i].once \in Nat /\ disk[i].once <= set
            BY <1>0, <1>1, <3>1 DEF GivenOut, TypeOK, Copied
        <3>3. \A x \in Commands : ran[x] # 0 => x # disk[i].once
            BY <1>0 DEF Gone
        <3>4. Install(disk[i].once, l) /\ set' = set
            BY <2>2, <3>1 DEF KeepOnce
        <3> QED BY <1>0, <1>8, <3>2, <3>3, <3>4
    <2> QED BY <1>10, <2>1, <2>2
<1>11. ASSUME NEW i \in Copies, InstallSector(i) PROVE GivenOut' /\ Erased' /\ Rest'
    <2>1. /\ disk' = [disk EXCEPT ![i] = mem] /\ DOMAIN disk = Copies
          /\ UNCHANGED <<mem, command, set, ran>> /\ pc' \in {"os", "install"}
        BY <1>0, <1>11 DEF InstallSector, TypeOK, Copied
    <2> QED BY <1>0, <2>1 DEF GivenOut, Erased, Gone
<1>12. CASE Crash
    <2>1. /\ \A i \in Copies : disk'[i] \in {disk[i], mem, Torn}
          /\ pc' = "off" /\ command' = 0 /\ UNCHANGED <<mem, set, ran>>
        BY <1>12 DEF Crash
    <2>2. GivenOut' /\ Erased'
        BY <1>0, <2>1 DEF GivenOut, Erased
    <2>3. Rest'
        BY <1>0, <1>2, <2>1 DEF Gone
    <2> QED BY <2>2, <2>3
<1>13. CASE UNCHANGED vars
    BY <1>0, <1>13 DEF vars, GivenOut, Erased, Gone
<1>14. ~InstallFails /\ \A i \in Copies : ~WriteFails(i)
    BY DEF InstallFails, WriteFails
<1> QED BY <1>3, <1>4, <1>5, <1>6, <1>7, <1>9, <1>10, <1>11, <1>12, <1>13, <1>14 DEF Next

\* Wherever and however often the power fails, no boot-once command is
\* executed twice: main has it erased on both copies before load_kernel.  The
\* property excludes a disk that has refused a sector, of which adv_write
\* does not tell.
THEOREM CommandsRunOnce == Spec => []RanOnce
<1>1. Init => OnceInv
    <2> SUFFICES ASSUME Init PROVE OnceInv
        OBVIOUS
    <2>1. TypeOK /\ \A c \in Commands : ran[c] = 0
        BY TypeInit DEF Init
    <2>2. GivenOut /\ Erased
        BY DEF Init, GivenOut, Erased, Empty, Copies
    <2> QED BY <2>1, <2>2 DEF OnceInv
<1>2. OnceInv /\ [Next]_vars => OnceInv'
    BY OnceStep, TypeStep DEF OnceInv
<1>3. OnceInv => RanOnce
    <2> SUFFICES ASSUME OnceInv, ~refused, NEW c \in Commands PROVE ran[c] <= 1
        BY DEF RanOnce
    <2>1. ran[c] = 0 \/ ran[c] = 1
        BY DEF OnceInv, Gone
    <2> QED BY <2>1
<1> QED BY <1>1, <1>2, <1>3, PTL DEF Spec
=============================================================================
