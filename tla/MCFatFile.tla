----------------------------- MODULE MCFatFile ------------------------------
(* Small volumes for FatFile: three clusters, every chain and every loop of *)
(* clusters the volume has, in all three kinds of FAT.                      *)
EXTENDS FatFile

CONSTANTS Kinds, Secs, Sizes

\* Clusters that the chain from c may come to.
Reached(fat, c) ==
    LET step(S) == S \cup {fat[d] : d \in S \cap ClusterNos}
    IN  step(step(step({c})))

\* Entries no chain reaches are all taken to be the same.
MCVolumes ==
    {v \in [kind : Kinds, secs : Secs, fat : [ClusterNos -> {-1, 0} \cup ClusterNos],
            start : {2, 3}, size : Sizes] :
        \A c \in ClusterNos \ Reached(v.fat, v.start) : v.fat[c] = -1}

\* Files with holes, and with more or less contiguous parts.
MCOtherFiles ==
    {[map |-> [l \in 0 .. 4 |-> m[l + 1]], size |-> 18] :
        m \in {<<20, 21, -1, -1, 22>>, <<30, 20, 21, 22, 23>>, <<-1, 20, 21, 40, 41>>}}

MCFiles == MCOtherFiles \cup {FileOf(v) : v \in MCVolumes}

MCRequests == 1 .. 8
=============================================================================
