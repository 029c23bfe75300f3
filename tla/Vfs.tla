-------------------------------- MODULE Vfs ---------------------------------
(***************************************************************************)
(* The table of open files, the reference-counted inodes and the path      *)
(* search of the virtual file system (core/fs/fs.c, chdir.c, readdir.c,    *)
(* lib/close.c), for the disk file systems.  A path is a sequence of       *)
(* components; "/" can only be its first.  The file system's iget and      *)
(* readlink methods are a constant tree of nodes that may fail to be read. *)
(***************************************************************************)
EXTENDS Integers, Sequences, FiniteSets, FiniteSetsExt

CONSTANTS
    Root,               \* the root directory's node
    Dirs,               \* directory node -> name -> node
    Links,              \* symbolic link node -> path
    Paths,              \* paths callers ask for
    MAX_OPEN,           \* size of files[]
    MAX_SYMLINK_CNT,
    MaxInodes,          \* inodes there is memory for
    Faults              \* may reads of the disk and malloc fail

VARIABLES
    inodes,         \* the heap: an inode, or NoInode where the memory is free
    files,          \* files[].inode; Unused where files[].fs is NULL
    cwd,            \* this_fs->cwd
    pc,             \* "idle", or "walk" in the loop of searchdir
    op, file,       \* searchdir's caller, and its entry of files[]
    asked,          \* the path asked for
    path,           \* what is left of it, links expanded
    inode,          \* the inode reached, 0 for NULL
    symlink_count,
    failed          \* some allocation or disk read of this search has failed

vars == <<inodes, files, cwd, pc, op, file, asked, path, inode, symlink_count, failed>>
call == <<op, file, asked>>

Ids == 1 .. MaxInodes
Slots == 1 .. MAX_OPEN
NoInode == [refcnt |-> 0]
Unused == -1
RootInode == 1

mode(n) == CASE n \in DOMAIN Dirs -> "dir" [] n \in DOMAIN Links -> "lnk" [] OTHER -> "reg"

Node(i) == inodes[i].node

Init ==
    /\ inodes = [i \in Ids |->
                    IF i = RootInode
                    THEN [refcnt |-> 2, parent |-> 0, name |-> "/", node |-> Root]
                    ELSE NoInode]
    /\ files = [s \in Slots |-> Unused] /\ cwd = RootInode
    /\ pc = "idle" /\ op = "none" /\ file = 1 /\ asked = <<>>
    /\ path = <<>> /\ inode = 0 /\ symlink_count = 0 /\ failed = FALSE

-----------------------------------------------------------------------------
(* References to inodes, over a heap h *)

get_inode(h, i) == [h EXCEPT ![i].refcnt = @ + 1]

\* Releasing the last reference to an inode releases its parent.
RECURSIVE put_inode(_, _)
put_inode(h, i) ==
    CASE i = 0 -> h
      [] i # 0 /\ h[i].refcnt # 1 -> [h EXCEPT ![i].refcnt = @ - 1]
      [] i # 0 /\ h[i].refcnt = 1 -> put_inode([h EXCEPT ![i] = NoInode], h[i].parent)

\* What iget and searchdir make of a directory entry: an inode of its own.
FreeIds == {i \in Ids : inodes[i] = NoInode}
alloc_inode(i, name, n) ==
    [inodes EXCEPT ![i] = [refcnt |-> 1, parent |-> inode, name |-> name, node |-> n]]

-----------------------------------------------------------------------------
(* searchdir *)

alloc_file == Min({s \in Slots : files[s] = Unused})

\* A caller asks for a path.  With no free entry in files[], searchdir returns
\* -1 at once.
searchdir(o, p) ==
    /\ pc = "idle" /\ \E s \in Slots : files[s] = Unused
    /\ pc' = "walk" /\ op' = o /\ asked' = p /\ path' = p
    /\ file' = alloc_file /\ files' = [files EXCEPT ![alloc_file] = 0]
    /\ symlink_count' = MAX_SYMLINK_CNT
    /\ \/ inode' = cwd /\ inodes' = get_inode(inodes, cwd) /\ failed' = FALSE
       \/ Faults /\ inode' = 0 /\ failed' = TRUE /\ UNCHANGED inodes
    /\ UNCHANGED cwd

Walking == pc = "walk" /\ inode # 0 /\ path # <<>>

\* What every step of the loop leaves alone.
InLoop == UNCHANGED <<files, cwd, pc, call>>

FromRoot ==
    /\ Walking /\ Head(path) = "/"
    /\ inodes' = get_inode(put_inode(inodes, inode), RootInode)
    /\ inode' = RootInode /\ path' = Tail(path)
    /\ InLoop /\ UNCHANGED <<symlink_count, failed>>

CurrentDir ==
    /\ Walking /\ Head(path) = "." /\ path' = Tail(path)
    /\ InLoop /\ UNCHANGED <<inodes, inode, symlink_count, failed>>

\* Slip: the child is released before its parent has a reference of its own.
ParentDirUncounted ==
    /\ Walking /\ Head(path) = ".." /\ path' = Tail(path)
    /\ IF inodes[inode].parent = 0 THEN UNCHANGED <<inodes, inode>>
       ELSE /\ inodes' = put_inode(inodes, inode)
            /\ inode' = inodes[inode].parent
    /\ InLoop /\ UNCHANGED <<symlink_count, failed>>

ParentDir ==
    /\ Walking /\ Head(path) = ".." /\ path' = Tail(path)
    /\ IF inodes[inode].parent = 0 THEN UNCHANGED <<inodes, inode>>
       ELSE /\ inodes' = put_inode(get_inode(inodes, inodes[inode].parent), inode)
            /\ inode' = inodes[inode].parent
    /\ InLoop /\ UNCHANGED <<symlink_count, failed>>

\* Any other name is looked up in the directory reached.
Lookup == Walking /\ Head(path) \notin {"/", ".", ".."}
Entries == Dirs[Node(inode)]

NotFound ==
    /\ Lookup
    /\ \/ Head(path) \notin DOMAIN Entries /\ UNCHANGED failed
       \/ (Faults \/ FreeIds = {}) /\ failed' = TRUE
    /\ inodes' = put_inode(inodes, inode) /\ inode' = 0
    /\ InLoop /\ UNCHANGED <<path, symlink_count>>

\* iget finds a node and makes an inode of it.
Found == Lookup /\ Head(path) \in DOMAIN Entries /\ FreeIds # {}
Target == Entries[Head(path)]
NewId == Min(FreeIds)
WithTarget == alloc_inode(NewId, Head(path), Target)

Enter ==
    /\ Found /\ mode(Target) # "lnk"
    /\ IF Len(path) > 1 /\ mode(Target) # "dir"
       THEN inodes' = put_inode(WithTarget, NewId) /\ inode' = 0
       ELSE inodes' = WithTarget /\ inode' = NewId
    /\ path' = Tail(path)
    /\ InLoop /\ UNCHANGED <<symlink_count, failed>>

\* Slip: the links followed are not counted.
FollowForever ==
    /\ Found /\ mode(Target) = "lnk"
    /\ inodes' = put_inode(get_inode(WithTarget, inode), NewId)
    /\ path' = Links[Target] \o Tail(path)
    /\ InLoop /\ UNCHANGED <<inode, symlink_count, failed>>

\* Slip: what came after the link is forgotten.
FollowOnly ==
    /\ Found /\ mode(Target) = "lnk" /\ symlink_count > 1
    /\ symlink_count' = symlink_count - 1 /\ path' = Links[Target]
    /\ inodes' = put_inode(get_inode(WithTarget, inode), NewId)
    /\ InLoop /\ UNCHANGED <<inode, failed>>

\* A link is replaced by its target, to be searched from its directory.
Follow ==
    /\ Found /\ mode(Target) = "lnk"
    /\ symlink_count' = symlink_count - 1
    /\ \/ /\ symlink_count' # 0
          /\ inodes' = put_inode(get_inode(WithTarget, inode), NewId)
          /\ path' = Links[Target] \o Tail(path)
          /\ UNCHANGED <<inode, failed>>
       \/ /\ (symlink_count' = 0 /\ UNCHANGED failed) \/ (Faults /\ failed' = TRUE)
          /\ inodes' = put_inode(WithTarget, NewId)
          /\ inode' = 0 /\ path' = Tail(path)
    /\ InLoop

-----------------------------------------------------------------------------
(* The end of the search, and what its callers do with the file *)

Ended == pc = "walk" /\ (inode = 0 \/ path = <<>>)

\* The search leaves nothing of itself behind but the entry of files[].
Over == pc' = "idle" /\ op' = "none" /\ file' = 1 /\ asked' = <<>> /\ path' = <<>>
        /\ inode' = 0 /\ symlink_count' = 0 /\ failed' = FALSE

\* _close_file on the searched entry, which holds i
Closed(h, i) == inodes' = put_inode(h, i) /\ files' = [files EXCEPT ![file] = Unused]

Fail ==
    /\ Ended /\ inode = 0 /\ Over
    /\ Closed(inodes, 0) /\ UNCHANGED cwd

Wants(o) == CASE o = "open_file" -> "reg" [] o = "opendir" -> "dir" [] OTHER -> "nothing"

\* open_file keeps a regular file, opendir a directory; realpath keeps nothing.
Open ==
    /\ Ended /\ inode # 0 /\ op # "chdir" /\ Over
    /\ IF mode(Node(inode)) = Wants(op)
       THEN files' = [files EXCEPT ![file] = inode] /\ UNCHANGED inodes
       ELSE Closed(inodes, inode)
    /\ UNCHANGED cwd

chdir ==
    /\ Ended /\ inode # 0 /\ op = "chdir" /\ Over
    /\ IF mode(Node(inode)) = "dir"
       THEN /\ cwd' = inode
            /\ Closed(get_inode(put_inode(inodes, cwd), inode), inode)
       ELSE Closed(inodes, inode) /\ UNCHANGED cwd

\* close_file, closedir, or pmapi_read_file at the end of the file
close_file(s) ==
    /\ pc = "idle" /\ files[s] # Unused
    /\ inodes' = put_inode(inodes, files[s])
    /\ files' = [files EXCEPT ![s] = Unused]
    /\ UNCHANGED <<cwd, pc, call, path, inode, symlink_count, failed>>

-----------------------------------------------------------------------------
Ops == {"open_file", "opendir", "realpath", "chdir"}

Step ==
    \/ FromRoot \/ CurrentDir \/ ParentDir \/ NotFound \/ Enter \/ Follow
    \/ Fail \/ Open \/ chdir

Next ==
    \/ \E o \in Ops, p \in Paths : searchdir(o, p)
    \/ Step
    \/ \E s \in Slots : close_file(s)

\* A search goes on without waiting for a fault; callers may stop calling.
GoesOn == Step /\ (failed' => failed \/ FreeIds = {})
Spec == Init /\ [][Next]_vars /\ WF_vars(GoesOn)

-----------------------------------------------------------------------------
(* Properties *)

Count(b) == IF b THEN 1 ELSE 0

\* The pointers to inode i: the root's, the current directory's, those of the
\* open files, of the search in progress and of the inodes below it.
References(i) ==
    Count(i = RootInode) + Count(cwd = i) + Count(pc = "walk" /\ inode = i)
    + Cardinality({s \in Slots : files[s] = i})
    + Cardinality({j \in Ids : inodes[j] # NoInode /\ inodes[j].parent = i})

\* Whatever was opened, left, followed, abandoned or closed, in whatever order,
\* every inode counts exactly the pointers there are to it: none is freed while
\* it is in use, and none is left over once it is not.
RefsExact == \A i \in Ids : inodes[i].refcnt = References(i)

\* The parent of a directory in the tree.
Parent(d) == IF d = Root THEN d
             ELSE CHOOSE p \in DOMAIN Dirs : \E x \in DOMAIN Dirs[p] : Dirs[p][x] = d

\* The node a path names from directory d, or "none", if at most k - 1 links
\* are to be followed: the meaning of a path, without inodes.
RECURSIVE Resolve(_, _, _)
Resolve(d, p, k) ==
    IF p = <<>> THEN d
    ELSE LET c == Head(p)
             rest == Tail(p)
         IN  CASE c = "/" -> Resolve(Root, rest, k)
               [] c = "." -> Resolve(d, rest, k)
               [] c = ".." -> Resolve(Parent(d), rest, k)
               [] OTHER ->
                    IF c \notin DOMAIN Dirs[d] THEN "none"
                    ELSE LET n == Dirs[d][c]
                         IN  IF mode(n) = "lnk"
                             THEN IF k = 1 THEN "none" ELSE Resolve(d, Links[n] \o rest, k - 1)
                             ELSE IF rest # <<>> /\ mode(n) # "dir" THEN "none"
                             ELSE Resolve(n, rest, k)

\* searchdir ends at the node its path names, taken from the current directory,
\* and fails only when there is none or a read or an allocation has failed.
FindsTheFile ==
    Ended => LET n == Resolve(Node(cwd), asked, MAX_SYMLINK_CNT)
             IN  IF inode = 0 THEN failed \/ n = "none" ELSE Node(inode) = n

\* Every search ends, links that lead in a circle included.
SearchEnds == pc = "walk" ~> pc = "idle"
=============================================================================
