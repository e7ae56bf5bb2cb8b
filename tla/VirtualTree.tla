---------------------------- MODULE VirtualTree ----------------------------
(***************************************************************************)
(* The in-memory tree behind the mount (musicfs-cache/src/tree.rs).        *)
(*                                                                         *)
(* The tree is held twice: nodes maps inodes to directory and file nodes,  *)
(* directories naming their children; path_to_inode maps full paths to     *)
(* inodes.  The kernel walks the first (lookup, readdir), every mutating   *)
(* operation starts from the second.  Every operation runs under one write *)
(* lock and checks everything before it changes anything, so an operation  *)
(* is one step and an error return changes nothing.                        *)
(***************************************************************************)
EXTENDS Paths, Maps, FiniteSets

CONSTANTS
    FileIds,     \* the database ids of files
    FilePaths,   \* the paths given to operations on files
    DirPaths,    \* the paths given to operations on directories
    TrashName,   \* the name ".trash"
    MaxInode     \* bound: no operation allocates beyond it

ASSUME FragmentsAssumption ==
    /\ FilePaths \subseteq PathSet \ {Root}
    /\ DirPaths \subseteq PathSet \ {Root}
    /\ TrashName \in Names

VARIABLES nodes, path_to_inode, next_inode

vars == <<nodes, path_to_inode, next_inode>>

ROOT_INODE == 1

TrashPath == <<TrashName>>

----------------------------------------------------------------------------
(* Nodes.                                                                  *)

DirNode(parent, name, children) ==
    [kind |-> "dir", parent |-> parent, name |-> name, children |-> children]

FileNode(name, id) == [kind |-> "file", name |-> name, file_id |-> id]

Known(p) == p \in DOMAIN path_to_inode

IsDirIn(ns, i) == i \in DOMAIN ns /\ ns[i].kind = "dir"

IsDir(i) == IsDirIn(nodes, i)

\* "if let Some(Directory(dir)) = nodes.get_mut(&i)": a missing node or a
\* file is passed over silently.
WithChild(ns, i, name, child) ==
    IF IsDirIn(ns, i)
    THEN [ns EXCEPT ![i].children = Insert(@, name, child)]
    ELSE ns

WithoutChild(ns, i, name) ==
    IF IsDirIn(ns, i)
    THEN [ns EXCEPT ![i].children = Remove(@, {name})]
    ELSE ns

\* A mutant: the old parent keeps its entry.
WithoutChildAtForgets(ns, paths, p) == ns

\* The parent's child entry is found through the parent's path.
WithoutChildAt(ns, paths, p) ==
    IF Parent(p) \in DOMAIN paths
    THEN WithoutChild(ns, paths[Parent(p)], NameOf(p))
    ELSE ns

\* The checks that mkdir, rename_file and rename_directory share.
ParentIsDir(p) == Known(Parent(p)) /\ IsDir(path_to_inode[Parent(p)])

----------------------------------------------------------------------------
(* The walk of ensure_parents and mkdir_p over the first m components of   *)
(* p: a known prefix, whatever its kind, is entered; a missing one becomes *)
(* a directory with the next inode.                                        *)

Missing(p, m) == {k \in 1..m : ~Known(Upto(p, k))}

\* The inode the walk stands on after k components.
WalkInode(p, k) ==
    IF k = 0 THEN ROOT_INODE
    ELSE IF Known(Upto(p, k)) THEN path_to_inode[Upto(p, k)]
    ELSE next_inode + Cardinality(Missing(p, k - 1))

AfterWalk(p, m) == next_inode + Cardinality(Missing(p, m))

WalkPaths(p, m) ==
    LET made == {Upto(p, k) : k \in Missing(p, m)}
    IN  [q \in DOMAIN path_to_inode \cup made |->
            IF q \in made THEN WalkInode(p, Len(q)) ELSE path_to_inode[q]]

WalkNodes(p, m) ==
    LET made == {WalkInode(p, k) : k \in Missing(p, m)}
        node(i) == IF i \in DOMAIN nodes THEN nodes[i]
                   ELSE LET k == CHOOSE k \in Missing(p, m) : WalkInode(p, k) = i
                        IN  DirNode(WalkInode(p, k - 1), p[k], EmptyMap)
        entered(i) == {k \in Missing(p, m) : WalkInode(p, k - 1) = i}
    IN  [i \in DOMAIN nodes \cup made |->
            IF node(i).kind = "dir" /\ entered(i) # {}
            THEN LET k == CHOOSE k \in entered(i) : TRUE
                 IN  [node(i) EXCEPT !.children = Insert(@, p[k], WalkInode(p, k))]
            ELSE node(i)]

----------------------------------------------------------------------------
(* The operations.                                                         *)

Init ==
    /\ nodes = [i \in {ROOT_INODE} |-> DirNode(ROOT_INODE, <<>>, EmptyMap)]
    /\ path_to_inode = [p \in {Root} |-> ROOT_INODE]
    /\ next_inode = ROOT_INODE + 1

\* insert_file does not look whether p is taken: the new node replaces the
\* old one in path_to_inode and in the parent's children.
InsertFile(p, id) ==
    LET m == Len(p) - 1
        inode == AfterWalk(p, m)
        placed == Insert(WalkNodes(p, m), inode, FileNode(NameOf(p), id))
    IN  /\ inode <= MaxInode
        /\ next_inode' = inode + 1
        /\ path_to_inode' = Insert(WalkPaths(p, m), p, inode)
        /\ nodes' = WithChild(placed, WalkInode(p, m), NameOf(p), inode)

\* remove_file drops the path and the node of whatever p names, and only
\* for a file also the parent's child entry.
RemoveFile(p) ==
    /\ Known(p)
    /\ LET inode == path_to_inode[p]
           left == Remove(nodes, {inode})
       IN  /\ path_to_inode' = Remove(path_to_inode, {p})
           /\ nodes' = IF nodes[inode].kind = "file"
                       THEN WithoutChildAt(left, path_to_inode', p)
                       ELSE left
    /\ UNCHANGED next_inode

NewDir(p, parent) ==
    /\ next_inode <= MaxInode
    /\ next_inode' = next_inode + 1
    /\ path_to_inode' = Insert(path_to_inode, p, next_inode)
    /\ nodes' = WithChild(
                  Insert(nodes, next_inode, DirNode(parent, NameOf(p), EmptyMap)),
                  parent, NameOf(p), next_inode)

Mkdir(p) ==
    /\ ~Known(p)
    /\ ParentIsDir(p)
    /\ NewDir(p, path_to_inode[Parent(p)])

EnsureTrashDir ==
    /\ ~Known(TrashPath)
    /\ NewDir(TrashPath, ROOT_INODE)

MkdirP(p) ==
    /\ ~Known(p)
    /\ AfterWalk(p, Len(p)) <= MaxInode + 1
    /\ next_inode' = AfterWalk(p, Len(p))
    /\ path_to_inode' = WalkPaths(p, Len(p))
    /\ nodes' = WalkNodes(p, Len(p))

\* A mutant: the old path is not taken out of path_to_inode.
RenameFileKeepingPath(old, new) ==
    /\ Known(old) /\ ~Known(new)
    /\ ~IsDir(path_to_inode[old])
    /\ ParentIsDir(new)
    /\ LET inode == path_to_inode[old]
           left == WithoutChildAt(nodes, path_to_inode, old)
           named == [left EXCEPT ![inode].name = NameOf(new)]
       IN  /\ nodes' = WithChild(named, path_to_inode[Parent(new)], NameOf(new), inode)
           /\ path_to_inode' = Insert(path_to_inode, new, inode)
    /\ UNCHANGED next_inode

RenameFile(old, new) ==
    /\ Known(old)
    /\ ~Known(new)
    /\ ~IsDir(path_to_inode[old])
    /\ ParentIsDir(new)
    /\ LET inode == path_to_inode[old]
           left == WithoutChildAt(nodes, path_to_inode, old)
           named == [left EXCEPT ![inode].name = NameOf(new)]
       IN  /\ nodes' = WithChild(named, path_to_inode[Parent(new)], NameOf(new), inode)
           /\ path_to_inode' = Insert(Remove(path_to_inode, {old}), new, inode)
    /\ UNCHANGED next_inode

\* rename_directory collects every path that string-starts with old, then
\* for each in turn removes it and inserts its substitute.  They come in the
\* order of a hash map, which only matters where a substitute is itself one
\* of the collected paths: its entry is lost when it was written before the
\* loop came to the path and removed it.  Lost is any set of those.
MovedPaths(old) == {p \in DOMAIN path_to_inode : StartsWith(p, old)}

RenamedPaths(old, new, lost) ==
    LET moved == MovedPaths(old)
        targets == {Substitute(p, old, new) : p \in moved}
        source(q) == CHOOSE p \in moved : Substitute(p, old, new) = q
    IN  [q \in (((DOMAIN path_to_inode) \ moved) \cup targets) \ lost |->
            IF q \in targets THEN path_to_inode[source(q)] ELSE path_to_inode[q]]

RenameDirectory(old, new) ==
    /\ Known(old)
    /\ IsDir(path_to_inode[old])
    /\ ~Known(new)
    /\ ParentIsDir(new)
    /\ \E lost \in SUBSET (MovedPaths(old) \cap
                             {Substitute(p, old, new) : p \in MovedPaths(old)}) :
         path_to_inode' = RenamedPaths(old, new, lost)
    /\ LET inode == path_to_inode[old]
           parent == path_to_inode[Parent(new)]
           left == WithoutChildAt(nodes, path_to_inode', old)
           moved == [left EXCEPT ![inode].name = NameOf(new), ![inode].parent = parent]
       IN  nodes' = WithChild(moved, parent, NameOf(new), inode)
    /\ UNCHANGED next_inode

\* A mutant: the directory need not be empty.
RemoveDirectoryUnchecked(p) ==
    /\ Known(p)
    /\ IsDir(path_to_inode[p])
    /\ nodes' = Remove(WithoutChildAt(nodes, path_to_inode, p), {path_to_inode[p]})
    /\ path_to_inode' = Remove(path_to_inode, {p})
    /\ UNCHANGED next_inode

RemoveDirectory(p) ==
    /\ Known(p)
    /\ IsDir(path_to_inode[p])
    /\ nodes[path_to_inode[p]].children = EmptyMap
    /\ nodes' = Remove(WithoutChildAt(nodes, path_to_inode, p), {path_to_inode[p]})
    /\ path_to_inode' = Remove(path_to_inode, {p})
    /\ UNCHANGED next_inode

\* remove_directory_recursive collects by string prefix as well.
RemoveDirectoryRecursive(p) ==
    /\ Known(p)
    /\ IsDir(path_to_inode[p])
    /\ path_to_inode' = Remove(path_to_inode, MovedPaths(p))
    /\ nodes' = WithoutChildAt(
                  Remove(nodes, {path_to_inode[q] : q \in MovedPaths(p)}),
                  path_to_inode', p)
    /\ UNCHANGED next_inode

\* A mutant: inodes start anew.
ForceRefreshRestarting ==
    /\ nodes' = [i \in {ROOT_INODE} |-> [nodes[ROOT_INODE] EXCEPT !.children = EmptyMap]]
    /\ path_to_inode' = [p \in {Root} |-> path_to_inode[Root]]
    /\ next_inode' = ROOT_INODE + 1

\* force_refresh keeps the root alone; inodes go on counting.
ForceRefresh ==
    /\ nodes' = [i \in {ROOT_INODE} |-> [nodes[ROOT_INODE] EXCEPT !.children = EmptyMap]]
    /\ path_to_inode' = [p \in {Root} |-> path_to_inode[Root]]
    /\ UNCHANGED next_inode

\* The kernel refuses to move a directory below itself before it asks.
KernelAllowsMove(old, new) == ~Under(new, old)

Next ==
    \/ \E p \in FilePaths, id \in FileIds : InsertFile(p, id)
    \/ \E p \in FilePaths : RemoveFile(p)
    \/ \E p \in DirPaths : Mkdir(p)
    \/ EnsureTrashDir
    \/ \E p \in DirPaths : MkdirP(p)
    \/ \E old, new \in FilePaths : RenameFile(old, new)
    \/ \E old, new \in DirPaths :
         KernelAllowsMove(old, new) /\ RenameDirectory(old, new)
    \/ \E p \in DirPaths : RemoveDirectory(p)
    \/ \E p \in DirPaths : RemoveDirectoryRecursive(p)
    \/ ForceRefresh

Spec == Init /\ [][Next]_vars

----------------------------------------------------------------------------
(* Properties.                                                             *)

Inode == Nat \ {0}

NodeOK(node) ==
    \/ /\ node.kind = "dir"
       /\ node = DirNode(node.parent, node.name, node.children)
       /\ node.parent \in Inode
       /\ node.name \in Seq(Fragments)
       /\ DOMAIN node.children \subseteq Names
       /\ \A n \in DOMAIN node.children : node.children[n] \in Inode
    \/ /\ node.kind = "file"
       /\ node = FileNode(node.name, node.file_id)
       /\ node.name \in Names
       /\ node.file_id \in FileIds

\* Directory and file nodes under positive inodes, paths to inodes, all of
\* them below the counter.
TypeOK ==
    /\ next_inode \in Inode
    /\ \A i \in DOMAIN nodes : i \in Inode /\ i < next_inode /\ NodeOK(nodes[i])
    /\ \A p \in DOMAIN path_to_inode : p \in PathSet /\ path_to_inode[p] \in Inode

\* Every path leads to a node, and no two paths to the same one, whatever
\* the order of inserts, renames and removals: a handler that resolves a
\* path acts on a live node that is nobody else's.
PathsAreExact ==
    /\ \A p \in DOMAIN path_to_inode : path_to_inode[p] \in DOMAIN nodes
    /\ \A p, q \in DOMAIN path_to_inode :
         path_to_inode[p] = path_to_inode[q] => p = q

\* The root stays the directory with inode 1 under "/", which the kernel
\* takes for granted.
RootIsFixed ==
    /\ Known(Root) /\ path_to_inode[Root] = ROOT_INODE
    /\ IsDir(ROOT_INODE)

\* An inode number means one thing for ever: while its node exists it keeps
\* its kind and its file, and once dropped it is never given out again.  The
\* kernel caches inodes with generation 0 and relies on it.
InodeKeepsMeaning ==
    [][/\ \A i \in DOMAIN nodes \cap DOMAIN nodes' :
            /\ nodes'[i].kind = nodes[i].kind
            /\ nodes[i].kind = "file" => nodes'[i].file_id = nodes[i].file_id
       /\ \A i \in DOMAIN nodes' \ DOMAIN nodes : i >= next_inode
       /\ next_inode' >= next_inode]_vars

\* The two views agree: what a walk through children finds (the kernel's
\* lookup) is what path_to_inode says, both ways, and each directory knows
\* its parent and each node its name.
ViewsAgree ==
    /\ \A p \in DOMAIN path_to_inode \ {Root} :
         /\ ParentIsDir(p)
         /\ LET dir == path_to_inode[Parent(p)]
                node == nodes[path_to_inode[p]]
            IN  /\ NameOf(p) \in DOMAIN nodes[dir].children
                /\ nodes[dir].children[NameOf(p)] = path_to_inode[p]
                /\ node.name = NameOf(p)
                /\ node.kind = "dir" => node.parent = dir
    /\ \A p \in DOMAIN path_to_inode :
         IsDir(path_to_inode[p]) =>
           \A n \in DOMAIN nodes[path_to_inode[p]].children :
             /\ Known(Append(p, n))
             /\ path_to_inode[Append(p, n)] = nodes[path_to_inode[p]].children[n]

\* Renaming a directory moves the directory and what lies below it, and
\* nothing else ("Renames directory and all descendants").
RenameMovesOnlyDescendants ==
    [][\A old, new \in DirPaths :
         RenameDirectory(old, new) =>
           \A p \in DOMAIN path_to_inode :
             ~Under(p, old) => /\ p \in DOMAIN path_to_inode'
                               /\ path_to_inode'[p] = path_to_inode[p]]_vars

----------------------------------------------------------------------------
(* The tree as a namespace: what a path resolves to.                       *)

Resolved ==
    [p \in DOMAIN path_to_inode |->
        LET node == nodes[path_to_inode[p]]
        IN  IF node.kind = "dir" THEN [kind |-> "dir"]
            ELSE [kind |-> "file", id |-> node.file_id]]

Abstract == INSTANCE Namespace WITH ns <- Resolved

\* Every operation of the tree does to the paths what Namespace says, no
\* more: two maps, inodes and string prefixes are an implementation detail
\* as long as no name in use is a prefix of a sibling's.
ImplementsNamespace == Abstract!Spec
=============================================================================
