------------------------- MODULE VirtualTreeProofs -------------------------
(***************************************************************************)
(* Theorems about VirtualTree, for any names, paths and file ids; that its *)
(* two views agree and that it implements Namespace, for any names none of *)
(* which is a string prefix of another in use.                             *)
(***************************************************************************)
EXTENDS VirtualTree, SequenceTheorems, FiniteSetTheorems, TLAPS

----------------------------------------------------------------------------
(* Paths.                                                                  *)

\* A shorter prefix of a path is a path of the length asked for.
LEMMA UptoIsPath ==
    ASSUME NEW p \in PathSet, NEW k \in 0..Len(p)
    PROVE  Upto(p, k) \in PathSet /\ Len(Upto(p, k)) = k
<1>1. \A i \in 1..k : p[i] \in Names
  BY ElementOfSeq DEF PathSet
<1>2. k \in Int /\ 1 \in Int
  BY LenProperties DEF PathSet
<1> QED
  BY <1>1, <1>2, SubSeqProperties DEF Upto, PathSet

\* A path other than the root has a last component, which is a name, and a
\* parent, which is a path.
LEMMA NonRootPath ==
    ASSUME NEW p \in PathSet \ {Root}
    PROVE  /\ Len(p) \in Nat \ {0}
           /\ NameOf(p) \in Names
           /\ Parent(p) \in PathSet
           /\ Len(Parent(p)) = Len(p) - 1
<1>1. Len(p) \in Nat \ {0}
  BY EmptySeq DEF PathSet, Root
<1>2. NameOf(p) \in Names
  BY <1>1, ElementOfSeq DEF PathSet, NameOf
<1>3. Parent(p) \in PathSet /\ Len(Parent(p)) = Len(p) - 1
  <2>1. Len(p) - 1 \in 0..Len(p)
    BY <1>1
  <2>2. Upto(p, Len(p) - 1) \in PathSet /\ Len(Upto(p, Len(p) - 1)) = Len(p) - 1
    BY <2>1, UptoIsPath
  <2> QED
    BY <2>2 DEF Parent, Upto
<1> QED
  BY <1>1, <1>2, <1>3

\* Nothing but the root has no components.
LEMMA RootIsShort ==
    /\ Root \in PathSet
    /\ Len(Root) = 0
BY EmptySeq DEF Root, PathSet

\* The root does not start with any other path.
LEMMA RootStartsWithNothing ==
    ASSUME NEW q \in PathSet \ {Root}
    PROVE  ~StartsWith(Root, q)
BY NonRootPath, RootIsShort DEF StartsWith

\* Substituting the prefix of a path gives a path, and never the root.
LEMMA SubstituteIsPath ==
    ASSUME NEW p \in PathSet, NEW old \in PathSet \ {Root}, NEW new \in PathSet \ {Root},
           StartsWith(p, old)
    PROVE  Substitute(p, old, new) \in PathSet \ {Root}
<1> DEFINE head == Parent(new)
           name == NameOf(new) \o NameRest(p[Len(old)], NameOf(old))
           tail == SubSeq(p, Len(old) + 1, Len(p))
<1>1. /\ Len(old) \in Nat \ {0} /\ NameOf(old) \in Names
      /\ head \in PathSet /\ NameOf(new) \in Names
      /\ Len(p) \in Nat
  BY NonRootPath, LenProperties DEF PathSet
<1>2. Len(old) <= Len(p)
  BY DEF StartsWith
<1>3. p[Len(old)] \in Names
  BY <1>1, <1>2, ElementOfSeq DEF PathSet
<1>4. name \in Names
  <2>1. /\ Len(p[Len(old)]) \in Nat /\ Len(NameOf(old)) \in Nat
        /\ \A i \in 1..Len(p[Len(old)]) : p[Len(old)][i] \in Fragments
    BY <1>1, <1>3, LenProperties, ElementOfSeq DEF Names
  <2>2. NameRest(p[Len(old)], NameOf(old)) \in Seq(Fragments)
    <3>1. \A i \in Len(NameOf(old)) + 1 .. Len(p[Len(old)]) : p[Len(old)][i] \in Fragments
      BY <2>1
    <3> QED
      BY <2>1, <3>1, SubSeqProperties DEF NameRest
  <2>3. NameOf(new) \in Seq(Fragments) /\ NameOf(new) # <<>>
    BY <1>1 DEF Names
  <2> HIDE DEF name
  <2>4. name \in Seq(Fragments)
    BY <2>2, <2>3, ConcatProperties DEF name
  <2>5. name # <<>>
    BY <2>2, <2>3, ConcatEqualIffEmpty DEF name
  <2> QED
    BY <2>4, <2>5 DEF Names
<1>5. tail \in PathSet
  <2>1. \A i \in Len(old) + 1 .. Len(p) : p[i] \in Names
    BY <1>1, ElementOfSeq DEF PathSet
  <2> QED
    BY <1>1, <2>1, SubSeqProperties DEF PathSet
<1> HIDE DEF head, name, tail
<1>6. <<name>> \in PathSet /\ <<name>> # <<>>
  BY <1>4 DEF PathSet
<1>7. head \o <<name>> \in PathSet /\ head \o <<name>> # <<>>
  BY <1>1, <1>6, ConcatProperties, ConcatEqualIffEmpty DEF PathSet
<1>8. (head \o <<name>>) \o tail \in PathSet /\ (head \o <<name>>) \o tail # <<>>
  BY <1>5, <1>7, ConcatProperties, ConcatEqualIffEmpty DEF PathSet
<1> QED
  BY <1>8 DEF Substitute, head, name, tail, Root

----------------------------------------------------------------------------
(* Node maps.                                                              *)

NodesOK(ns) == \A i \in DOMAIN ns : NodeOK(ns[i])

\* ms has the nodes of ns, each of its kind and, if a file, of its file.
SameMeaning(ns, ms) ==
    /\ DOMAIN ms = DOMAIN ns
    /\ \A i \in DOMAIN ns :
         /\ ms[i].kind = ns[i].kind
         /\ ns[i].kind = "file" => ms[i].file_id = ns[i].file_id

\* Entering a child into a directory, or into nothing, leaves a map of nodes.
LEMMA WithChildKeeps ==
    ASSUME NEW ns, NodesOK(ns), NEW i, NEW name \in Names, NEW child \in Inode
    PROVE  /\ NodesOK(WithChild(ns, i, name, child))
           /\ SameMeaning(ns, WithChild(ns, i, name, child))
<1>1. CASE ~IsDirIn(ns, i)
  BY <1>1 DEF WithChild, SameMeaning
<1>2. CASE IsDirIn(ns, i)
  <2> DEFINE node == ns[i]
             new == DirNode(node.parent, node.name, Insert(node.children, name, child))
             ms == WithChild(ns, i, name, child)
  <2>1. /\ node = DirNode(node.parent, node.name, node.children)
        /\ NodeOK(node) /\ node.kind = "dir"
    BY <1>2 DEF IsDirIn, NodesOK, NodeOK, DirNode, FileNode
  <2>2. DOMAIN ms = DOMAIN ns
    BY <1>2 DEF WithChild
  <2>3. ms[i] = new
    BY <1>2, <2>1 DEF WithChild, IsDirIn, DirNode
  <2>4. \A j \in DOMAIN ns : j # i => ms[j] = ns[j]
    BY <1>2 DEF WithChild, IsDirIn
  <2>5. NodeOK(new)
    <3>1. /\ node.parent \in Inode /\ node.name \in Seq(Fragments)
          /\ DOMAIN node.children \subseteq Names
          /\ \A n \in DOMAIN node.children : node.children[n] \in Inode
      BY <2>1 DEF NodeOK
    <3>2. /\ DOMAIN Insert(node.children, name, child) \subseteq Names
          /\ \A n \in DOMAIN Insert(node.children, name, child) :
               Insert(node.children, name, child)[n] \in Inode
      BY <3>1 DEF Insert
    <3> QED
      BY <3>1, <3>2 DEF NodeOK, DirNode
  <2>6. new.kind = "dir"
    BY DEF DirNode
  <2> HIDE DEF ms, new, node
  <2>7. NodesOK(ms)
    BY <2>2, <2>3, <2>4, <2>5 DEF NodesOK
  <2>8. SameMeaning(ns, ms)
    BY <2>1, <2>2, <2>3, <2>4, <2>6 DEF SameMeaning, node
  <2> QED
    BY <2>7, <2>8 DEF ms
<1> QED
  BY <1>1, <1>2

\* So does dropping a child.
LEMMA WithoutChildKeeps ==
    ASSUME NEW ns, NodesOK(ns), NEW i, NEW name
    PROVE  /\ NodesOK(WithoutChild(ns, i, name))
           /\ SameMeaning(ns, WithoutChild(ns, i, name))
<1>1. CASE ~IsDirIn(ns, i)
  BY <1>1 DEF WithoutChild, SameMeaning
<1>2. CASE IsDirIn(ns, i)
  <2> DEFINE node == ns[i]
             new == DirNode(node.parent, node.name, Remove(node.children, {name}))
             ms == WithoutChild(ns, i, name)
  <2>1. /\ node = DirNode(node.parent, node.name, node.children)
        /\ NodeOK(node) /\ node.kind = "dir"
    BY <1>2 DEF IsDirIn, NodesOK, NodeOK, DirNode, FileNode
  <2>2. DOMAIN ms = DOMAIN ns
    BY <1>2 DEF WithoutChild
  <2>3. ms[i] = new
    BY <1>2, <2>1 DEF WithoutChild, IsDirIn, DirNode
  <2>4. \A j \in DOMAIN ns : j # i => ms[j] = ns[j]
    BY <1>2 DEF WithoutChild, IsDirIn
  <2>5. NodeOK(new)
    BY <2>1 DEF NodeOK, DirNode, Remove
  <2>6. new.kind = "dir"
    BY DEF DirNode
  <2> HIDE DEF ms, new, node
  <2>7. NodesOK(ms)
    BY <2>2, <2>3, <2>4, <2>5 DEF NodesOK
  <2>8. SameMeaning(ns, ms)
    BY <2>1, <2>2, <2>3, <2>4, <2>6 DEF SameMeaning, node
  <2> QED
    BY <2>7, <2>8 DEF ms
<1> QED
  BY <1>1, <1>2

\* The same, for a child found through its parent's path (rename and remove).
LEMMA WithoutChildAtKeeps ==
    ASSUME NEW ns, NodesOK(ns), NEW paths, NEW p
    PROVE  /\ NodesOK(WithoutChildAt(ns, paths, p))
           /\ SameMeaning(ns, WithoutChildAt(ns, paths, p))
BY WithoutChildKeeps DEF WithoutChildAt, SameMeaning

\* Changes that keep what each inode means compose.
LEMMA SameMeaningTransitive ==
    ASSUME NEW ns, NEW ms, NEW ls, SameMeaning(ns, ms), SameMeaning(ms, ls)
    PROVE  SameMeaning(ns, ls)
BY DEF SameMeaning

\* A fresh directory is a node.
LEMMA DirNodeOK ==
    ASSUME NEW parent \in Inode, NEW name \in Names
    PROVE  NodeOK(DirNode(parent, name, EmptyMap))
BY DEF NodeOK, DirNode, EmptyMap, Names

\* A fresh file (insert_file) is a node.
LEMMA FileNodeOK ==
    ASSUME NEW name \in Names, NEW id \in FileIds
    PROVE  NodeOK(FileNode(name, id))
BY DEF NodeOK, FileNode

----------------------------------------------------------------------------
(* The inductive invariant, as a predicate on the three parts of the tree, *)
(* so that each helper can be shown to keep it.                            *)

Good(ns, paths, next) ==
    /\ next \in Inode
    /\ NodesOK(ns)
    /\ \A i \in DOMAIN ns : i \in Inode /\ i < next
    /\ DOMAIN paths \subseteq PathSet
    /\ \A p \in DOMAIN paths : paths[p] \in DOMAIN ns
    /\ \A p, q \in DOMAIN paths : paths[p] = paths[q] => p = q
    /\ Root \in DOMAIN paths /\ paths[Root] = ROOT_INODE
    /\ IsDirIn(ns, ROOT_INODE)

\* The nodes that ns and ms share mean the same, and the others are new.
Keeps(ns, ms, next) ==
    /\ \A i \in DOMAIN ns \cap DOMAIN ms :
         /\ ms[i].kind = ns[i].kind
         /\ ns[i].kind = "file" => ms[i].file_id = ns[i].file_id
    /\ \A i \in DOMAIN ms \ DOMAIN ns : i >= next

TreeInv == TypeOK /\ PathsAreExact /\ RootIsFixed

\* The invariant, as a predicate of the three variables' values.
LEMMA TreeInvIsGood == TreeInv <=> Good(nodes, path_to_inode, next_inode)
BY DEF TreeInv, Good, TypeOK, PathsAreExact, RootIsFixed, NodesOK, Known, IsDir, Inode

\* Changing children, names or parents keeps the invariant.
LEMMA SameMeaningGood ==
    ASSUME NEW ns, NEW paths, NEW next, Good(ns, paths, next),
           NEW ms, NodesOK(ms), SameMeaning(ns, ms)
    PROVE  Good(ms, paths, next) /\ Keeps(ns, ms, next)
BY DEF Good, SameMeaning, Keeps, IsDirIn

\* A new node under the next inode, and a path to it, keep it.
LEMMA AddGood ==
    ASSUME NEW ns, NEW paths, NEW next, Good(ns, paths, next),
           NEW p \in PathSet \ {Root}, NEW node, NodeOK(node)
    PROVE  /\ Good(Insert(ns, next, node), Insert(paths, p, next), next + 1)
           /\ Keeps(ns, Insert(ns, next, node), next)
<1> DEFINE ms == Insert(ns, next, node)
           qs == Insert(paths, p, next)
<1>1. next \in Nat /\ next + 1 \in Inode /\ next \notin DOMAIN ns
  BY DEF Good, Inode
<1>2. /\ DOMAIN ms = DOMAIN ns \cup {next}
      /\ ms[next] = node
      /\ \A i \in DOMAIN ns : ms[i] = ns[i]
  BY <1>1 DEF Insert
<1>3. /\ DOMAIN qs = DOMAIN paths \cup {p}
      /\ qs[p] = next
      /\ \A q \in DOMAIN paths : q # p => qs[q] = paths[q]
  BY DEF Insert
<1> HIDE DEF ms, qs
<1>4. NodesOK(ms) /\ IsDirIn(ms, ROOT_INODE)
  BY <1>2 DEF Good, NodesOK, IsDirIn
<1>5. \A i \in DOMAIN ms : i \in Inode /\ i < next + 1
  BY <1>1, <1>2 DEF Good, Inode
<1>6. DOMAIN qs \subseteq PathSet /\ \A q \in DOMAIN qs : qs[q] \in DOMAIN ms
  BY <1>2, <1>3 DEF Good
<1>7. \A q, r \in DOMAIN qs : qs[q] = qs[r] => q = r
  BY <1>1, <1>3 DEF Good
<1>8. Root \in DOMAIN qs /\ qs[Root] = ROOT_INODE
  BY <1>3 DEF Good
<1>9. Keeps(ns, ms, next)
  BY <1>1, <1>2 DEF Keeps
<1>10. Good(ms, qs, next + 1)
  BY <1>1, <1>4, <1>5, <1>6, <1>7, <1>8 DEF Good
<1> QED
  BY <1>9, <1>10 DEF ms, qs

\* Dropping paths other than the root's, and nodes only they lead to, keeps it.
LEMMA RemoveGood ==
    ASSUME NEW ns, NEW paths, NEW next, Good(ns, paths, next),
           NEW K, Root \notin K, NEW I,
           \A i \in I : \E q \in K \cap DOMAIN paths : paths[q] = i
    PROVE  /\ Good(Remove(ns, I), Remove(paths, K), next)
           /\ Keeps(ns, Remove(ns, I), next)
<1> DEFINE ms == Remove(ns, I)
           qs == Remove(paths, K)
<1>1. /\ DOMAIN ms = DOMAIN ns \ I
      /\ \A i \in DOMAIN ms : ms[i] = ns[i]
      /\ DOMAIN qs = DOMAIN paths \ K
      /\ \A q \in DOMAIN qs : qs[q] = paths[q]
  BY DEF Remove
<1>2. \A q \in DOMAIN qs : paths[q] \notin I
  BY <1>1 DEF Good
<1>3. Root \in DOMAIN qs /\ ROOT_INODE \in DOMAIN ms
  BY <1>1, <1>2 DEF Good
<1> HIDE DEF ms, qs
<1>4. Keeps(ns, ms, next)
  BY <1>1 DEF Keeps
<1>5. NodesOK(ms) /\ IsDirIn(ms, ROOT_INODE) /\ \A i \in DOMAIN ms : i \in Inode /\ i < next
  BY <1>1, <1>3 DEF Good, NodesOK, IsDirIn
<1>6. \A q \in DOMAIN qs : qs[q] \in DOMAIN ms
  BY <1>1, <1>2 DEF Good
<1>7. /\ DOMAIN qs \subseteq PathSet
      /\ \A q, r \in DOMAIN qs : qs[q] = qs[r] => q = r
      /\ qs[Root] = ROOT_INODE
  BY <1>1, <1>3 DEF Good
<1>8. Good(ms, qs, next)
  BY <1>3, <1>5, <1>6, <1>7 DEF Good
<1> QED
  BY <1>4, <1>8 DEF ms, qs

----------------------------------------------------------------------------
(* The walk that creates missing directories.                              *)

\* The directories a walk creates get consecutive inodes, in order.
LEMMA WalkInodes ==
    ASSUME TreeInv, NEW p \in PathSet, NEW m \in 0..Len(p)
    PROVE  /\ AfterWalk(p, m) \in Inode /\ next_inode <= AfterWalk(p, m)
           /\ \A k \in Missing(p, m) :
                /\ k \in 1..m
                /\ WalkInode(p, k) \in Inode
                /\ next_inode <= WalkInode(p, k)
                /\ WalkInode(p, k) < AfterWalk(p, m)
           /\ \A j, k \in Missing(p, m) : WalkInode(p, j) = WalkInode(p, k) => j = k
           /\ \A k \in 0..m : WalkInode(p, k) \in Inode
<1> DEFINE card(k) == Cardinality(Missing(p, k))
<1>1. \A k \in 0..m : IsFiniteSet(Missing(p, k)) /\ card(k) \in Nat
  <2> SUFFICES ASSUME NEW k \in 0..m
               PROVE  IsFiniteSet(Missing(p, k)) /\ card(k) \in Nat
    OBVIOUS
  <2>1. IsFiniteSet(1..k)
    BY FS_Interval
  <2>2. Missing(p, k) \in SUBSET (1..k)
    BY DEF Missing
  <2>3. IsFiniteSet(Missing(p, k))
    BY <2>1, <2>2, FS_Subset
  <2> QED
    BY <2>3, FS_CardinalityType
<1>2. next_inode \in Inode /\ \A q \in DOMAIN path_to_inode : path_to_inode[q] \in Inode
  BY DEF TreeInv, TypeOK
<1>3. \A k \in Missing(p, m) : WalkInode(p, k) = next_inode + card(k - 1)
  BY DEF Missing, WalkInode
<1>4. \A k \in Missing(p, m), j \in 0..m : k <= j => card(k - 1) < card(j)
  <2> SUFFICES ASSUME NEW k \in Missing(p, m), NEW j \in 0..m, k <= j
               PROVE  card(k - 1) < card(j)
    OBVIOUS
  <2>1. k \in 1..m /\ k - 1 \in 0..m
    BY DEF Missing
  <2>2. Missing(p, k - 1) \in SUBSET Missing(p, j)
    BY <2>1 DEF Missing
  <2>3. k \in Missing(p, j) /\ k \notin Missing(p, k - 1)
    BY <2>1 DEF Missing
  <2>4. card(k - 1) <= card(j) /\ card(k - 1) # card(j)
    BY <1>1, <2>2, <2>3, FS_Subset
  <2> QED
    BY <1>1, <2>1, <2>4
<1> HIDE DEF card
<1>5. AfterWalk(p, m) = next_inode + card(m)
  BY DEF AfterWalk, card
<1>6. m \in 0..m /\ \A k \in Missing(p, m) : k \in 1..m /\ k <= m /\ k - 1 \in 0..m
  BY DEF Missing
<1>7. AfterWalk(p, m) \in Inode /\ next_inode <= AfterWalk(p, m)
  BY <1>1, <1>2, <1>5, <1>6 DEF Inode
<1>8. \A k \in Missing(p, m) :
         /\ WalkInode(p, k) \in Inode
         /\ next_inode <= WalkInode(p, k)
         /\ WalkInode(p, k) < AfterWalk(p, m)
  BY <1>1, <1>2, <1>3, <1>4, <1>5, <1>6 DEF Inode
<1>9. \A j, k \in Missing(p, m) : j < k => WalkInode(p, j) < WalkInode(p, k)
  <2> SUFFICES ASSUME NEW j \in Missing(p, m), NEW k \in Missing(p, m), j < k
               PROVE  WalkInode(p, j) < WalkInode(p, k)
    OBVIOUS
  <2>1. card(j - 1) < card(k - 1)
    BY <1>4, <1>6
  <2> QED
    BY <1>1, <1>2, <1>3, <1>6, <2>1 DEF Inode
<1>10. \A j, k \in Missing(p, m) : WalkInode(p, j) = WalkInode(p, k) => j = k
  BY <1>6, <1>8, <1>9 DEF Inode
<1>11. \A k \in 0..m : WalkInode(p, k) \in Inode
  <2> SUFFICES ASSUME NEW k \in 0..m PROVE WalkInode(p, k) \in Inode
    OBVIOUS
  <2>1. CASE k = 0
    BY <2>1 DEF WalkInode, ROOT_INODE, Inode
  <2>2. CASE k # 0 /\ Known(Upto(p, k))
    BY <1>2, <2>2 DEF WalkInode, Known
  <2>3. CASE k # 0 /\ ~Known(Upto(p, k))
    BY <1>8, <2>3 DEF Missing
  <2> QED
    BY <2>1, <2>2, <2>3
<1> QED
  BY <1>6, <1>7, <1>8, <1>10, <1>11

\* What the walk does to the paths: every missing prefix, nothing else.
LEMMA WalkPathsAre ==
    ASSUME NEW p \in PathSet, NEW m \in 0..Len(p)
    PROVE  /\ DOMAIN WalkPaths(p, m) =
                DOMAIN path_to_inode \cup {Upto(p, k) : k \in Missing(p, m)}
           /\ \A q \in DOMAIN path_to_inode : WalkPaths(p, m)[q] = path_to_inode[q]
           /\ \A k \in Missing(p, m) :
                /\ Upto(p, k) \in PathSet /\ Upto(p, k) \notin DOMAIN path_to_inode
                /\ WalkPaths(p, m)[Upto(p, k)] = WalkInode(p, k)
<1>1. \A k \in Missing(p, m) :
         /\ Upto(p, k) \in PathSet /\ Len(Upto(p, k)) = k
         /\ Upto(p, k) \notin DOMAIN path_to_inode
  <2> SUFFICES ASSUME NEW k \in Missing(p, m)
               PROVE  /\ Upto(p, k) \in PathSet /\ Len(Upto(p, k)) = k
                      /\ Upto(p, k) \notin DOMAIN path_to_inode
    OBVIOUS
  <2>1. Len(p) \in Nat
    BY LenProperties DEF PathSet
  <2>2. k \in 0..Len(p) /\ Upto(p, k) \notin DOMAIN path_to_inode
    BY <2>1 DEF Missing, Known
  <2> QED
    BY <2>2, UptoIsPath
<1> QED
  BY <1>1 DEF WalkPaths

\* What the walk does to the nodes: a directory for every inode it hands
\* out, and for the others at most a new child.
LEMMA WalkNodesAre ==
    ASSUME TreeInv, NEW p \in PathSet, NEW m \in 0..Len(p)
    PROVE  /\ DOMAIN WalkNodes(p, m) =
                DOMAIN nodes \cup {WalkInode(p, k) : k \in Missing(p, m)}
           /\ NodesOK(WalkNodes(p, m))
           /\ Keeps(nodes, WalkNodes(p, m), next_inode)
           /\ IsDirIn(WalkNodes(p, m), ROOT_INODE)
<1> DEFINE made == {WalkInode(p, k) : k \in Missing(p, m)}
           node(i) == IF i \in DOMAIN nodes THEN nodes[i]
                      ELSE LET k == CHOOSE k \in Missing(p, m) : WalkInode(p, k) = i
                           IN  DirNode(WalkInode(p, k - 1), p[k], EmptyMap)
           entered(i) == {k \in Missing(p, m) : WalkInode(p, k - 1) = i}
           pick(i) == CHOOSE k \in entered(i) : TRUE
           ms == WalkNodes(p, m)
<1>1. DOMAIN ms = DOMAIN nodes \cup made
  BY DEF WalkNodes
<1>2. \A k \in Missing(p, m) : k \in 1..m /\ p[k] \in Names /\ k - 1 \in 0..m
  <2>1. Len(p) \in Nat
    BY LenProperties DEF PathSet
  <2> QED
    BY <2>1, ElementOfSeq DEF Missing, PathSet
<1>3. \A i \in DOMAIN ms : NodeOK(node(i))
  <2> SUFFICES ASSUME NEW i \in DOMAIN ms PROVE NodeOK(node(i))
    OBVIOUS
  <2>1. CASE i \in DOMAIN nodes
    BY <2>1 DEF TreeInv, TypeOK
  <2>2. CASE i \notin DOMAIN nodes
    <3>1. PICK k \in Missing(p, m) :
            /\ WalkInode(p, k) = i
            /\ node(i) = DirNode(WalkInode(p, k - 1), p[k], EmptyMap)
      BY <1>1, <2>2
    <3>2. WalkInode(p, k - 1) \in Inode /\ p[k] \in Names
      BY <1>2, WalkInodes
    <3> QED
      BY <3>1, <3>2, DirNodeOK
  <2> QED
    BY <2>1, <2>2
<1>4. \A i \in DOMAIN ms :
        \/ ms[i] = node(i)
        \/ /\ node(i).kind = "dir"
           /\ entered(i) # {}
           /\ ms[i] = [node(i) EXCEPT !.children =
                         Insert(@, p[pick(i)], WalkInode(p, pick(i)))]
  BY <1>1 DEF WalkNodes
<1>5. \A i \in DOMAIN ms : NodeOK(ms[i]) /\ ms[i].kind = node(i).kind
                            /\ (node(i).kind = "file" => ms[i] = node(i))
  <2> SUFFICES ASSUME NEW i \in DOMAIN ms
               PROVE  NodeOK(ms[i]) /\ ms[i].kind = node(i).kind
                        /\ (node(i).kind = "file" => ms[i] = node(i))
    OBVIOUS
  <2>1. CASE ms[i] = node(i)
    BY <1>3, <2>1
  <2>2. CASE ms[i] # node(i)
    <3> DEFINE base == node(i)
               k == pick(i)
    <3>1. k \in Missing(p, m)
      BY <1>4, <2>2
    <3>2. p[k] \in Names /\ WalkInode(p, k) \in Inode
      BY <1>2, <3>1, WalkInodes
    <3>3. base.kind = "dir" /\ NodeOK(base)
      BY <1>3, <1>4, <2>2
    <3>4. ms[i] = [base EXCEPT !.children = Insert(base.children, p[k], WalkInode(p, k))]
      BY <1>4, <2>2
    <3> HIDE DEF base, k, ms
    <3>5. /\ base = DirNode(base.parent, base.name, base.children)
          /\ base.parent \in Inode /\ base.name \in Seq(Fragments)
          /\ DOMAIN base.children \subseteq Names
          /\ \A n \in DOMAIN base.children : base.children[n] \in Inode
      BY <3>3 DEF NodeOK
    <3>6. ms[i] = DirNode(base.parent, base.name,
                          Insert(base.children, p[k], WalkInode(p, k)))
      BY <3>4, <3>5 DEF DirNode
    <3>7. /\ DOMAIN Insert(base.children, p[k], WalkInode(p, k)) \subseteq Names
          /\ \A n \in DOMAIN Insert(base.children, p[k], WalkInode(p, k)) :
               Insert(base.children, p[k], WalkInode(p, k))[n] \in Inode
      BY <3>2, <3>5 DEF Insert
    <3>8. NodeOK(ms[i]) /\ ms[i].kind = "dir"
      BY <3>5, <3>6, <3>7 DEF NodeOK, DirNode
    <3> QED
      BY <3>3, <3>8 DEF base
  <2> QED
    BY <2>1, <2>2
<1>6. \A i \in DOMAIN nodes : node(i) = nodes[i]
  OBVIOUS
<1>7. \A i \in made : i >= next_inode
  BY WalkInodes
<1> HIDE DEF ms, node, made
<1>8. NodesOK(ms)
  BY <1>5 DEF NodesOK
<1>9. Keeps(nodes, ms, next_inode)
  BY <1>1, <1>5, <1>6, <1>7 DEF Keeps
<1>10. IsDirIn(ms, ROOT_INODE)
  BY <1>1, <1>5, <1>6 DEF TreeInv, RootIsFixed, IsDir, IsDirIn
<1> QED
  BY <1>1, <1>8, <1>9, <1>10 DEF ms, made

\* The walk keeps the invariant.
LEMMA WalkGood ==
    ASSUME TreeInv, NEW p \in PathSet, NEW m \in 0..Len(p)
    PROVE  /\ Good(WalkNodes(p, m), WalkPaths(p, m), AfterWalk(p, m))
           /\ Keeps(nodes, WalkNodes(p, m), next_inode)
           /\ DOMAIN nodes \subseteq DOMAIN WalkNodes(p, m)
<1> DEFINE ms == WalkNodes(p, m)
           qs == WalkPaths(p, m)
           nxt == AfterWalk(p, m)
           new == {Upto(p, k) : k \in Missing(p, m)}
<1>1. Good(nodes, path_to_inode, next_inode)
  BY TreeInvIsGood
<1>2. /\ DOMAIN ms = DOMAIN nodes \cup {WalkInode(p, k) : k \in Missing(p, m)}
      /\ NodesOK(ms) /\ Keeps(nodes, ms, next_inode) /\ IsDirIn(ms, ROOT_INODE)
  BY WalkNodesAre
<1>3. /\ DOMAIN qs = DOMAIN path_to_inode \cup new
      /\ \A q \in DOMAIN path_to_inode : qs[q] = path_to_inode[q]
      /\ \A k \in Missing(p, m) :
           /\ Upto(p, k) \in PathSet /\ Upto(p, k) \notin DOMAIN path_to_inode
           /\ qs[Upto(p, k)] = WalkInode(p, k)
  BY WalkPathsAre
<1>4. /\ nxt \in Inode /\ next_inode <= nxt
      /\ \A k \in Missing(p, m) :
           /\ WalkInode(p, k) \in Inode
           /\ next_inode <= WalkInode(p, k)
           /\ WalkInode(p, k) < nxt
      /\ \A j, k \in Missing(p, m) : WalkInode(p, j) = WalkInode(p, k) => j = k
  BY WalkInodes
<1> HIDE DEF ms, qs, nxt
<1>5. \A i \in DOMAIN ms : i \in Inode /\ i < nxt
  BY <1>1, <1>2, <1>4 DEF Good, Inode
<1>6. DOMAIN qs \subseteq PathSet /\ \A q \in DOMAIN qs : qs[q] \in DOMAIN ms
  BY <1>1, <1>2, <1>3 DEF Good
<1>7. \A q \in new : qs[q] >= next_inode
  BY <1>3, <1>4
<1>8. \A q \in DOMAIN path_to_inode : qs[q] < next_inode /\ qs[q] \in Nat
  BY <1>1, <1>3 DEF Good, Inode
<1>9. \A q, r \in new : qs[q] = qs[r] => q = r
  BY <1>3, <1>4
<1>10. \A q, r \in DOMAIN qs : qs[q] = qs[r] => q = r
  <2> SUFFICES ASSUME NEW q \in DOMAIN qs, NEW r \in DOMAIN qs, qs[q] = qs[r]
               PROVE  q = r
    OBVIOUS
  <2>1. CASE q \in DOMAIN path_to_inode /\ r \in DOMAIN path_to_inode
    BY <1>1, <1>3, <2>1 DEF Good
  <2>2. CASE q \in new /\ r \in new
    BY <1>9, <2>2
  <2>3. next_inode \in Nat
    BY <1>1 DEF Good, Inode
  <2> QED
    BY <1>3, <1>7, <1>8, <2>1, <2>2, <2>3
<1>11. Root \in DOMAIN qs /\ qs[Root] = ROOT_INODE
  BY <1>1, <1>3 DEF Good
<1>12. Good(ms, qs, nxt)
  BY <1>2, <1>4, <1>5, <1>6, <1>10, <1>11 DEF Good
<1> QED
  BY <1>2, <1>12 DEF ms, qs, nxt

----------------------------------------------------------------------------
(* Moving paths.                                                           *)

\* Handing the inode of one path to another that is free keeps the invariant.
LEMMA MoveGood ==
    ASSUME NEW ns, NEW paths, NEW next, Good(ns, paths, next),
           NEW old \in DOMAIN paths \ {Root},
           NEW new \in PathSet \ {Root}, new \notin DOMAIN paths
    PROVE  Good(ns, Insert(Remove(paths, {old}), new, paths[old]), next)
<1> DEFINE qs == Insert(Remove(paths, {old}), new, paths[old])
<1>1. /\ DOMAIN qs = (DOMAIN paths \ {old}) \cup {new}
      /\ qs[new] = paths[old]
      /\ \A q \in DOMAIN paths \ {old} : qs[q] = paths[q]
  BY DEF Insert, Remove
<1> HIDE DEF qs
<1>2. /\ DOMAIN qs \subseteq PathSet
      /\ \A q \in DOMAIN qs : qs[q] \in DOMAIN ns
      /\ Root \in DOMAIN qs /\ qs[Root] = ROOT_INODE
  BY <1>1 DEF Good
<1>3. \A q, r \in DOMAIN qs : qs[q] = qs[r] => q = r
  BY <1>1 DEF Good
<1>4. Good(ns, qs, next)
  BY <1>2, <1>3 DEF Good
<1> QED
  BY <1>4 DEF qs

\* Whatever paths the loop of rename_directory loses, and whether or not the
\* prefix is that of a sibling, every path left has an inode of its own.
LEMMA RenamedGood ==
    ASSUME TreeInv, NEW old \in PathSet \ {Root}, NEW new \in PathSet \ {Root},
           NEW lost \in SUBSET (MovedPaths(old) \cap
                                  {Substitute(p, old, new) : p \in MovedPaths(old)})
    PROVE  Good(nodes, RenamedPaths(old, new, lost), next_inode)
<1> DEFINE moved == MovedPaths(old)
           targets == {Substitute(p, old, new) : p \in moved}
           source(q) == CHOOSE p \in moved : Substitute(p, old, new) = q
           qs == RenamedPaths(old, new, lost)
<1>1. Good(nodes, path_to_inode, next_inode)
  BY TreeInvIsGood
<1>2. \A p \in moved : p \in DOMAIN path_to_inode /\ p \in PathSet /\ StartsWith(p, old)
  BY <1>1 DEF MovedPaths, Good
<1>3. Root \notin moved
  BY RootStartsWithNothing DEF MovedPaths
<1>4. \A q \in targets : q \in PathSet \ {Root}
  BY <1>2, SubstituteIsPath
<1>5. \A q \in targets : source(q) \in moved /\ Substitute(source(q), old, new) = q
  OBVIOUS
<1>6. /\ DOMAIN qs = (((DOMAIN path_to_inode) \ moved) \cup targets) \ lost
      /\ \A q \in DOMAIN qs : qs[q] = IF q \in targets THEN path_to_inode[source(q)]
                                      ELSE path_to_inode[q]
  BY DEF RenamedPaths
<1> HIDE DEF qs, source, targets, moved
<1>7. /\ DOMAIN qs \subseteq PathSet
      /\ \A q \in DOMAIN qs : qs[q] \in DOMAIN nodes
  BY <1>1, <1>2, <1>4, <1>5, <1>6 DEF Good
<1>8. Root \in DOMAIN qs /\ qs[Root] = ROOT_INODE
  BY <1>1, <1>3, <1>4, <1>6 DEF Good, moved
<1>9. \A q, r \in DOMAIN qs : qs[q] = qs[r] => q = r
  <2> SUFFICES ASSUME NEW q \in DOMAIN qs, NEW r \in DOMAIN qs, qs[q] = qs[r]
               PROVE  q = r
    OBVIOUS
  <2>1. \A s, t \in DOMAIN path_to_inode : path_to_inode[s] = path_to_inode[t] => s = t
    BY <1>1 DEF Good
  <2>2. CASE q \in targets /\ r \in targets
    BY <1>2, <1>5, <1>6, <2>1, <2>2
  <2>3. CASE q \notin targets /\ r \notin targets
    BY <1>6, <2>1, <2>3
  <2>4. CASE q \in targets /\ r \notin targets
    <3>1. source(q) \in moved /\ r \notin moved /\ r \in DOMAIN path_to_inode
      BY <1>5, <1>6, <2>4
    <3> QED
      BY <1>2, <1>6, <2>1, <2>4, <3>1
  <2>5. CASE q \notin targets /\ r \in targets
    <3>1. source(r) \in moved /\ q \notin moved /\ q \in DOMAIN path_to_inode
      BY <1>5, <1>6, <2>5
    <3> QED
      BY <1>2, <1>6, <2>1, <2>5, <3>1
  <2> QED
    BY <2>2, <2>3, <2>4, <2>5
<1>10. Good(nodes, qs, next_inode)
  BY <1>1, <1>7, <1>8, <1>9 DEF Good
<1> QED
  BY <1>10 DEF qs

\* Renaming the node at i leaves a map of nodes, with or without a new parent.
LEMMA RenamedNode ==
    ASSUME NEW ns, NodesOK(ns), NEW i \in DOMAIN ns, NEW name \in Names,
           NEW parent \in Inode
    PROVE  /\ NodesOK([ns EXCEPT ![i].name = name])
           /\ SameMeaning(ns, [ns EXCEPT ![i].name = name])
           /\ IsDirIn(ns, i) =>
                /\ NodesOK([ns EXCEPT ![i].name = name, ![i].parent = parent])
                /\ SameMeaning(ns, [ns EXCEPT ![i].name = name, ![i].parent = parent])
<1> DEFINE node == ns[i]
           named == [ns EXCEPT ![i].name = name]
           moved == [ns EXCEPT ![i].name = name, ![i].parent = parent]
<1>1. NodeOK(node) /\ name \in Seq(Fragments)
  BY DEF NodesOK, Names
<1>2. /\ DOMAIN named = DOMAIN ns
      /\ named[i] = [node EXCEPT !.name = name]
      /\ \A j \in DOMAIN ns : j # i => named[j] = ns[j]
  OBVIOUS
<1>3. /\ DOMAIN moved = DOMAIN ns
      /\ moved[i] = [[node EXCEPT !.name = name] EXCEPT !.parent = parent]
      /\ \A j \in DOMAIN ns : j # i => moved[j] = ns[j]
  OBVIOUS
<1> HIDE DEF named, moved
<1>4. CASE node.kind = "dir"
  <2>1. node = DirNode(node.parent, node.name, node.children)
    BY <1>1, <1>4 DEF NodeOK, FileNode
  <2>2. named[i] = DirNode(node.parent, name, node.children)
    BY <1>2, <2>1 DEF DirNode
  <2>3. moved[i] = DirNode(parent, name, node.children)
    <3> DEFINE mid == DirNode(node.parent, name, node.children)
    <3>1. [node EXCEPT !.name = name] = mid
      BY <2>1 DEF DirNode
    <3>2. [mid EXCEPT !.parent = parent] = DirNode(parent, name, node.children)
      BY DEF DirNode
    <3> QED
      BY <1>3, <3>1, <3>2
  <2>4. NodeOK(named[i]) /\ NodeOK(moved[i])
    BY <1>1, <1>4, <2>2, <2>3 DEF NodeOK, DirNode
  <2>5. named[i].kind = "dir" /\ moved[i].kind = "dir"
    BY <2>2, <2>3 DEF DirNode
  <2>6. NodesOK(named) /\ NodesOK(moved)
    BY <1>2, <1>3, <2>4 DEF NodesOK
  <2>7. SameMeaning(ns, named) /\ SameMeaning(ns, moved)
    BY <1>2, <1>3, <1>4, <2>5 DEF SameMeaning
  <2> QED
    BY <2>6, <2>7 DEF named, moved
<1>5. CASE node.kind # "dir"
  <2>1. node = FileNode(node.name, node.file_id) /\ node.file_id \in FileIds
    BY <1>1, <1>5 DEF NodeOK
  <2>2. named[i] = FileNode(name, node.file_id)
    BY <1>2, <2>1 DEF FileNode
  <2>3. NodeOK(named[i]) /\ named[i].kind = "file" /\ named[i].file_id = node.file_id
    BY <2>1, <2>2, FileNodeOK DEF FileNode
  <2>4. node.kind = "file"
    BY <1>1, <1>5 DEF NodeOK
  <2>5. NodesOK(named) /\ SameMeaning(ns, named)
    BY <1>2, <2>3, <2>4 DEF NodesOK, SameMeaning
  <2> QED
    BY <1>5, <2>5 DEF named, IsDirIn
<1> QED
  BY <1>4, <1>5

----------------------------------------------------------------------------
(* Every operation keeps the invariant and the meaning of the inodes.      *)

\* What an operation does: the invariant again, no inode changes sides, and
\* the counter does not go back.
Fine(ns, paths, next) ==
    /\ Good(ns, paths, next)
    /\ Keeps(nodes, ns, next_inode)
    /\ next_inode <= next

\* A change of children or names after a change that keeps the meanings.
LEMMA SameMeaningFine ==
    ASSUME NEW ns, NEW paths, NEW next, Fine(ns, paths, next),
           NEW ms, NodesOK(ms), SameMeaning(ns, ms)
    PROVE  Fine(ms, paths, next)
<1>1. Good(ms, paths, next)
  BY SameMeaningGood DEF Fine
<1>2. Keeps(nodes, ms, next_inode)
  BY DEF Fine, Keeps, SameMeaning
<1> QED
  BY <1>1, <1>2 DEF Fine

\* A new node after a change that dropped none and whose counter moved on.
LEMMA AddFine ==
    ASSUME NEW ns, NEW paths, NEW next, Fine(ns, paths, next),
           DOMAIN nodes \subseteq DOMAIN ns,
           next_inode \in Nat,
           NEW p \in PathSet \ {Root}, NEW node, NodeOK(node)
    PROVE  Fine(Insert(ns, next, node), Insert(paths, p, next), next + 1)
<1> DEFINE ms == Insert(ns, next, node)
<1>1. /\ Good(ms, Insert(paths, p, next), next + 1)
      /\ Keeps(ns, ms, next)
  BY AddGood DEF Fine
<1>2. next \notin DOMAIN ns /\ next \in Nat
  BY DEF Fine, Good, Inode
<1>3. /\ DOMAIN ms = DOMAIN ns \cup {next}
      /\ \A i \in DOMAIN ns : ms[i] = ns[i]
  BY <1>2 DEF Insert
<1> HIDE DEF ms
<1>4. Keeps(nodes, ms, next_inode)
  BY <1>2, <1>3 DEF Fine, Keeps
<1>5. next_inode <= next + 1
  BY <1>2 DEF Fine
<1> QED
  BY <1>1, <1>4, <1>5 DEF Fine, ms

\* Doing nothing keeps the invariant and every inode's meaning.
LEMMA TreeInvIsFine == TreeInv => Fine(nodes, path_to_inode, next_inode)
<1>1. TreeInv => next_inode <= next_inode
  BY DEF TreeInv, TypeOK, Inode
<1> QED
  BY <1>1, TreeInvIsGood DEF Fine, Keeps

\* The arguments are paths below the root.
LEMMA Arguments ==
    /\ \A p \in FilePaths \cup DirPaths : p \in PathSet \ {Root} /\ Parent(p) \in PathSet
    /\ TrashPath \in PathSet \ {Root}
    /\ NameOf(TrashPath) \in Names
<1>1. \A p \in FilePaths \cup DirPaths : p \in PathSet \ {Root} /\ Parent(p) \in PathSet
  BY FragmentsAssumption, NonRootPath
<1>2. TrashPath \in PathSet \ {Root}
  BY FragmentsAssumption DEF TrashPath, PathSet, Root
<1> QED
  BY <1>1, <1>2, NonRootPath

\* insert_file, over a taken path too: the old node stays without a path.
LEMMA InsertFileFine ==
    ASSUME TreeInv, NEW p \in FilePaths, NEW id \in FileIds, InsertFile(p, id)
    PROVE  Fine(nodes', path_to_inode', next_inode')
<1> DEFINE m == Len(p) - 1
           inode == AfterWalk(p, m)
           ns == WalkNodes(p, m)
           placed == Insert(ns, inode, FileNode(NameOf(p), id))
<1>1. p \in PathSet \ {Root} /\ p \in PathSet
  BY Arguments
<1>2. m \in 0..Len(p) /\ NameOf(p) \in Names
  BY <1>1, NonRootPath
<1> HIDE DEF m
<1>3. /\ next_inode \in Nat /\ next_inode <= inode
      /\ inode \in Inode /\ WalkInode(p, m) \in Inode
  <2>1. m \in 0..m
    BY <1>1, <1>2, LenProperties DEF PathSet
  <2>2. inode \in Inode /\ next_inode <= inode /\ WalkInode(p, m) \in Inode
    BY <1>1, <1>2, <2>1, WalkInodes
  <2> QED
    BY <2>2 DEF TreeInv, TypeOK, Inode
<1>4. /\ Fine(ns, WalkPaths(p, m), inode)
      /\ DOMAIN nodes \subseteq DOMAIN ns
  BY <1>1, <1>2, <1>3, WalkGood DEF Fine
<1>5. NodeOK(FileNode(NameOf(p), id))
  BY <1>2, FileNodeOK
<1>6. /\ next_inode' = inode + 1
      /\ path_to_inode' = Insert(WalkPaths(p, m), p, inode)
      /\ nodes' = WithChild(placed, WalkInode(p, m), NameOf(p), inode)
  BY DEF InsertFile, m
<1> HIDE DEF inode, ns
<1>7. Fine(placed, Insert(WalkPaths(p, m), p, inode), inode + 1)
  BY <1>1, <1>3, <1>4, <1>5, AddFine
<1> HIDE DEF placed
<1>8. NodesOK(placed)
  BY <1>7 DEF Fine, Good
<1>9. /\ NodesOK(WithChild(placed, WalkInode(p, m), NameOf(p), inode))
      /\ SameMeaning(placed, WithChild(placed, WalkInode(p, m), NameOf(p), inode))
  BY <1>2, <1>3, <1>8, WithChildKeeps
<1> QED
  BY <1>6, <1>7, <1>9, SameMeaningFine

\* mkdir and ensure_trash_dir: one fresh directory.
LEMMA NewDirFine ==
    ASSUME TreeInv, NEW p \in PathSet \ {Root}, NEW parent \in Inode, NewDir(p, parent)
    PROVE  Fine(nodes', path_to_inode', next_inode')
<1> DEFINE placed == Insert(nodes, next_inode, DirNode(parent, NameOf(p), EmptyMap))
<1>1. Fine(nodes, path_to_inode, next_inode)
  BY TreeInvIsFine
<1>2. next_inode \in Nat /\ next_inode \in Inode /\ next_inode <= next_inode
  BY DEF TreeInv, TypeOK, Inode
<1>3. NameOf(p) \in Names
  BY NonRootPath
<1>4. NodeOK(DirNode(parent, NameOf(p), EmptyMap))
  BY <1>3, DirNodeOK
<1>5. Fine(placed, Insert(path_to_inode, p, next_inode), next_inode + 1)
  BY <1>1, <1>2, <1>4, AddFine
<1> HIDE DEF placed
<1>6. NodesOK(placed)
  BY <1>5 DEF Fine, Good
<1>7. /\ NodesOK(WithChild(placed, parent, NameOf(p), next_inode))
      /\ SameMeaning(placed, WithChild(placed, parent, NameOf(p), next_inode))
  BY <1>2, <1>3, <1>6, WithChildKeeps
<1> QED
  BY <1>5, <1>7, SameMeaningFine DEF NewDir, placed

\* mkdir_p: the walk alone.
LEMMA MkdirPFine ==
    ASSUME TreeInv, NEW p \in DirPaths, MkdirP(p)
    PROVE  Fine(nodes', path_to_inode', next_inode')
<1>1. p \in PathSet /\ Len(p) \in 0..Len(p)
  BY Arguments, NonRootPath
<1>2. next_inode <= AfterWalk(p, Len(p))
  BY <1>1, WalkInodes
<1>3. Fine(WalkNodes(p, Len(p)), WalkPaths(p, Len(p)), AfterWalk(p, Len(p)))
  BY <1>1, <1>2, WalkGood DEF Fine
<1> QED
  BY <1>3 DEF MkdirP

\* A path that is known leads to a node, and the root's inode to the root only.
LEMMA KnownPath ==
    ASSUME TreeInv, NEW p \in PathSet, Known(p)
    PROVE  /\ path_to_inode[p] \in DOMAIN nodes
           /\ path_to_inode[p] \in Inode
BY DEF TreeInv, PathsAreExact, TypeOK, Known

\* rename_file: the file's inode changes its path, nobody else's does.
LEMMA RenameFileFine ==
    ASSUME TreeInv, NEW old \in FilePaths, NEW new \in FilePaths, RenameFile(old, new)
    PROVE  Fine(nodes', path_to_inode', next_inode')
<1> DEFINE inode == path_to_inode[old]
           dir == path_to_inode[Parent(new)]
           left == WithoutChildAt(nodes, path_to_inode, old)
           named == [left EXCEPT ![inode].name = NameOf(new)]
           final == WithChild(named, dir, NameOf(new), inode)
           qs == Insert(Remove(path_to_inode, {old}), new, inode)
<1>1. /\ old \in PathSet \ {Root} /\ new \in PathSet \ {Root}
      /\ Parent(new) \in PathSet /\ NameOf(new) \in Names
  BY Arguments, NonRootPath
<1>2. /\ inode \in DOMAIN nodes /\ inode \in Inode
      /\ dir \in Inode
      /\ old \in DOMAIN path_to_inode \ {Root} /\ new \notin DOMAIN path_to_inode
  BY <1>1, KnownPath DEF RenameFile, ParentIsDir, Known
<1>3. nodes' = final /\ path_to_inode' = qs /\ next_inode' = next_inode
  BY DEF RenameFile
<1>4. Fine(nodes, qs, next_inode)
  <2>1. Fine(nodes, path_to_inode, next_inode)
    BY TreeInvIsFine
  <2> QED
    BY <1>1, <1>2, <2>1, MoveGood DEF Fine
<1>5. NodesOK(nodes)
  BY TreeInvIsGood DEF Good
<1> HIDE DEF inode, dir, qs
<1>6. NodesOK(left) /\ SameMeaning(nodes, left) /\ inode \in DOMAIN left
  BY <1>2, <1>5, WithoutChildAtKeeps DEF SameMeaning
<1> HIDE DEF left
<1>7. NodesOK(named) /\ SameMeaning(left, named)
  BY <1>1, <1>2, <1>6, RenamedNode
<1> HIDE DEF named
<1>8. NodesOK(final) /\ SameMeaning(named, final)
  BY <1>1, <1>2, <1>7, WithChildKeeps
<1> HIDE DEF final
<1>9. SameMeaning(nodes, final)
  BY <1>6, <1>7, <1>8, SameMeaningTransitive
<1> QED
  BY <1>3, <1>4, <1>8, <1>9, SameMeaningFine

\* rename_directory, whatever the prefix collects and the loop loses.
LEMMA RenameDirectoryFine ==
    ASSUME TreeInv, NEW old \in DirPaths, NEW new \in DirPaths, RenameDirectory(old, new)
    PROVE  Fine(nodes', path_to_inode', next_inode')
<1> DEFINE inode == path_to_inode[old]
           dir == path_to_inode[Parent(new)]
           left == WithoutChildAt(nodes, path_to_inode', old)
           moved == [left EXCEPT ![inode].name = NameOf(new), ![inode].parent = dir]
           final == WithChild(moved, dir, NameOf(new), inode)
<1>1. /\ old \in PathSet \ {Root} /\ new \in PathSet \ {Root}
      /\ Parent(new) \in PathSet /\ NameOf(new) \in Names
  BY Arguments, NonRootPath
<1>2. inode \in DOMAIN nodes /\ inode \in Inode /\ dir \in Inode /\ IsDirIn(nodes, inode)
  BY <1>1, KnownPath DEF RenameDirectory, ParentIsDir, IsDir
<1>3. nodes' = final /\ next_inode' = next_inode
  BY DEF RenameDirectory
<1>4. PICK lost \in SUBSET (MovedPaths(old) \cap
                              {Substitute(p, old, new) : p \in MovedPaths(old)}) :
        path_to_inode' = RenamedPaths(old, new, lost)
  BY DEF RenameDirectory
<1>5. Fine(nodes, path_to_inode', next_inode)
  BY <1>1, <1>4, RenamedGood, TreeInvIsFine DEF Fine
<1>6. NodesOK(nodes)
  BY TreeInvIsGood DEF Good
<1> HIDE DEF inode, dir
<1>7. NodesOK(left) /\ SameMeaning(nodes, left) /\ inode \in DOMAIN left /\ IsDirIn(left, inode)
  BY <1>2, <1>6, WithoutChildAtKeeps DEF SameMeaning, IsDirIn
<1> HIDE DEF left
<1>8. NodesOK(moved) /\ SameMeaning(left, moved)
  BY <1>1, <1>2, <1>7, RenamedNode
<1> HIDE DEF moved
<1>9. NodesOK(final) /\ SameMeaning(moved, final)
  BY <1>1, <1>2, <1>8, WithChildKeeps
<1> HIDE DEF final
<1>10. SameMeaning(nodes, final)
  BY <1>7, <1>8, <1>9, SameMeaningTransitive
<1> QED
  BY <1>3, <1>5, <1>9, <1>10, SameMeaningFine

\* remove_file, of a directory too: path and node go together.
LEMMA RemoveFileFine ==
    ASSUME TreeInv, NEW p \in FilePaths, RemoveFile(p)
    PROVE  Fine(nodes', path_to_inode', next_inode')
<1> DEFINE left == Remove(nodes, {path_to_inode[p]})
           qs == Remove(path_to_inode, {p})
<1>1. p \in DOMAIN path_to_inode /\ p # Root
  BY Arguments DEF RemoveFile, Known
<1>2. Fine(nodes, path_to_inode, next_inode)
  BY TreeInvIsFine
<1>3. Fine(left, qs, next_inode)
  BY <1>1, <1>2, RemoveGood DEF Fine
<1>4. /\ path_to_inode' = qs /\ next_inode' = next_inode
      /\ nodes' = left \/ nodes' = WithoutChildAt(left, qs, p)
  BY DEF RemoveFile
<1> HIDE DEF left, qs
<1>5. NodesOK(left)
  BY <1>3 DEF Fine, Good
<1>6. Fine(WithoutChildAt(left, qs, p), qs, next_inode)
  BY <1>3, <1>5, WithoutChildAtKeeps, SameMeaningFine
<1> QED
  BY <1>3, <1>4, <1>6

\* remove_directory: path and node of an empty directory go together.
LEMMA RemoveDirectoryFine ==
    ASSUME TreeInv, NEW p \in DirPaths, RemoveDirectory(p)
    PROVE  Fine(nodes', path_to_inode', next_inode')
<1> DEFINE inode == path_to_inode[p]
           left == WithoutChildAt(nodes, path_to_inode, p)
<1>1. p \in DOMAIN path_to_inode /\ p # Root
  BY Arguments DEF RemoveDirectory, Known
<1>2. Fine(nodes, path_to_inode, next_inode) /\ NodesOK(nodes)
  BY TreeInvIsFine DEF Fine, Good
<1>3. Fine(left, path_to_inode, next_inode) /\ SameMeaning(nodes, left)
  BY <1>2, WithoutChildAtKeeps, SameMeaningFine
<1>4. /\ nodes' = Remove(left, {inode})
      /\ path_to_inode' = Remove(path_to_inode, {p})
      /\ next_inode' = next_inode
  BY DEF RemoveDirectory
<1> HIDE DEF left
<1>5. Good(Remove(left, {inode}), Remove(path_to_inode, {p}), next_inode)
  BY <1>1, <1>3, RemoveGood DEF Fine
<1>6. Keeps(nodes, Remove(left, {inode}), next_inode)
  BY <1>3 DEF Keeps, SameMeaning, Remove
<1> QED
  BY <1>2, <1>4, <1>5, <1>6 DEF Fine

\* remove_directory_recursive: the paths that go take their nodes along.
LEMMA RemoveDirectoryRecursiveFine ==
    ASSUME TreeInv, NEW p \in DirPaths, RemoveDirectoryRecursive(p)
    PROVE  Fine(nodes', path_to_inode', next_inode')
<1> DEFINE gone == MovedPaths(p)
           left == Remove(nodes, {path_to_inode[q] : q \in gone})
           qs == Remove(path_to_inode, gone)
<1>1. p \in PathSet \ {Root}
  BY Arguments
<1>2. Root \notin gone
  BY <1>1, RootStartsWithNothing DEF MovedPaths
<1>3. \A i \in {path_to_inode[q] : q \in gone} :
        \E q \in gone \cap DOMAIN path_to_inode : path_to_inode[q] = i
  BY DEF MovedPaths
<1>4. Fine(nodes, path_to_inode, next_inode)
  BY TreeInvIsFine
<1> HIDE DEF gone
<1>5. Fine(left, qs, next_inode)
  BY <1>2, <1>3, <1>4, RemoveGood DEF Fine
<1>6. path_to_inode' = qs /\ next_inode' = next_inode /\ nodes' = WithoutChildAt(left, qs, p)
  BY DEF RemoveDirectoryRecursive, gone
<1> HIDE DEF left, qs
<1>7. NodesOK(left)
  BY <1>5 DEF Fine, Good
<1> QED
  BY <1>5, <1>6, <1>7, WithoutChildAtKeeps, SameMeaningFine

\* The root node, and no other, survives a refresh.
LEMMA ForceRefreshFine ==
    ASSUME TreeInv, ForceRefresh
    PROVE  Fine(nodes', path_to_inode', next_inode')
<1> DEFINE node == nodes[ROOT_INODE]
           new == DirNode(node.parent, node.name, EmptyMap)
<1>1. Good(nodes, path_to_inode, next_inode)
  BY TreeInvIsGood
<1>2. /\ ROOT_INODE \in DOMAIN nodes /\ node.kind = "dir" /\ NodeOK(node)
      /\ path_to_inode[Root] = ROOT_INODE
  BY <1>1 DEF Good, IsDirIn, NodesOK
<1>3. node = DirNode(node.parent, node.name, node.children)
  BY <1>2 DEF NodeOK, FileNode
<1>4. [node EXCEPT !.children = EmptyMap] = new
  BY <1>3 DEF DirNode
<1>5. NodeOK(new) /\ new.kind = "dir"
  <2>1. node.parent \in Inode /\ node.name \in Seq(Fragments)
    BY <1>2 DEF NodeOK
  <2> QED
    BY <2>1 DEF NodeOK, DirNode, EmptyMap
<1>6. /\ DOMAIN nodes' = {ROOT_INODE} /\ nodes'[ROOT_INODE] = new
      /\ DOMAIN path_to_inode' = {Root} /\ path_to_inode'[Root] = ROOT_INODE
      /\ next_inode' = next_inode
  BY <1>2, <1>4 DEF ForceRefresh
<1> HIDE DEF new, node
<1>7. NodesOK(nodes') /\ IsDirIn(nodes', ROOT_INODE)
  BY <1>5, <1>6 DEF NodesOK, IsDirIn
<1>8. \A i \in DOMAIN nodes' : i \in Inode /\ i < next_inode
  BY <1>1, <1>2, <1>6 DEF Good
<1>9. Good(nodes', path_to_inode', next_inode')
  BY <1>1, <1>2, <1>6, <1>7, <1>8, RootIsShort DEF Good
<1>10. Keeps(nodes, nodes', next_inode)
  BY <1>2, <1>5, <1>6 DEF Keeps, node
<1>11. next_inode <= next_inode'
  BY <1>6, TreeInvIsFine DEF Fine
<1> QED
  BY <1>9, <1>10, <1>11 DEF Fine

----------------------------------------------------------------------------
(* The theorems.                                                           *)

\* The tree starts (with_policy) with the root alone, which is a directory.
LEMMA InitTreeInv == Init => TreeInv
<1> SUFFICES ASSUME Init PROVE TreeInv
  OBVIOUS
<1>1. /\ DOMAIN nodes = {ROOT_INODE}
      /\ nodes[ROOT_INODE] = DirNode(ROOT_INODE, <<>>, EmptyMap)
      /\ DOMAIN path_to_inode = {Root} /\ path_to_inode[Root] = ROOT_INODE
      /\ next_inode = 2 /\ ROOT_INODE = 1
  BY DEF Init, ROOT_INODE
<1>2. NodeOK(DirNode(ROOT_INODE, <<>>, EmptyMap))
  <2>1. ROOT_INODE \in Inode /\ <<>> \in Seq(Fragments)
    BY DEF ROOT_INODE, Inode
  <2> QED
    BY <2>1 DEF NodeOK, DirNode, EmptyMap
<1>3. IsDirIn(nodes, ROOT_INODE) /\ NodesOK(nodes)
  BY <1>1, <1>2 DEF IsDirIn, NodesOK, DirNode
<1> QED
  BY <1>1, <1>3, RootIsShort, TreeInvIsGood DEF Good, Inode

\* Every operation keeps the invariant and what each inode means.
LEMMA StepFine ==
    ASSUME TreeInv, [Next]_vars
    PROVE  Fine(nodes', path_to_inode', next_inode')
<1>1. ASSUME NEW p \in FilePaths, NEW id \in FileIds, InsertFile(p, id)
      PROVE  Fine(nodes', path_to_inode', next_inode')
  BY <1>1, InsertFileFine
<1>2. ASSUME NEW p \in FilePaths, RemoveFile(p)
      PROVE  Fine(nodes', path_to_inode', next_inode')
  BY <1>2, RemoveFileFine
<1>3. ASSUME NEW p \in DirPaths, Mkdir(p)
      PROVE  Fine(nodes', path_to_inode', next_inode')
  <2>1. path_to_inode[Parent(p)] \in Inode
    BY <1>3, Arguments, KnownPath DEF Mkdir, ParentIsDir
  <2>2. NewDir(p, path_to_inode[Parent(p)])
    BY <1>3 DEF Mkdir
  <2> QED
    BY <2>1, <2>2, Arguments, NewDirFine
<1>4. ASSUME EnsureTrashDir
      PROVE  Fine(nodes', path_to_inode', next_inode')
  <2>1. ROOT_INODE \in Inode
    BY DEF ROOT_INODE, Inode
  <2> QED
    BY <1>4, <2>1, Arguments, NewDirFine DEF EnsureTrashDir
<1>5. ASSUME NEW p \in DirPaths, MkdirP(p)
      PROVE  Fine(nodes', path_to_inode', next_inode')
  BY <1>5, MkdirPFine
<1>6. ASSUME NEW old \in FilePaths, NEW new \in FilePaths, RenameFile(old, new)
      PROVE  Fine(nodes', path_to_inode', next_inode')
  BY <1>6, RenameFileFine
<1>7. ASSUME NEW old \in DirPaths, NEW new \in DirPaths, RenameDirectory(old, new)
      PROVE  Fine(nodes', path_to_inode', next_inode')
  BY <1>7, RenameDirectoryFine
<1>8. ASSUME NEW p \in DirPaths, RemoveDirectory(p)
      PROVE  Fine(nodes', path_to_inode', next_inode')
  BY <1>8, RemoveDirectoryFine
<1>9. ASSUME NEW p \in DirPaths, RemoveDirectoryRecursive(p)
      PROVE  Fine(nodes', path_to_inode', next_inode')
  BY <1>9, RemoveDirectoryRecursiveFine
<1>10. CASE ForceRefresh
  BY <1>10, ForceRefreshFine
<1>11. CASE UNCHANGED vars
  BY <1>11, TreeInvIsFine DEF vars
<1> QED
  BY <1>1, <1>2, <1>3, <1>4, <1>5, <1>6, <1>7, <1>8, <1>9, <1>10, <1>11 DEF Next

\* The three state invariants hold together, in every reachable state, for
\* any names, paths and ids: they are the inductive invariant of the tree.
THEOREM Invariance == Spec => []TreeInv
<1>1. TreeInv /\ [Next]_vars => TreeInv'
  BY StepFine, TreeInvIsGood DEF Fine, Good, TreeInv, TypeOK, PathsAreExact, RootIsFixed,
     NodesOK, Known, IsDir, IsDirIn, Inode
<1> QED
  BY InitTreeInv, <1>1, PTL DEF Spec

\* Inodes are positive, below the counter, and hold well-formed nodes.
THEOREM TypeCorrect == Spec => []TypeOK
<1>1. TreeInv => TypeOK
  BY DEF TreeInv
<1> QED
  BY <1>1, Invariance, PTL

\* No sequence of operations, whatever the hash map's order and whichever
\* siblings share a prefix, leaves a path without a node or two paths with
\* one: rename_directory loses entries, it never crosses them.
THEOREM PathsStayExact == Spec => []PathsAreExact
<1>1. TreeInv => PathsAreExact
  BY DEF TreeInv
<1> QED
  BY <1>1, Invariance, PTL

\* The root is never moved, removed or replaced.
THEOREM RootStays == Spec => []RootIsFixed
<1>1. TreeInv => RootIsFixed
  BY DEF TreeInv
<1> QED
  BY <1>1, Invariance, PTL

\* The kernel may cache inodes with generation 0: alloc_inode never gives a
\* number out twice, and no operation turns a node into another.
THEOREM InodesAreNotReused == Spec => InodeKeepsMeaning
<1>1. TreeInv /\ [Next]_vars =>
        [/\ \A i \in DOMAIN nodes \cap DOMAIN nodes' :
              /\ nodes'[i].kind = nodes[i].kind
              /\ nodes[i].kind = "file" => nodes'[i].file_id = nodes[i].file_id
         /\ \A i \in DOMAIN nodes' \ DOMAIN nodes : i >= next_inode
         /\ next_inode' >= next_inode]_vars
  BY StepFine DEF Fine, Keeps
<1> QED
  BY <1>1, Invariance, PTL DEF Spec, InodeKeepsMeaning

----------------------------------------------------------------------------
(* The paths of a tree, from above and from below.                         *)

\* A path is as long as it has names.
LEMMA PathIs ==
    ASSUME NEW p \in PathSet
    PROVE  Len(p) \in Nat /\ \A i \in 1..Len(p) : p[i] \in Names
BY LenProperties, ElementOfSeq DEF PathSet

\* Two paths with the same names are the same.
LEMMA SamePath ==
    ASSUME NEW p \in PathSet, NEW q \in PathSet, Len(p) = Len(q),
           \A i \in 1..Len(p) : p[i] = q[i]
    PROVE  p = q
BY SeqEqual DEF PathSet

\* An ancestor has the first names of a path.
LEMMA UptoIs ==
    ASSUME NEW p \in PathSet, NEW k \in 0..Len(p)
    PROVE  /\ Upto(p, k) \in PathSet /\ Len(Upto(p, k)) = k
           /\ \A i \in 1..k : Upto(p, k)[i] = p[i]
           /\ k = Len(p) => Upto(p, k) = p
           /\ k = 0 => Upto(p, k) = Root
<1>1. \A i \in 1..k : p[i] \in Names
  BY PathIs
<1>2. k \in Int /\ 1 \in Int /\ k - 1 + 1 = k
  BY PathIs
<1>3. /\ Upto(p, k) \in PathSet /\ Len(Upto(p, k)) = k
      /\ \A i \in 1..k : Upto(p, k)[i] = p[i]
  BY <1>1, <1>2, SubSeqProperties DEF Upto, PathSet
<1>4. k = Len(p) => Upto(p, k) = p
  BY <1>3, SamePath
<1>5. k = 0 => Upto(p, k) = Root
  BY <1>3, RootIsShort, SamePath
<1> QED
  BY <1>3, <1>4, <1>5

\* A path is its parent and its name.
LEMMA ParentIs ==
    ASSUME NEW p \in PathSet \ {Root}
    PROVE  /\ Len(p) \in Nat \ {0} /\ Parent(p) = Upto(p, Len(p) - 1)
           /\ Parent(p) \in PathSet /\ Len(Parent(p)) = Len(p) - 1
           /\ \A i \in 1..Len(p) - 1 : Parent(p)[i] = p[i]
           /\ NameOf(p) = p[Len(p)] /\ NameOf(p) \in Names
           /\ \A k \in 0..Len(p) - 1 : Upto(Parent(p), k) = Upto(p, k)
           /\ Append(Parent(p), NameOf(p)) = p
<1>1. Len(p) \in Nat \ {0} /\ NameOf(p) \in Names /\ Parent(p) = Upto(p, Len(p) - 1)
  BY NonRootPath DEF Parent, Upto
<1>2. /\ Parent(p) \in PathSet /\ Len(Parent(p)) = Len(p) - 1
      /\ \A i \in 1..Len(p) - 1 : Parent(p)[i] = p[i]
  <2>1. Len(p) - 1 \in 0..Len(p)
    BY <1>1
  <2> QED
    BY <1>1, <2>1, UptoIs
<1>3. ASSUME NEW k \in 0..Len(p) - 1
      PROVE  Upto(Parent(p), k) = Upto(p, k)
  <2>1. k \in 0..Len(p) /\ k \in 0..Len(Parent(p)) /\ k \in Nat
    BY <1>1, <1>2
  <2>2. /\ Upto(p, k) \in PathSet /\ Len(Upto(p, k)) = k
        /\ \A i \in 1..k : Upto(p, k)[i] = p[i]
    BY <2>1, UptoIs
  <2>3. /\ Upto(Parent(p), k) \in PathSet /\ Len(Upto(Parent(p), k)) = k
        /\ \A i \in 1..k : Upto(Parent(p), k)[i] = Parent(p)[i]
    BY <1>2, <2>1, UptoIs
  <2>4. \A i \in 1..k : i \in 1..Len(p) - 1
    BY <1>1, <2>1
  <2> QED
    BY <1>2, <2>2, <2>3, <2>4, SamePath
<1>4. Append(Parent(p), NameOf(p)) = p
  <2> DEFINE a == Append(Parent(p), NameOf(p))
  <2>1. /\ a \in PathSet /\ Len(a) = Len(p)
        /\ \A i \in 1..Len(p) - 1 : a[i] = p[i]
        /\ a[Len(p)] = p[Len(p)]
    <3>1. /\ a \in Seq(Names) /\ Len(a) = Len(Parent(p)) + 1
          /\ \A i \in 1..Len(Parent(p)) : a[i] = Parent(p)[i]
          /\ a[Len(Parent(p)) + 1] = NameOf(p)
      BY <1>1, <1>2, AppendProperties DEF PathSet
    <3>2. Len(p) - 1 + 1 = Len(p)
      BY <1>1
    <3> QED
      BY <1>2, <3>1, <3>2 DEF PathSet, NameOf
  <2> HIDE DEF a
  <2>2. \A i \in 1..Len(a) : i \in 1..Len(p) - 1 \/ i = Len(p)
    BY <1>1, <2>1
  <2>3. a = p
    BY <2>1, <2>2, SamePath
  <2> QED
    BY <2>3 DEF a
<1> QED
  BY <1>1, <1>2, <1>3, <1>4 DEF NameOf

\* What is in a directory has it as its parent.
LEMMA ChildIs ==
    ASSUME NEW p \in PathSet, NEW n \in Names
    PROVE  /\ Append(p, n) \in PathSet \ {Root} /\ Len(Append(p, n)) = Len(p) + 1
           /\ \A i \in 1..Len(p) : Append(p, n)[i] = p[i]
           /\ Append(p, n)[Len(p) + 1] = n
           /\ Parent(Append(p, n)) = p /\ NameOf(Append(p, n)) = n
<1> DEFINE a == Append(p, n)
<1>1. /\ a \in PathSet \ {Root} /\ Len(a) = Len(p) + 1
      /\ \A i \in 1..Len(p) : a[i] = p[i]
      /\ a[Len(p) + 1] = n
  BY AppendProperties DEF PathSet, Root
<1> HIDE DEF a
<1>2. /\ Parent(a) \in PathSet /\ Len(Parent(a)) = Len(p) /\ Len(p) \in Nat
      /\ \A i \in 1..Len(p) : Parent(a)[i] = p[i]
  <2>1. Len(p) \in Nat /\ Len(a) - 1 = Len(p)
    BY <1>1, PathIs
  <2> QED
    BY <1>1, <2>1, ParentIs
<1>3. Parent(a) = p
  BY <1>2, SamePath
<1>4. NameOf(a) = n
  BY <1>1 DEF NameOf
<1> QED
  BY <1>1, <1>3, <1>4 DEF a

\* What lies below a path begins with its names.
LEMMA UnderIs ==
    ASSUME NEW p \in PathSet, NEW q \in PathSet
    PROVE  Under(p, q) <=> Len(q) <= Len(p) /\ \A i \in 1..Len(q) : p[i] = q[i]
<1> SUFFICES ASSUME Len(q) <= Len(p)
             PROVE  Upto(p, Len(q)) = q <=> \A i \in 1..Len(q) : p[i] = q[i]
  BY DEF Under
<1>1. /\ Upto(p, Len(q)) \in PathSet /\ Len(Upto(p, Len(q))) = Len(q)
      /\ \A i \in 1..Len(q) : Upto(p, Len(q))[i] = p[i]
  <2>1. Len(q) \in 0..Len(p)
    BY PathIs
  <2> QED
    BY <2>1, UptoIs
<1> QED
  BY <1>1, SamePath

LEMMA UnderItself ==
    ASSUME NEW p \in PathSet
    PROVE  Under(p, p) /\ Under(p, Root)
BY UnderIs, PathIs, RootIsShort

LEMMA UnderUnder ==
    ASSUME NEW p \in PathSet, NEW q \in PathSet, NEW r \in PathSet, Under(p, q), Under(q, r)
    PROVE  Under(p, r)
<1>1. /\ Len(q) <= Len(p) /\ \A i \in 1..Len(q) : p[i] = q[i]
      /\ Len(r) <= Len(q) /\ \A i \in 1..Len(r) : q[i] = r[i]
  BY UnderIs
<1>2. Len(p) \in Nat /\ Len(q) \in Nat /\ Len(r) \in Nat
  BY PathIs
<1>3. Len(r) <= Len(p) /\ \A i \in 1..Len(r) : i \in 1..Len(q)
  BY <1>1, <1>2
<1>4. \A i \in 1..Len(r) : p[i] = r[i]
  BY <1>1, <1>3
<1> QED
  BY <1>3, <1>4, UnderIs

\* Below a path is the path, and what has its parent there.
LEMMA UnderParent ==
    ASSUME NEW p \in PathSet, NEW q \in PathSet
    PROVE  /\ p # q /\ Under(p, q) => p # Root /\ Under(Parent(p), q)
           /\ p # Root /\ Under(Parent(p), q) => Under(p, q) /\ p # q
<1>1. Len(p) \in Nat /\ Len(q) \in Nat
  BY PathIs
<1>2. ASSUME p # q, Under(p, q)
      PROVE  p # Root /\ Under(Parent(p), q)
  <2>1. Len(q) <= Len(p) /\ \A i \in 1..Len(q) : p[i] = q[i]
    BY <1>2, UnderIs
  <2>2. Len(q) # Len(p)
    BY <1>2, <2>1, SamePath
  <2>3. p # Root
    BY <1>1, <2>1, <2>2, RootIsShort
  <2>4. /\ Len(Parent(p)) = Len(p) - 1 /\ Parent(p) \in PathSet
        /\ \A i \in 1..Len(p) - 1 : Parent(p)[i] = p[i]
    BY <2>3, ParentIs
  <2>5. Len(q) <= Len(p) - 1 /\ \A i \in 1..Len(q) : i \in 1..Len(p) - 1
    BY <1>1, <2>1, <2>2
  <2>6. \A i \in 1..Len(q) : Parent(p)[i] = q[i]
    BY <2>1, <2>4, <2>5
  <2> QED
    BY <2>3, <2>4, <2>5, <2>6, UnderIs
<1>3. ASSUME p # Root, Under(Parent(p), q)
      PROVE  Under(p, q) /\ p # q
  <2>1. /\ Len(Parent(p)) = Len(p) - 1 /\ Parent(p) \in PathSet
        /\ \A i \in 1..Len(p) - 1 : Parent(p)[i] = p[i]
    BY <1>3, ParentIs
  <2>2. Len(q) <= Len(p) - 1 /\ \A i \in 1..Len(q) : Parent(p)[i] = q[i]
    BY <1>3, <2>1, UnderIs
  <2>3. Len(q) <= Len(p) /\ Len(q) # Len(p) /\ \A i \in 1..Len(q) : i \in 1..Len(p) - 1
    BY <1>1, <2>2
  <2>4. \A i \in 1..Len(q) : p[i] = q[i]
    BY <2>1, <2>2, <2>3
  <2> QED
    BY <2>3, <2>4, UnderIs
<1> QED
  BY <1>2, <1>3

\* The ancestors of a path are those it lies below.
LEMMA UnderUpto ==
    ASSUME NEW p \in PathSet, NEW k \in 0..Len(p)
    PROVE  /\ Under(p, Upto(p, k))
           /\ \A q \in PathSet : Under(Upto(p, k), q) => Under(p, q)
           /\ \A q \in PathSet : Under(p, q) /\ Len(q) <= k => Under(Upto(p, k), q)
<1>1. /\ Upto(p, k) \in PathSet /\ Len(Upto(p, k)) = k /\ Len(p) \in Nat
      /\ \A i \in 1..k : Upto(p, k)[i] = p[i]
  BY UptoIs, PathIs
<1>2. Under(p, Upto(p, k))
  BY <1>1, UnderIs
<1>3. ASSUME NEW q \in PathSet, Under(p, q), Len(q) <= k
      PROVE  Under(Upto(p, k), q)
  <2>1. \A i \in 1..Len(q) : p[i] = q[i] /\ i \in 1..k
    BY <1>1, <1>3, UnderIs, PathIs
  <2> QED
    BY <1>1, <1>3, <2>1, UnderIs
<1> QED
  BY <1>1, <1>2, <1>3, UnderUnder

\* Where the move of old to new puts what lies below old.
Rebase(q, old, new) == Abstract!Rebase(q, old, new)

\* r has the names of new, and then those that q has below old.
Rebased(r, q, old, new) ==
    /\ r \in PathSet /\ Len(r) = Len(new) + (Len(q) - Len(old))
    /\ Len(new) \in Nat /\ Len(old) \in Nat /\ Len(q) \in Nat /\ Len(old) <= Len(q)
    /\ \A i \in 1..Len(new) : r[i] = new[i]
    /\ \A i \in 1..Len(q) - Len(old) : r[Len(new) + i] = q[Len(old) + i]
    /\ Under(r, new)

LEMMA RebaseIs ==
    ASSUME NEW old \in PathSet, NEW new \in PathSet, NEW q \in PathSet, Under(q, old)
    PROVE  Rebased(Rebase(q, old, new), q, old, new)
<1> DEFINE tail == SubSeq(q, Len(old) + 1, Len(q))
           r == Rebase(q, old, new)
<1>1. /\ Len(new) \in Nat /\ Len(old) \in Nat /\ Len(q) \in Nat /\ Len(old) <= Len(q)
      /\ \A i \in 1..Len(q) : q[i] \in Names
  BY PathIs, UnderIs
<1>2. /\ tail \in PathSet /\ Len(tail) = Len(q) - Len(old)
      /\ \A i \in 1..Len(q) - Len(old) : tail[i] = q[Len(old) + i]
  <2>1. \A i \in Len(old) + 1 .. Len(q) : q[i] \in Names
    BY <1>1
  <2>2. Len(old) + 1 \in Int /\ Len(q) \in Int
    BY <1>1
  <2>3. /\ tail \in PathSet
        /\ Len(tail) = IF Len(old) + 1 <= Len(q) THEN Len(q) - (Len(old) + 1) + 1 ELSE 0
        /\ \A i \in 1 .. Len(q) - (Len(old) + 1) + 1 : tail[i] = q[Len(old) + 1 + i - 1]
    BY <2>1, <2>2, SubSeqProperties DEF PathSet
  <2>4. Len(tail) = Len(q) - Len(old)
    BY <1>1, <2>3
  <2>5. ASSUME NEW i \in 1..Len(q) - Len(old)
        PROVE  tail[i] = q[Len(old) + i]
    <3>1. i \in 1 .. Len(q) - (Len(old) + 1) + 1 /\ Len(old) + 1 + i - 1 = Len(old) + i
      BY <1>1
    <3> QED
      BY <2>3, <3>1
  <2> QED
    BY <2>3, <2>4, <2>5
<1>3. r = new \o tail
  BY DEF Rebase, Abstract!Rebase
<1> HIDE DEF tail, r
<1>4. /\ r \in PathSet /\ Len(r) = Len(new) + Len(tail)
      /\ \A i \in 1 .. Len(new) + Len(tail) :
           r[i] = IF i <= Len(new) THEN new[i] ELSE tail[i - Len(new)]
  BY <1>2, <1>3, ConcatProperties DEF PathSet
<1>5. \A i \in 1..Len(new) : r[i] = new[i]
  BY <1>1, <1>2, <1>4
<1>6. ASSUME NEW i \in 1..Len(q) - Len(old)
      PROVE  r[Len(new) + i] = q[Len(old) + i]
  <2>1. /\ Len(new) + i \in 1..Len(new) + Len(tail) /\ ~(Len(new) + i <= Len(new))
        /\ Len(new) + i - Len(new) = i
    BY <1>1, <1>2
  <2> QED
    BY <1>2, <1>4, <2>1
<1>7. Under(r, new)
  <2>1. Len(new) <= Len(r)
    BY <1>1, <1>2, <1>4
  <2> QED
    BY <1>4, <1>5, <2>1, UnderIs
<1> QED
  BY <1>1, <1>2, <1>4, <1>5, <1>6, <1>7 DEF r, Rebased

\* Back again.
LEMMA RebaseBack ==
    ASSUME NEW old \in PathSet, NEW new \in PathSet, NEW q \in PathSet, Under(q, old)
    PROVE  Rebase(Rebase(q, old, new), new, old) = q
<1> SUFFICES ASSUME NEW r, r = Rebase(q, old, new), NEW s, s = Rebase(r, new, old)
             PROVE  s = q
  OBVIOUS
<1>1. /\ r \in PathSet /\ Len(r) = Len(new) + (Len(q) - Len(old)) /\ Under(r, new)
      /\ Len(new) \in Nat /\ Len(old) \in Nat /\ Len(q) \in Nat /\ Len(old) <= Len(q)
      /\ \A i \in 1..Len(q) - Len(old) : r[Len(new) + i] = q[Len(old) + i]
  <2>1. Rebased(r, q, old, new)
    BY RebaseIs
  <2> QED
    BY <2>1 DEF Rebased
<1>2. /\ s \in PathSet /\ Len(s) = Len(old) + (Len(r) - Len(new))
      /\ \A i \in 1..Len(old) : s[i] = old[i]
      /\ \A i \in 1..Len(r) - Len(new) : s[Len(old) + i] = r[Len(new) + i]
  <2>1. Rebased(s, r, new, old)
    BY <1>1, RebaseIs
  <2> QED
    BY <2>1 DEF Rebased
<1>3. Len(s) = Len(q) /\ Len(r) - Len(new) = Len(q) - Len(old)
  BY <1>1, <1>2
<1>4. ASSUME NEW i \in 1..Len(q)
      PROVE  s[i] = q[i]
  <2>1. CASE i <= Len(old)
    <3>1. i \in 1..Len(old)
      BY <1>1, <2>1
    <3> QED
      BY <1>2, <3>1, UnderIs
  <2>2. CASE ~(i <= Len(old))
    <3>1. i - Len(old) \in 1..Len(q) - Len(old) /\ Len(old) + (i - Len(old)) = i
      BY <1>1, <2>2
    <3>2. s[Len(old) + (i - Len(old))] = q[Len(old) + (i - Len(old))]
      BY <1>1, <1>2, <1>3, <3>1
    <3> QED
      BY <3>1, <3>2
  <2> QED
    BY <2>1, <2>2
<1> QED
  BY <1>2, <1>3, <1>4, SamePath

\* old itself becomes new, and a child a child of what its parent becomes.
LEMMA RebaseChild ==
    ASSUME NEW old \in PathSet, NEW new \in PathSet, NEW q \in PathSet, Under(q, old)
    PROVE  /\ Rebase(old, old, new) = new
           /\ q # old => /\ q # Root /\ Rebase(q, old, new) # Root /\ Rebase(q, old, new) # new
                         /\ Under(Parent(q), old)
                         /\ Parent(Rebase(q, old, new)) = Rebase(Parent(q), old, new)
                         /\ NameOf(Rebase(q, old, new)) = NameOf(q)
<1>1. Under(old, old) /\ Under(new, new)
  BY UnderItself
<1>2. Rebase(old, old, new) = new
  <2> SUFFICES ASSUME NEW r, r = Rebase(old, old, new)
               PROVE  r = new
    OBVIOUS
  <2>1. /\ r \in PathSet /\ Len(r) = Len(new) + (Len(old) - Len(old))
        /\ Len(new) \in Nat /\ Len(old) \in Nat /\ \A i \in 1..Len(new) : r[i] = new[i]
    <3>1. Rebased(r, old, old, new)
      BY <1>1, RebaseIs
    <3> QED
      BY <3>1 DEF Rebased
  <2>2. Len(r) = Len(new)
    BY <2>1
  <2> QED
    BY <2>1, <2>2, SamePath
<1>3. ASSUME q # old
      PROVE  /\ q # Root /\ Rebase(q, old, new) # Root /\ Rebase(q, old, new) # new
             /\ Under(Parent(q), old)
             /\ Parent(Rebase(q, old, new)) = Rebase(Parent(q), old, new)
             /\ NameOf(Rebase(q, old, new)) = NameOf(q)
  <2> SUFFICES ASSUME NEW r, r = Rebase(q, old, new), NEW s, s = Rebase(Parent(q), old, new)
               PROVE  /\ q # Root /\ r # Root /\ r # new /\ Under(Parent(q), old)
                      /\ Parent(r) = s /\ NameOf(r) = NameOf(q)
    OBVIOUS
  <2>1. /\ r \in PathSet /\ Len(r) = Len(new) + (Len(q) - Len(old)) /\ Under(r, new)
        /\ Len(new) \in Nat /\ Len(old) \in Nat /\ Len(q) \in Nat /\ Len(old) <= Len(q)
        /\ \A i \in 1..Len(new) : r[i] = new[i]
        /\ \A i \in 1..Len(q) - Len(old) : r[Len(new) + i] = q[Len(old) + i]
    <3>1. Rebased(r, q, old, new)
      BY RebaseIs
    <3> QED
      BY <3>1 DEF Rebased
  <2>2. q # Root /\ Under(Parent(q), old)
    BY <1>3, UnderParent
  <2>3. /\ Parent(q) \in PathSet /\ Len(Parent(q)) = Len(q) - 1
        /\ \A i \in 1..Len(q) - 1 : Parent(q)[i] = q[i]
    BY <2>2, ParentIs
  <2>4. /\ s \in PathSet /\ Len(s) = Len(new) + (Len(q) - 1 - Len(old)) /\ Len(old) <= Len(q) - 1
        /\ \A i \in 1..Len(new) : s[i] = new[i]
        /\ \A i \in 1..Len(q) - 1 - Len(old) : s[Len(new) + i] = Parent(q)[Len(old) + i]
    <3>1. Rebased(s, Parent(q), old, new)
      BY <2>2, <2>3, RebaseIs
    <3> QED
      BY <2>3, <3>1 DEF Rebased
  <2>5. Len(r) > Len(new) /\ Len(s) = Len(r) - 1
    BY <2>1, <2>4
  <2>6. r # Root /\ r # new
    BY <2>1, <2>5, RootIsShort
  <2>7. /\ Parent(r) \in PathSet /\ Len(Parent(r)) = Len(r) - 1
        /\ \A i \in 1..Len(r) - 1 : Parent(r)[i] = r[i]
    BY <2>1, <2>6, ParentIs
  <2>8. ASSUME NEW i \in 1..Len(r) - 1
        PROVE  Parent(r)[i] = s[i]
    <3>1. CASE i <= Len(new)
      <4>1. i \in 1..Len(new)
        BY <2>1, <3>1
      <4> QED
        BY <2>1, <2>4, <2>7, <4>1
    <3>2. CASE ~(i <= Len(new))
      <4> DEFINE j == i - Len(new)
      <4>1. /\ j \in 1..Len(q) - 1 - Len(old) /\ j \in 1..Len(q) - Len(old) /\ Len(new) + j = i
            /\ Len(old) + j \in 1..Len(q) - 1
        BY <2>1, <2>4, <3>2
      <4> HIDE DEF j
      <4>2. s[i] = q[Len(old) + j] /\ r[i] = q[Len(old) + j]
        BY <2>1, <2>3, <2>4, <4>1
      <4> QED
        BY <2>7, <4>2
    <3> QED
      BY <3>1, <3>2
  <2>9. Parent(r) = s
    BY <2>4, <2>5, <2>7, <2>8, SamePath
  <2>10. NameOf(r) = NameOf(q)
    <3> DEFINE j == Len(q) - Len(old)
    <3>1. j \in 1..Len(q) - Len(old) /\ Len(new) + j = Len(r) /\ Len(old) + j = Len(q)
      BY <2>1, <2>4
    <3> HIDE DEF j
    <3>2. r[Len(r)] = q[Len(q)]
      BY <2>1, <3>1
    <3> QED
      BY <3>2 DEF NameOf
  <2> QED
    BY <2>2, <2>6, <2>9, <2>10
<1> QED
  BY <1>2, <1>3

\* The ancestors of what was moved are the ancestors of new, and the moved.
LEMMA RebaseUpto ==
    ASSUME NEW old \in PathSet, NEW new \in PathSet, NEW q \in PathSet, Under(q, old),
           NEW k \in 0..Len(Rebase(q, old, new))
    PROVE  \/ k \in 0..Len(new) /\ Upto(Rebase(q, old, new), k) = Upto(new, k)
           \/ \E j \in 0..Len(q) : /\ Under(Upto(q, j), old)
                                   /\ Upto(Rebase(q, old, new), k) = Rebase(Upto(q, j), old, new)
<1> SUFFICES ASSUME NEW r, r = Rebase(q, old, new), k \in 0..Len(r)
             PROVE  \/ k \in 0..Len(new) /\ Upto(r, k) = Upto(new, k)
                    \/ \E j \in 0..Len(q) : /\ Under(Upto(q, j), old)
                                            /\ Upto(r, k) = Rebase(Upto(q, j), old, new)
  OBVIOUS
<1>1. /\ r \in PathSet /\ Len(r) = Len(new) + (Len(q) - Len(old))
      /\ Len(new) \in Nat /\ Len(old) \in Nat /\ Len(q) \in Nat /\ Len(old) <= Len(q)
      /\ \A i \in 1..Len(new) : r[i] = new[i]
      /\ \A i \in 1..Len(q) - Len(old) : r[Len(new) + i] = q[Len(old) + i]
  <2>1. Rebased(r, q, old, new)
    BY RebaseIs
  <2> QED
    BY <2>1 DEF Rebased
<1>2. /\ Upto(r, k) \in PathSet /\ Len(Upto(r, k)) = k
      /\ \A i \in 1..k : Upto(r, k)[i] = r[i]
  BY <1>1, UptoIs
<1>3. CASE k <= Len(new)
  <2>1. k \in 0..Len(new) /\ \A i \in 1..k : i \in 1..Len(new)
    BY <1>1, <1>3
  <2>2. /\ Upto(new, k) \in PathSet /\ Len(Upto(new, k)) = k
        /\ \A i \in 1..k : Upto(new, k)[i] = new[i]
    BY <2>1, UptoIs
  <2>3. Upto(r, k) = Upto(new, k)
    BY <1>1, <1>2, <2>1, <2>2, SamePath
  <2> QED
    BY <2>1, <2>3
<1>4. CASE ~(k <= Len(new))
  <2> DEFINE j == Len(old) + (k - Len(new))
  <2>1. j \in 0..Len(q) /\ Len(old) <= j /\ k \in Nat /\ j - Len(old) = k - Len(new)
    BY <1>1, <1>4
  <2> HIDE DEF j
  <2>2. /\ Upto(q, j) \in PathSet /\ Len(Upto(q, j)) = j /\ Under(Upto(q, j), old)
        /\ \A i \in 1..j : Upto(q, j)[i] = q[i]
    BY <2>1, UptoIs, UnderUpto
  <2> SUFFICES ASSUME NEW s, s = Rebase(Upto(q, j), old, new)
               PROVE  Upto(r, k) = s
    BY <2>1, <2>2
  <2>3. /\ s \in PathSet /\ Len(s) = Len(new) + (j - Len(old))
        /\ \A i \in 1..Len(new) : s[i] = new[i]
        /\ \A i \in 1..j - Len(old) : s[Len(new) + i] = Upto(q, j)[Len(old) + i]
    <3>1. Rebased(s, Upto(q, j), old, new)
      BY <2>2, RebaseIs
    <3> QED
      BY <2>2, <3>1 DEF Rebased
  <2>4. Len(s) = k
    BY <1>1, <2>1, <2>3
  <2>5. ASSUME NEW i \in 1..k
        PROVE  r[i] = s[i]
    <3>1. CASE i <= Len(new)
      <4>1. i \in 1..Len(new)
        BY <1>1, <3>1
      <4> QED
        BY <1>1, <2>3, <4>1
    <3>2. CASE ~(i <= Len(new))
      <4> DEFINE h == i - Len(new)
      <4>1. /\ h \in 1..j - Len(old) /\ h \in 1..Len(q) - Len(old) /\ Len(new) + h = i
            /\ Len(old) + h \in 1..j
        BY <1>1, <2>1, <3>2
      <4> HIDE DEF h
      <4> QED
        BY <1>1, <2>2, <2>3, <4>1
    <3> QED
      BY <3>1, <3>2
  <2> QED
    BY <1>2, <2>3, <2>4, <2>5, SamePath
<1> QED
  BY <1>3, <1>4

----------------------------------------------------------------------------
(* Names none of which is a string prefix of another.                      *)

DirNamed(p, DN) == \A i \in 1..Len(p) : p[i] \in DN

FileNamed(p, DN, FN) ==
    p # Root /\ (\A i \in 1..Len(p) - 1 : p[i] \in DN) /\ p[Len(p)] \in FN

\* Directories have names of DN, files of FN, and what begins with the name of
\* a directory is that name.
PlainNames(DN, FN) ==
    /\ DN \subseteq Names /\ FN \subseteq Names /\ DN \cap FN = {} /\ TrashName \in DN
    /\ \A p \in DirPaths : DirNamed(p, DN)
    /\ \A p \in FilePaths : FileNamed(p, DN, FN)
    /\ \A d \in DN, n \in DN \cup FN : NameStartsWith(n, d) => n = d

\* The string prefix that the tree looks for is then the ancestor it means.
LEMMA PrefixIsAncestor ==
    ASSUME NEW DN, NEW FN, PlainNames(DN, FN), NEW old \in PathSet \ {Root}, DirNamed(old, DN),
           NEW p \in PathSet, DirNamed(p, DN) \/ FileNamed(p, DN, FN)
    PROVE  StartsWith(p, old) <=> Under(p, old)
<1> DEFINE l == Len(old)
<1>1. l \in Nat \ {0} /\ Len(p) \in Nat /\ NameOf(old) = old[l] /\ old[l] \in DN
  BY ParentIs, PathIs DEF DirNamed
<1>2. /\ Parent(old) \in PathSet /\ Len(Parent(old)) = l - 1
      /\ \A i \in 1..l - 1 : Parent(old)[i] = old[i]
  BY ParentIs
<1> HIDE DEF l
<1>3. ASSUME l <= Len(p)
      PROVE  /\ p[l] \in DN \cup FN
             /\ Upto(p, l - 1) \in PathSet /\ Len(Upto(p, l - 1)) = l - 1
             /\ \A i \in 1..l - 1 : Upto(p, l - 1)[i] = p[i]
  <2>1. l \in 1..Len(p) /\ l - 1 \in 0..Len(p) /\ (l \in 1..Len(p) - 1 \/ l = Len(p))
    BY <1>1, <1>3
  <2> QED
    BY <2>1, UptoIs DEF DirNamed, FileNamed
<1>4. ASSUME StartsWith(p, old)
      PROVE  Under(p, old)
  <2>1. l <= Len(p) /\ Parent(old) = Upto(p, l - 1) /\ NameStartsWith(p[l], NameOf(old))
    BY <1>4 DEF StartsWith, l
  <2>2. p[l] = old[l]
    BY <1>1, <1>3, <2>1 DEF PlainNames
  <2>3. ASSUME NEW i \in 1..l
        PROVE  p[i] = old[i]
    <3>1. i \in 1..l - 1 \/ i = l
      BY <1>1
    <3> QED
      BY <1>2, <1>3, <2>1, <2>2, <3>1
  <2> QED
    BY <2>1, <2>3, UnderIs DEF l
<1>5. ASSUME Under(p, old)
      PROVE  StartsWith(p, old)
  <2>1. l <= Len(p) /\ \A i \in 1..l : p[i] = old[i]
    BY <1>5, UnderIs DEF l
  <2>2. \A i \in 1..l - 1 : i \in 1..l
    BY <1>1
  <2>3. l \in 1..l
    BY <1>1
  <2>4. Parent(old) = Upto(p, l - 1)
    BY <1>2, <1>3, <2>1, <2>2, SamePath
  <2>5. NameStartsWith(p[l], NameOf(old))
    <3>1. p[l] = old[l] /\ old[l] \in Seq(Fragments)
      BY <1>1, <2>1, <2>3 DEF PlainNames, Names
    <3>2. SubSeq(old[l], 1, Len(old[l])) = old[l] /\ Len(old[l]) <= Len(old[l])
      BY <3>1, SubSeqFull, LenProperties
    <3> QED
      BY <1>1, <3>1, <3>2 DEF NameStartsWith
  <2> QED
    BY <2>1, <2>4, <2>5 DEF StartsWith, l
<1> QED
  BY <1>4, <1>5

\* And what it puts in the place of the prefix is the new path.
LEMMA SubstituteMoves ==
    ASSUME NEW old \in PathSet \ {Root}, NEW new \in PathSet \ {Root}, NEW p \in PathSet,
           Under(p, old)
    PROVE  Substitute(p, old, new) = Rebase(p, old, new)
<1>1. /\ NameOf(old) = old[Len(old)] /\ NameOf(old) \in Names /\ Len(old) \in 1..Len(old)
      /\ NameOf(new) \in Names /\ Parent(new) \in PathSet
  BY ParentIs
<1>2. p[Len(old)] = NameOf(old)
  BY <1>1, UnderIs
<1>3. NameRest(p[Len(old)], NameOf(old)) = <<>>
  <2>1. Len(NameOf(old)) \in Nat
    BY <1>1, LenProperties DEF Names
  <2>2. Len(NameOf(old)) < Len(NameOf(old)) + 1
    BY <2>1
  <2> QED
    BY <1>2, <2>1, <2>2, SubSeqEmpty DEF NameRest
<1>4. NameOf(new) \o <<>> = NameOf(new)
  BY <1>1, ConcatEmptySeq DEF Names
<1>5. Parent(new) \o <<NameOf(new)>> = new
  BY <1>1, ParentIs, AppendIsConcat DEF PathSet
<1> QED
  BY <1>3, <1>4, <1>5 DEF Substitute, Rebase, Abstract!Rebase

----------------------------------------------------------------------------
(* The two views of a tree agree.                                          *)

\* Who is known has its ancestors known; the nodes are what the names say;
\* each is in the directory its path says and named by its name; and the
\* children of a directory are what is known in it.
Closed(paths) ==
    \A p \in DOMAIN paths : \A k \in 0..Len(p) : Upto(p, k) \in DOMAIN paths

NamedWell(ns, paths, DN, FN) ==
    \A p \in DOMAIN paths :
       /\ IsDirIn(ns, paths[p]) => DirNamed(p, DN)
       /\ ~IsDirIn(ns, paths[p]) => FileNamed(p, DN, FN)

Nested(ns, paths) ==
    \A p \in DOMAIN paths \ {Root} :
       /\ IsDirIn(ns, paths[Parent(p)])
       /\ ns[paths[p]].name = NameOf(p)
       /\ ns[paths[p]].kind = "dir" => ns[paths[p]].parent = paths[Parent(p)]

Lists(children, paths, p) ==
    /\ \A n \in DOMAIN children :
         Append(p, n) \in DOMAIN paths /\ children[n] = paths[Append(p, n)]
    /\ \A q \in DOMAIN paths \ {Root} : Parent(q) = p => NameOf(q) \in DOMAIN children

Listed(ns, paths) ==
    \A p \in DOMAIN paths : IsDirIn(ns, paths[p]) => Lists(ns[paths[p]].children, paths, p)

Views(ns, paths, DN, FN) ==
    Closed(paths) /\ NamedWell(ns, paths, DN, FN) /\ Nested(ns, paths) /\ Listed(ns, paths)

\* What a node is to the namespace.
Entry(node) == IF node.kind = "dir" THEN [kind |-> "dir"] ELSE [kind |-> "file", id |-> node.file_id]

\* A known path other than the root has its parent known, which is a directory.
LEMMA KnownParent ==
    ASSUME NEW ns, NEW paths, NEW next, Good(ns, paths, next), NEW DN, NEW FN,
           Views(ns, paths, DN, FN), NEW p \in DOMAIN paths \ {Root}
    PROVE  /\ p \in PathSet \ {Root} /\ Parent(p) \in DOMAIN paths
           /\ Parent(p) \in PathSet /\ IsDirIn(ns, paths[Parent(p)])
<1>1. p \in PathSet \ {Root}
  BY DEF Good
<1>2. Len(p) - 1 \in 0..Len(p) /\ Parent(p) = Upto(p, Len(p) - 1) /\ Parent(p) \in PathSet
  BY <1>1, ParentIs
<1> QED
  BY <1>1, <1>2 DEF Views, Closed, Nested

\* A directory with one child more, or less.
LEMMA WithChildIs ==
    ASSUME NEW ns, NodesOK(ns), NEW i, IsDirIn(ns, i), NEW n, NEW j,
           NEW ms, ms = WithChild(ns, i, n, j)
    PROVE  /\ DOMAIN ms = DOMAIN ns /\ \A k \in DOMAIN ns : k # i => ms[k] = ns[k]
           /\ ms[i] = DirNode(ns[i].parent, ns[i].name, Insert(ns[i].children, n, j))
<1>1. i \in DOMAIN ns /\ ns[i] = DirNode(ns[i].parent, ns[i].name, ns[i].children)
  BY DEF IsDirIn, NodesOK, NodeOK, FileNode
<1>2. ms = [ns EXCEPT ![i].children = Insert(@, n, j)]
  BY DEF WithChild
<1> QED
  BY <1>1, <1>2 DEF DirNode

\* ms is ns but for the child n of i.
Forgot(ms, ns, i, n) ==
    /\ DOMAIN ms = DOMAIN ns /\ \A k \in DOMAIN ns : k # i => ms[k] = ns[k]
    /\ ms[i] = DirNode(ns[i].parent, ns[i].name, Remove(ns[i].children, {n}))

LEMMA WithoutChildIs ==
    ASSUME NEW ns, NodesOK(ns), NEW i, IsDirIn(ns, i), NEW n,
           NEW ms, ms = WithoutChild(ns, i, n)
    PROVE  Forgot(ms, ns, i, n)
<1>1. i \in DOMAIN ns /\ ns[i] = DirNode(ns[i].parent, ns[i].name, ns[i].children)
  BY DEF IsDirIn, NodesOK, NodeOK, FileNode
<1>2. ms = [ns EXCEPT ![i].children = Remove(@, {n})]
  BY DEF WithoutChild
<1> QED
  BY <1>1, <1>2 DEF DirNode, Forgot

\* The views after node was entered under p.
Added(ms, qs, ns, paths, p, node, DN, FN) ==
    /\ Views(ms, qs, DN, FN) /\ DOMAIN qs = DOMAIN paths \cup {p}
    /\ \A q \in DOMAIN qs :
         Entry(ms[qs[q]]) = IF q = p THEN Entry(node) ELSE Entry(ns[paths[q]])

\* A new node in a directory, under a path that is free or a file's.
LEMMA AddViews ==
    ASSUME NEW ns, NEW paths, NEW next, Good(ns, paths, next), NEW DN, NEW FN,
           Views(ns, paths, DN, FN), NEW p \in PathSet \ {Root}, Parent(p) \in DOMAIN paths,
           IsDirIn(ns, paths[Parent(p)]), p \in DOMAIN paths => ~IsDirIn(ns, paths[p]),
           NEW i, i \notin DOMAIN ns, NEW node, NodeOK(node), node.name = NameOf(p),
           \/ /\ node.kind = "dir" /\ node.parent = paths[Parent(p)]
              /\ node.children = EmptyMap /\ DirNamed(p, DN)
           \/ node.kind # "dir" /\ FileNamed(p, DN, FN),
           NEW ms, ms = WithChild(Insert(ns, i, node), paths[Parent(p)], NameOf(p), i),
           NEW qs, qs = Insert(paths, p, i)
    PROVE  Added(ms, qs, ns, paths, p, node, DN, FN)
<1> DEFINE P == Parent(p)
           d == paths[P]
           placed == Insert(ns, i, node)
<1>1. /\ DOMAIN qs = DOMAIN paths \cup {p} /\ qs[p] = i
      /\ \A q \in DOMAIN paths : q # p => qs[q] = paths[q]
  BY DEF Insert
<1>2. /\ DOMAIN paths \subseteq PathSet /\ \A q \in DOMAIN paths : paths[q] \in DOMAIN ns
      /\ \A q, r \in DOMAIN paths : paths[q] = paths[r] => q = r
      /\ NodesOK(ns)
  BY DEF Good
<1>3. /\ P \in PathSet /\ P \in DOMAIN paths /\ P # p /\ Len(p) \in Nat \ {0}
      /\ Append(P, NameOf(p)) = p /\ NameOf(p) \in Names
      /\ \A k \in 0..Len(p) - 1 : Upto(p, k) = Upto(P, k)
      /\ Len(P) = Len(p) - 1
  <2>1. Len(P) # Len(p)
    BY ParentIs
  <2> QED
    BY <2>1, ParentIs
<1>4. d \in DOMAIN ns /\ d # i /\ ns[d].kind = "dir"
  BY DEF IsDirIn
<1>5. /\ DOMAIN placed = DOMAIN ns \cup {i} /\ placed[i] = node
      /\ \A k \in DOMAIN ns : placed[k] = ns[k]
  BY DEF Insert
<1> HIDE DEF placed
<1>6. /\ DOMAIN ms = DOMAIN ns \cup {i} /\ ms[i] = node
      /\ \A k \in DOMAIN ns : k # d => ms[k] = ns[k]
      /\ ms[d] = DirNode(ns[d].parent, ns[d].name, Insert(ns[d].children, NameOf(p), i))
  <2>1. NodesOK(placed) /\ IsDirIn(placed, d)
    BY <1>2, <1>4, <1>5 DEF NodesOK, IsDirIn
  <2>2. ms = WithChild(placed, d, NameOf(p), i)
    BY DEF placed
  <2>3. /\ DOMAIN ms = DOMAIN placed /\ \A k \in DOMAIN placed : k # d => ms[k] = placed[k]
        /\ ms[d] = DirNode(placed[d].parent, placed[d].name,
                           Insert(placed[d].children, NameOf(p), i))
    BY <2>1, <2>2, WithChildIs
  <2> QED
    BY <1>4, <1>5, <2>3
<1>7. /\ ms[d].kind = "dir" /\ ms[d].parent = ns[d].parent /\ ms[d].name = ns[d].name
      /\ ms[d].children = Insert(ns[d].children, NameOf(p), i)
  BY <1>6 DEF DirNode
<1>8. \A k \in DOMAIN ns :
        /\ ms[k].kind = ns[k].kind /\ ms[k].name = ns[k].name
        /\ ms[k].kind = "dir" => ms[k].parent = ns[k].parent
        /\ Entry(ms[k]) = Entry(ns[k])
  BY <1>4, <1>6, <1>7 DEF Entry
<1> HIDE DEF d
<1>9. \A q \in DOMAIN qs \ {p} :
        /\ q \in DOMAIN paths /\ qs[q] = paths[q] /\ paths[q] \in DOMAIN ns
        /\ IsDirIn(ms, qs[q]) <=> IsDirIn(ns, paths[q])
  BY <1>1, <1>2, <1>6, <1>8 DEF IsDirIn
<1>10. IsDirIn(ms, qs[p]) <=> node.kind = "dir"
  BY <1>1, <1>6 DEF IsDirIn
<1>11. \A q \in DOMAIN qs \ {Root} : Parent(q) # p
  <2>1. ASSUME NEW q \in DOMAIN paths \ {Root}, Parent(q) = p
        PROVE  FALSE
    <3>1. p \in DOMAIN paths /\ IsDirIn(ns, paths[p])
      BY <2>1, KnownParent
    <3> QED
      BY <3>1
  <2> QED
    BY <1>1, <1>3, <2>1
<1>12. Closed(qs)
  <2>1. ASSUME NEW q \in DOMAIN paths, NEW k \in 0..Len(q)
        PROVE  Upto(q, k) \in DOMAIN qs
    BY <1>1 DEF Views, Closed
  <2>2. ASSUME NEW k \in 0..Len(p)
        PROVE  Upto(p, k) \in DOMAIN qs
    <3>1. CASE k = Len(p)
      BY <1>1, <3>1, UptoIs
    <3>2. CASE k # Len(p)
      <4>1. k \in 0..Len(p) - 1
        BY <1>3, <3>2
      <4> QED
        BY <1>3, <2>1, <4>1
    <3> QED
      BY <3>1, <3>2
  <2> QED
    BY <1>1, <2>1, <2>2 DEF Closed
<1>13. NamedWell(ms, qs, DN, FN)
  BY <1>9, <1>10 DEF Views, NamedWell
<1>14. Nested(ms, qs)
  <2>1. ASSUME NEW q \in DOMAIN qs \ {Root}, q # p
        PROVE  /\ IsDirIn(ms, qs[Parent(q)]) /\ ms[qs[q]].name = NameOf(q)
               /\ ms[qs[q]].kind = "dir" => ms[qs[q]].parent = qs[Parent(q)]
    <3>1. q \in DOMAIN paths \ {Root} /\ qs[q] = paths[q] /\ paths[q] \in DOMAIN ns
      BY <1>9, <2>1
    <3>2. Parent(q) \in DOMAIN paths /\ IsDirIn(ns, paths[Parent(q)])
      BY <3>1, KnownParent
    <3>3. qs[Parent(q)] = paths[Parent(q)] /\ IsDirIn(ms, qs[Parent(q)])
      BY <1>1, <1>9, <1>11, <3>2
    <3> QED
      BY <1>8, <3>1, <3>3 DEF Views, Nested
  <2>2. /\ IsDirIn(ms, qs[P]) /\ ms[qs[p]].name = NameOf(p)
        /\ ms[qs[p]].kind = "dir" => ms[qs[p]].parent = qs[P]
    BY <1>1, <1>3, <1>6, <1>9 DEF d
  <2> QED
    BY <2>1, <2>2 DEF Nested
<1>15. Listed(ms, qs)
  <2>1. ASSUME NEW q \in DOMAIN paths, q # p, q # P, IsDirIn(ns, paths[q])
        PROVE  Lists(ms[qs[q]].children, qs, q)
    <3>1. qs[q] = paths[q] /\ ms[paths[q]] = ns[paths[q]]
      BY <1>1, <1>2, <1>3, <1>6, <2>1 DEF d
    <3>2. Lists(ns[paths[q]].children, paths, q)
      BY <2>1 DEF Views, Listed
    <3>3. DOMAIN ns[paths[q]].children \subseteq Names
      BY <1>2, <2>1 DEF NodesOK, NodeOK, IsDirIn
    <3>4. \A n \in DOMAIN ns[paths[q]].children : Append(q, n) # p
      <4>1. \A n \in Names : Parent(Append(q, n)) = q
        BY <1>2, <2>1, ChildIs
      <4> QED
        BY <2>1, <3>3, <4>1
    <3> QED
      BY <1>1, <2>1, <3>1, <3>2, <3>4 DEF Lists
  <2>2. Lists(ms[qs[P]].children, qs, P)
    <3> DEFINE ch == ns[d].children
    <3>1. qs[P] = d /\ ms[d].children = Insert(ch, NameOf(p), i)
      BY <1>1, <1>3, <1>7 DEF d
    <3>2. Lists(ch, paths, P) /\ DOMAIN ch \subseteq Names
      BY <1>2, <1>3, <1>4 DEF Views, Listed, NodesOK, NodeOK, IsDirIn, d
    <3>3. ASSUME NEW n \in Names, n # NameOf(p)
          PROVE  Append(P, n) # p
      BY <1>3, <3>3, ChildIs
    <3> HIDE DEF ch
    <3>4. /\ DOMAIN Insert(ch, NameOf(p), i) = DOMAIN ch \cup {NameOf(p)}
          /\ Insert(ch, NameOf(p), i)[NameOf(p)] = i
          /\ \A n \in DOMAIN ch : n # NameOf(p) => Insert(ch, NameOf(p), i)[n] = ch[n]
      BY DEF Insert
    <3> DEFINE dh == Insert(ch, NameOf(p), i)
    <3> HIDE DEF dh
    <3>5. DOMAIN dh = DOMAIN ch \cup {NameOf(p)} /\ dh[NameOf(p)] = i
          /\ \A n \in DOMAIN ch : n # NameOf(p) => dh[n] = ch[n]
      BY <3>4 DEF dh
    <3>6. ASSUME NEW n \in DOMAIN dh
          PROVE  Append(P, n) \in DOMAIN qs /\ dh[n] = qs[Append(P, n)]
      <4>1. CASE n = NameOf(p)
        BY <1>1, <1>3, <3>5, <4>1
      <4>2. CASE n # NameOf(p)
        <5>1. n \in DOMAIN ch /\ dh[n] = ch[n]
          BY <3>5, <4>2
        <5>2. Append(P, n) \in DOMAIN paths /\ ch[n] = paths[Append(P, n)] /\ Append(P, n) # p
          BY <3>2, <3>3, <4>2, <5>1 DEF Lists
        <5> QED
          BY <1>1, <5>1, <5>2
      <4> QED
        BY <4>1, <4>2
    <3>7. ASSUME NEW q \in DOMAIN qs \ {Root}, Parent(q) = P
          PROVE  NameOf(q) \in DOMAIN dh
      BY <1>1, <3>2, <3>5, <3>7 DEF Lists
    <3>8. Lists(dh, qs, P)
      BY <3>6, <3>7 DEF Lists
    <3> QED
      BY <3>1, <3>8 DEF dh
  <2>3. ASSUME IsDirIn(ms, qs[p])
        PROVE  Lists(ms[qs[p]].children, qs, p)
    BY <1>1, <1>6, <1>10, <1>11, <2>3 DEF Lists, EmptyMap
  <2> QED
    BY <1>1, <1>9, <2>1, <2>2, <2>3 DEF Listed
<1>16. \A q \in DOMAIN qs :
         Entry(ms[qs[q]]) = IF q = p THEN Entry(node) ELSE Entry(ns[paths[q]])
  BY <1>1, <1>6, <1>8, <1>9
<1> QED
  BY <1>1, <1>12, <1>13, <1>14, <1>15, <1>16 DEF Views, Added

\* The views after p and what lies below it were dropped.
Dropped(ms, qs, ns, paths, p, DN, FN) ==
    /\ Views(ms, qs, DN, FN) /\ DOMAIN qs = {q \in DOMAIN paths : ~Under(q, p)}
    /\ \A q \in DOMAIN qs : Entry(ms[qs[q]]) = Entry(ns[paths[q]])

\* What is dropped with all that lies below it, and from its directory.
LEMMA DropViews ==
    ASSUME NEW ns, NEW paths, NEW next, Good(ns, paths, next), NEW DN, NEW FN,
           Views(ns, paths, DN, FN), NEW p \in DOMAIN paths \ {Root},
           NEW K, \A q \in DOMAIN paths : q \in K <=> Under(q, p),
           NEW qs, qs = Remove(paths, K),
           NEW ms, \A q \in DOMAIN qs :
                      /\ paths[q] \in DOMAIN ms
                      /\ q # Parent(p) => ms[paths[q]] = ns[paths[q]],
           NEW d, d = ns[paths[Parent(p)]],
           ms[paths[Parent(p)]] = DirNode(d.parent, d.name, Remove(d.children, {NameOf(p)}))
    PROVE  Dropped(ms, qs, ns, paths, p, DN, FN)
<1> DEFINE P == Parent(p)
<1>1. /\ DOMAIN qs = {q \in DOMAIN paths : ~Under(q, p)}
      /\ \A q \in DOMAIN qs : q \in DOMAIN paths /\ qs[q] = paths[q] /\ q \in PathSet
  BY DEF Remove, Good
<1>2. /\ DOMAIN paths \subseteq PathSet /\ \A q \in DOMAIN paths : paths[q] \in DOMAIN ns
      /\ \A q, r \in DOMAIN paths : paths[q] = paths[r] => q = r
      /\ NodesOK(ns)
  BY DEF Good
<1>3. /\ p \in PathSet \ {Root} /\ P \in DOMAIN paths /\ P \in PathSet /\ IsDirIn(ns, paths[P])
      /\ Append(P, NameOf(p)) = p /\ NameOf(p) \in Names
  BY KnownParent, ParentIs
<1>4. P \in DOMAIN qs
  <2>1. Len(P) < Len(p)
    BY <1>3, ParentIs
  <2>2. ~(Len(p) <= Len(P))
    BY <1>3, <2>1, PathIs
  <2> QED
    BY <1>1, <1>3, <2>2, UnderIs
<1>5. /\ ms[paths[P]].kind = "dir" /\ ms[paths[P]].parent = d.parent
      /\ ms[paths[P]].name = d.name /\ ms[paths[P]].children = Remove(d.children, {NameOf(p)})
  BY DEF DirNode
<1>6. d.kind = "dir"
  BY <1>3 DEF IsDirIn
<1>7. \A q \in DOMAIN qs :
        /\ ms[qs[q]].kind = ns[paths[q]].kind /\ ms[qs[q]].name = ns[paths[q]].name
        /\ ms[qs[q]].kind = "dir" => ms[qs[q]].parent = ns[paths[q]].parent
        /\ Entry(ms[qs[q]]) = Entry(ns[paths[q]])
        /\ IsDirIn(ms, qs[q]) <=> IsDirIn(ns, paths[q])
  BY <1>1, <1>2, <1>5, <1>6 DEF Entry, IsDirIn
<1>8. Closed(qs)
  <2>1. ASSUME NEW q \in DOMAIN qs, NEW k \in 0..Len(q)
        PROVE  Upto(q, k) \in DOMAIN qs
    <3>1. Upto(q, k) \in DOMAIN paths
      BY <1>1 DEF Views, Closed
    <3> QED
      BY <1>1, <1>3, <3>1, UnderUpto
  <2> QED
    BY <2>1 DEF Closed
<1>9. NamedWell(ms, qs, DN, FN)
  BY <1>1, <1>7 DEF Views, NamedWell
<1>10. \A q \in DOMAIN qs \ {Root} : Parent(q) \in DOMAIN qs /\ IsDirIn(ms, qs[Parent(q)])
  <2>1. ASSUME NEW q \in DOMAIN qs \ {Root}
        PROVE  Parent(q) \in DOMAIN qs /\ IsDirIn(ms, qs[Parent(q)])
    <3>1. /\ q \in DOMAIN paths \ {Root} /\ Parent(q) \in DOMAIN paths
          /\ IsDirIn(ns, paths[Parent(q)])
      BY <1>1, KnownParent
    <3>2. ~Under(Parent(q), p)
      BY <1>1, <1>2, <1>3, <3>1, UnderParent
    <3> QED
      BY <1>1, <1>7, <3>1, <3>2
  <2> QED
    BY <2>1
<1>11. Nested(ms, qs)
  <2>1. ASSUME NEW q \in DOMAIN qs \ {Root}
        PROVE  /\ ms[qs[q]].name = NameOf(q)
               /\ ms[qs[q]].kind = "dir" => ms[qs[q]].parent = qs[Parent(q)]
    <3>1. /\ ns[paths[q]].name = NameOf(q)
          /\ ns[paths[q]].kind = "dir" => ns[paths[q]].parent = paths[Parent(q)]
      BY <1>1 DEF Views, Nested
    <3> QED
      BY <1>1, <1>7, <1>10, <3>1
  <2> QED
    BY <1>10, <2>1 DEF Nested
<1>12. Listed(ms, qs)
  <2>1. ASSUME NEW q \in DOMAIN qs, IsDirIn(ns, paths[q]), NEW n \in DOMAIN ns[paths[q]].children,
               q = P => n # NameOf(p)
        PROVE  Append(q, n) \in DOMAIN qs /\ ns[paths[q]].children[n] = qs[Append(q, n)]
    <3> DEFINE r == Append(q, n)
    <3>1. r \in DOMAIN paths /\ ns[paths[q]].children[n] = paths[r]
      BY <1>1, <2>1 DEF Views, Listed, Lists
    <3>2. n \in Names
      BY <1>1, <1>2, <2>1 DEF NodesOK, NodeOK, IsDirIn
    <3>3. Parent(r) = q /\ NameOf(r) = n /\ r \in PathSet
      BY <1>1, <3>2, ChildIs
    <3> HIDE DEF r
    <3>4. r # p
      BY <2>1, <3>3
    <3>5. ~Under(r, p)
      BY <1>1, <1>3, <3>3, <3>4, UnderParent
    <3> QED
      BY <1>1, <3>1, <3>5 DEF r
  <2>2. ASSUME NEW q \in DOMAIN qs, IsDirIn(ns, paths[q]), NEW r \in DOMAIN qs \ {Root},
               Parent(r) = q
        PROVE  NameOf(r) \in DOMAIN ns[paths[q]].children /\ (q = P => NameOf(r) # NameOf(p))
    <3>1. NameOf(r) \in DOMAIN ns[paths[q]].children
      BY <1>1, <2>2 DEF Views, Listed, Lists
    <3>2. r # p
      BY <1>1, <1>3, UnderItself
    <3>3. q = P => NameOf(r) # NameOf(p)
      BY <1>1, <1>3, <2>2, <3>2, ParentIs
    <3> QED
      BY <3>1, <3>3
  <2>3. ASSUME NEW q \in DOMAIN qs, IsDirIn(ms, qs[q])
        PROVE  Lists(ms[qs[q]].children, qs, q)
    <3>1. IsDirIn(ns, paths[q])
      BY <1>7, <2>3
    <3>2. CASE q # P
      <4>1. ms[qs[q]].children = ns[paths[q]].children
        BY <1>1, <3>2
      <4> QED
        BY <2>1, <2>2, <3>1, <3>2, <4>1 DEF Lists
    <3>3. CASE q = P
      <4> DEFINE ch == d.children
                 dh == Remove(ch, {NameOf(p)})
      <4>1. ms[qs[q]].children = dh /\ ch = ns[paths[q]].children
        BY <1>1, <1>5, <3>3
      <4>2. DOMAIN dh = DOMAIN ch \ {NameOf(p)} /\ \A n \in DOMAIN dh : dh[n] = ch[n]
        BY DEF Remove
      <4> HIDE DEF ch, dh
      <4> QED
        BY <2>1, <2>2, <3>1, <3>3, <4>1, <4>2 DEF Lists
    <3> QED
      BY <3>2, <3>3
  <2> QED
    BY <2>3 DEF Listed
<1> QED
  BY <1>1, <1>7, <1>8, <1>9, <1>11, <1>12 DEF Views, Dropped

\* What lies below a path is in a directory that lists something.
LEMMA BelowIs ==
    ASSUME NEW ns, NEW paths, NEW next, Good(ns, paths, next), NEW DN, NEW FN,
           Views(ns, paths, DN, FN), NEW old \in DOMAIN paths, NEW q \in DOMAIN paths,
           Under(q, old), q # old
    PROVE  IsDirIn(ns, paths[old]) /\ ns[paths[old]].children # EmptyMap
<1> DEFINE s == Upto(q, Len(old) + 1)
<1>1. old \in PathSet /\ q \in PathSet
  BY DEF Good
<1>2. /\ Len(old) \in Nat /\ Len(q) \in Nat /\ Len(old) <= Len(q)
      /\ \A i \in 1..Len(old) : q[i] = old[i]
  BY <1>1, PathIs, UnderIs
<1>3. Len(old) # Len(q)
  BY <1>1, <1>2, SamePath
<1>4. Len(old) + 1 \in 0..Len(q)
  BY <1>2, <1>3
<1>5. s \in DOMAIN paths
  BY <1>4 DEF Views, Closed
<1>6. /\ s \in PathSet /\ Len(s) = Len(old) + 1
      /\ \A i \in 1..Len(old) + 1 : s[i] = q[i]
  BY <1>1, <1>4, UptoIs
<1> HIDE DEF s
<1>7. s # Root
  BY <1>2, <1>6, RootIsShort
<1>8. Parent(s) = old
  <2>1. /\ Parent(s) \in PathSet /\ Len(Parent(s)) = Len(s) - 1
        /\ \A i \in 1..Len(s) - 1 : Parent(s)[i] = s[i]
    BY <1>6, <1>7, ParentIs
  <2>2. Len(s) - 1 = Len(old) /\ \A i \in 1..Len(old) : i \in 1..Len(old) + 1
    BY <1>2, <1>6
  <2>3. \A i \in 1..Len(old) : Parent(s)[i] = old[i]
    BY <1>2, <1>6, <2>1, <2>2
  <2> QED
    BY <1>1, <2>1, <2>2, <2>3, SamePath
<1>9. IsDirIn(ns, paths[old])
  BY <1>5, <1>7, <1>8, KnownParent
<1>10. NameOf(s) \in DOMAIN ns[paths[old]].children
  BY <1>5, <1>7, <1>8, <1>9 DEF Views, Listed, Lists
<1> QED
  BY <1>9, <1>10 DEF EmptyMap

\* Where a path is after old was moved to new.
To(q, old, new) == IF Under(q, old) THEN Rebase(q, old, new) ELSE q

\* The move keeps paths apart, and what is in a directory in it.
LEMMA ToIs ==
    ASSUME NEW ns, NEW paths, NEW next, Good(ns, paths, next), NEW DN, NEW FN,
           Views(ns, paths, DN, FN), NEW old \in DOMAIN paths \ {Root},
           NEW new \in PathSet \ {Root}, new \notin DOMAIN paths,
           Parent(new) \in DOMAIN paths, ~Under(new, old)
    PROVE  /\ \A q \in DOMAIN paths : ~Under(q, new) /\ To(q, old, new) \in PathSet
           /\ \A q, r \in DOMAIN paths : To(q, old, new) = To(r, old, new) => q = r
           /\ To(old, old, new) = new /\ To(Root, old, new) = Root
           /\ To(Parent(new), old, new) = Parent(new)
           /\ To(Parent(old), old, new) = Parent(old)
           /\ \A q \in DOMAIN paths \ {Root, old} :
                /\ To(q, old, new) # Root
                /\ Parent(To(q, old, new)) = To(Parent(q), old, new)
                /\ NameOf(To(q, old, new)) = NameOf(q)
<1>1. old \in PathSet \ {Root} /\ new \in PathSet \ {Root} /\ DOMAIN paths \subseteq PathSet
  BY DEF Good
<1>2. ASSUME NEW q \in DOMAIN paths
      PROVE  ~Under(q, new)
  <2> SUFFICES ASSUME Under(q, new) PROVE FALSE
    OBVIOUS
  <2>1. Len(new) \in 0..Len(q) /\ Upto(q, Len(new)) = new
    BY <1>1, PathIs DEF Under
  <2> QED
    BY <2>1 DEF Views, Closed
<1>3. ASSUME NEW q \in DOMAIN paths, Under(q, old)
      PROVE  /\ To(q, old, new) = Rebase(q, old, new) /\ To(q, old, new) \in PathSet
             /\ Under(To(q, old, new), new)
  <2>1. Rebased(Rebase(q, old, new), q, old, new)
    BY <1>1, <1>3, RebaseIs
  <2> QED
    BY <1>3, <2>1 DEF To, Rebased
<1>4. ASSUME NEW q \in DOMAIN paths, NEW r \in DOMAIN paths, To(q, old, new) = To(r, old, new)
      PROVE  q = r
  <2>1. CASE Under(q, old) /\ Under(r, old)
    BY <1>1, <1>3, <1>4, <2>1, RebaseBack
  <2>2. CASE ~Under(q, old) /\ ~Under(r, old)
    BY <1>4, <2>2 DEF To
  <2>3. CASE Under(q, old) /\ ~Under(r, old)
    BY <1>2, <1>3, <1>4, <2>3 DEF To
  <2>4. CASE ~Under(q, old) /\ Under(r, old)
    BY <1>2, <1>3, <1>4, <2>4 DEF To
  <2> QED
    BY <2>1, <2>2, <2>3, <2>4
<1>5. Under(old, old) /\ To(old, old, new) = new
  BY <1>1, UnderItself, RebaseChild DEF To
<1>6. ~Under(Root, old)
  BY <1>1, UnderIs, RootIsShort, ParentIs
<1>7. ~Under(Parent(new), old)
  BY <1>1, UnderParent
<1>8. ~Under(Parent(old), old)
  <2>1. Parent(old) \in PathSet /\ Len(Parent(old)) = Len(old) - 1 /\ Len(old) \in Nat
    BY <1>1, ParentIs
  <2>2. ~(Len(old) <= Len(Parent(old)))
    BY <2>1
  <2> QED
    BY <1>1, <2>1, <2>2, UnderIs
<1>9. ASSUME NEW q \in DOMAIN paths \ {Root, old}
      PROVE  /\ To(q, old, new) # Root
             /\ Parent(To(q, old, new)) = To(Parent(q), old, new)
             /\ NameOf(To(q, old, new)) = NameOf(q)
  <2>1. CASE Under(q, old)
    BY <1>1, <2>1, RebaseChild DEF To
  <2>2. CASE ~Under(q, old)
    <3>1. ~Under(Parent(q), old)
      BY <1>1, <2>2, UnderParent, ParentIs
    <3> QED
      BY <2>2, <3>1 DEF To
  <2> QED
    BY <2>1, <2>2
<1>10. \A q \in DOMAIN paths : To(q, old, new) \in PathSet
  BY <1>1, <1>3 DEF To
<1> QED
  BY <1>2, <1>4, <1>5, <1>6, <1>7, <1>8, <1>9, <1>10 DEF To

\* What the children of the node j become, when the child n of a goes to b as m.
Rehomed(children, j, a, n, b, m, i) ==
    LET left == IF j = a THEN Remove(children, {n}) ELSE children
    IN  IF j = b THEN Insert(left, m, i) ELSE left

\* The views after old and what lies below it moved to new.
MovedTo(ms, qs, ns, paths, old, new, DN, FN) ==
    /\ Views(ms, qs, DN, FN) /\ DOMAIN qs = {To(q, old, new) : q \in DOMAIN paths}
    /\ \A q \in DOMAIN paths : Entry(ms[qs[To(q, old, new)]]) = Entry(ns[paths[q]])

\* A file or a directory moves, with what lies below it.
LEMMA MoveViews ==
    ASSUME NEW ns, NEW paths, NEW next, Good(ns, paths, next), NEW DN, NEW FN,
           Views(ns, paths, DN, FN), NEW old \in DOMAIN paths \ {Root},
           NEW new \in PathSet \ {Root}, new \notin DOMAIN paths,
           Parent(new) \in DOMAIN paths, IsDirIn(ns, paths[Parent(new)]), ~Under(new, old),
           IsDirIn(ns, paths[old]) => DirNamed(new, DN),
           ~IsDirIn(ns, paths[old]) => FileNamed(new, DN, FN),
           NEW qs, DOMAIN qs = {To(q, old, new) : q \in DOMAIN paths},
           \A q \in DOMAIN paths : qs[To(q, old, new)] = paths[q],
           NEW ms, DOMAIN ms = DOMAIN ns,
           \A j \in DOMAIN ns :
             /\ ms[j].kind = ns[j].kind
             /\ ns[j].kind # "dir" => ms[j].file_id = ns[j].file_id
             /\ ms[j].name = IF j = paths[old] THEN NameOf(new) ELSE ns[j].name
             /\ ns[j].kind = "dir" =>
                  /\ ms[j].parent = IF j = paths[old] THEN paths[Parent(new)] ELSE ns[j].parent
                  /\ ms[j].children =
                       Rehomed(ns[j].children, j, paths[Parent(old)], NameOf(old),
                               paths[Parent(new)], NameOf(new), paths[old])
    PROVE  MovedTo(ms, qs, ns, paths, old, new, DN, FN)
<1> DEFINE T(q) == To(q, old, new)
<1>0. /\ \A q \in DOMAIN paths : T(q) \in DOMAIN qs /\ qs[T(q)] = paths[q]
      /\ \A r \in DOMAIN qs : \E q \in DOMAIN paths : r = T(q)
  OBVIOUS
<1>1. /\ DOMAIN paths \subseteq PathSet /\ \A q \in DOMAIN paths : paths[q] \in DOMAIN ns
      /\ \A q, r \in DOMAIN paths : paths[q] = paths[r] => q = r
      /\ NodesOK(ns) /\ old \in PathSet \ {Root} /\ Root \in DOMAIN paths
  BY DEF Good
<1>2. /\ \A q \in DOMAIN paths : ~Under(q, new) /\ T(q) \in PathSet
      /\ \A q, r \in DOMAIN paths : T(q) = T(r) => q = r
      /\ T(old) = new /\ T(Root) = Root /\ T(Parent(new)) = Parent(new)
      /\ T(Parent(old)) = Parent(old)
      /\ \A q \in DOMAIN paths \ {Root, old} :
           T(q) # Root /\ Parent(T(q)) = T(Parent(q)) /\ NameOf(T(q)) = NameOf(q)
  BY ToIs
<1>3. \A q \in DOMAIN paths : IsDirIn(ms, qs[T(q)]) <=> IsDirIn(ns, paths[q])
  BY <1>1 DEF IsDirIn
<1>4. Under(old, old) /\ \A q \in DOMAIN paths : ~Under(q, old) => T(q) = q
  BY <1>1, UnderItself DEF To
<1>5. \A q \in DOMAIN paths \ {Root} : Parent(q) \in DOMAIN paths /\ IsDirIn(ns, paths[Parent(q)])
  BY KnownParent
<1>6. Parent(old) \in DOMAIN paths /\ Parent(new) \in PathSet
      /\ Append(Parent(old), NameOf(old)) = old /\ Append(Parent(new), NameOf(new)) = new
  BY <1>1, <1>5, ParentIs
<1>7. \A q \in DOMAIN paths :
         \A k \in 0..Len(q) : Upto(q, k) \in DOMAIN paths
  BY DEF Views, Closed
<1>8. Closed(qs)
  <2>1. ASSUME NEW k \in 0..Len(new)
        PROVE  Upto(new, k) \in DOMAIN qs
    <3>1. CASE k = Len(new)
      BY <1>2, <3>1, UptoIs
    <3>2. CASE k # Len(new)
      <4>1. /\ k \in 0..Len(new) - 1 /\ Len(new) \in Nat \ {0} /\ Len(Parent(new)) = Len(new) - 1
            /\ Upto(Parent(new), k) = Upto(new, k)
        BY <3>2, ParentIs
      <4>2. Upto(new, k) \in DOMAIN paths
        BY <1>7, <4>1
      <4>3. ~Under(Upto(new, k), old)
        BY <1>1, UnderUpto
      <4> QED
        BY <1>4, <4>2, <4>3
    <3> QED
      BY <3>1, <3>2
  <2>2. ASSUME NEW q \in DOMAIN paths, NEW k \in 0..Len(T(q))
        PROVE  Upto(T(q), k) \in DOMAIN qs
    <3>1. CASE ~Under(q, old)
      <4>1. T(q) = q /\ Upto(q, k) \in DOMAIN paths
        BY <1>4, <1>7, <2>2, <3>1
      <4>2. ~Under(Upto(q, k), old)
        BY <1>1, <2>2, <3>1, <4>1, UnderUpto
      <4> QED
        BY <1>4, <4>1, <4>2
    <3>2. CASE Under(q, old)
      <4>1. T(q) = Rebase(q, old, new) /\ q \in PathSet
        BY <1>1, <3>2 DEF To
      <4>2. CASE k \in 0..Len(new) /\ Upto(T(q), k) = Upto(new, k)
        BY <2>1, <4>2
      <4>3. ASSUME NEW j \in 0..Len(q), Under(Upto(q, j), old),
                   Upto(T(q), k) = Rebase(Upto(q, j), old, new)
            PROVE  Upto(T(q), k) \in DOMAIN qs
        <5>1. Upto(q, j) \in DOMAIN paths
          BY <1>7
        <5>2. T(Upto(q, j)) = Rebase(Upto(q, j), old, new)
          BY <4>3 DEF To
        <5> QED
          BY <4>3, <5>1, <5>2
      <4> HIDE DEF T
      <4>4. k \in 0..Len(Rebase(q, old, new))
        BY <2>2, <4>1
      <4> QED
        BY <1>1, <3>2, <4>1, <4>2, <4>3, <4>4, RebaseUpto
    <3> QED
      BY <3>1, <3>2
  <2> QED
    BY <2>2 DEF Closed
<1>9. NamedWell(ms, qs, DN, FN)
  <2>1. ASSUME NEW q \in DOMAIN paths, Under(q, old), q # old
        PROVE  /\ DirNamed(q, DN) => DirNamed(T(q), DN)
               /\ FileNamed(q, DN, FN) => FileNamed(T(q), DN, FN)
    <3>1. IsDirIn(ns, paths[old])
      BY <2>1, BelowIs
    <3>2. DirNamed(new, DN)
      BY <3>1
    <3> SUFFICES ASSUME NEW r, r = T(q)
                 PROVE  /\ DirNamed(q, DN) => DirNamed(r, DN)
                        /\ FileNamed(q, DN, FN) => FileNamed(r, DN, FN)
      OBVIOUS
    <3>3. Rebased(r, q, old, new)
      BY <1>1, <2>1, RebaseIs DEF To
    <3>4. r # Root /\ q # Root /\ NameOf(r) = NameOf(q)
      <4>1. q # Root
        BY <1>1, <2>1, UnderParent
      <4> QED
        BY <1>2, <2>1, <4>1
    <3>5. ASSUME NEW h \in Nat, h <= Len(r), \A i \in 1..(Len(q) - (Len(r) - h)) : q[i] \in DN,
                 NEW i \in 1..h
          PROVE  r[i] \in DN
      <4>1. /\ Len(r) = Len(new) + (Len(q) - Len(old))
            /\ Len(new) \in Nat /\ Len(old) \in Nat /\ Len(q) \in Nat /\ Len(old) <= Len(q)
        BY <3>3 DEF Rebased
      <4>2. CASE i <= Len(new)
        <5>1. i \in 1..Len(new)
          BY <4>1, <4>2
        <5> QED
          BY <3>2, <3>3, <5>1 DEF Rebased, DirNamed
      <4>3. CASE ~(i <= Len(new))
        <5> DEFINE j == i - Len(new)
        <5>1. /\ j \in 1..Len(q) - Len(old) /\ Len(new) + j = i
              /\ Len(old) + j \in 1..(Len(q) - (Len(r) - h))
          BY <3>5, <4>1, <4>3
        <5> HIDE DEF j
        <5>2. r[Len(new) + j] = q[Len(old) + j]
          BY <3>3, <5>1 DEF Rebased
        <5> QED
          BY <3>5, <5>1, <5>2
      <4> QED
        BY <4>2, <4>3
    <3>6. /\ Len(r) \in Nat \ {0} /\ Len(q) \in Nat \ {0}
          /\ Len(q) - (Len(r) - Len(r)) = Len(q)
          /\ Len(q) - (Len(r) - (Len(r) - 1)) = Len(q) - 1
          /\ Len(r) - 1 \in Nat /\ Len(r) - 1 <= Len(r) /\ Len(r) <= Len(r)
      <4>1. r \in PathSet /\ q \in PathSet
        BY <1>1, <3>3 DEF Rebased
      <4>2. Len(r) \in Nat \ {0} /\ Len(q) \in Nat \ {0}
        BY <3>4, <4>1, ParentIs
      <4> QED
        BY <4>2
    <3>7. ASSUME DirNamed(q, DN)
          PROVE  DirNamed(r, DN)
      BY <3>5, <3>6, <3>7 DEF DirNamed
    <3>8. ASSUME FileNamed(q, DN, FN)
          PROVE  FileNamed(r, DN, FN)
      BY <3>4, <3>5, <3>6, <3>8 DEF FileNamed, NameOf
    <3> QED
      BY <3>7, <3>8
  <2>2. ASSUME NEW q \in DOMAIN paths
        PROVE  /\ IsDirIn(ns, paths[q]) => DirNamed(T(q), DN)
               /\ ~IsDirIn(ns, paths[q]) => FileNamed(T(q), DN, FN)
    <3>1. /\ IsDirIn(ns, paths[q]) => DirNamed(q, DN)
          /\ ~IsDirIn(ns, paths[q]) => FileNamed(q, DN, FN)
      BY DEF Views, NamedWell
    <3> QED
      BY <1>2, <1>4, <2>1, <3>1
  <2>3. ASSUME NEW r \in DOMAIN qs
        PROVE  /\ IsDirIn(ms, qs[r]) => DirNamed(r, DN)
               /\ ~IsDirIn(ms, qs[r]) => FileNamed(r, DN, FN)
    <3>1. PICK q \in DOMAIN paths : r = T(q)
      BY <1>0
    <3> QED
      BY <1>3, <2>2, <3>1
  <2> QED
    BY <2>3 DEF NamedWell
<1>10. Nested(ms, qs)
  <2>1. ASSUME NEW q \in DOMAIN paths \ {Root}
        PROVE  /\ IsDirIn(ms, qs[Parent(T(q))]) /\ ms[qs[T(q)]].name = NameOf(T(q))
               /\ ms[qs[T(q)]].kind = "dir" => ms[qs[T(q)]].parent = qs[Parent(T(q))]
    <3>1. CASE q = old
      <4>1. qs[Parent(new)] = paths[Parent(new)]
        BY <1>2
      <4> QED
        BY <1>1, <1>2, <1>3, <3>1, <4>1
    <3>2. CASE q # old
      <4>1. /\ Parent(T(q)) = T(Parent(q)) /\ NameOf(T(q)) = NameOf(q)
            /\ Parent(q) \in DOMAIN paths /\ IsDirIn(ns, paths[Parent(q)])
        BY <1>2, <1>5, <3>2
      <4>2. qs[Parent(T(q))] = paths[Parent(q)] /\ IsDirIn(ms, qs[Parent(T(q))])
        BY <1>3, <4>1
      <4>3. /\ ns[paths[q]].name = NameOf(q)
            /\ ns[paths[q]].kind = "dir" => ns[paths[q]].parent = paths[Parent(q)]
        BY DEF Views, Nested
      <4>4. paths[q] # paths[old] /\ paths[q] \in DOMAIN ns
        BY <1>1, <3>2
      <4> QED
        BY <4>1, <4>2, <4>3, <4>4
    <3> QED
      BY <3>1, <3>2
  <2>2. ASSUME NEW r \in DOMAIN qs \ {Root}
        PROVE  /\ IsDirIn(ms, qs[Parent(r)]) /\ ms[qs[r]].name = NameOf(r)
               /\ ms[qs[r]].kind = "dir" => ms[qs[r]].parent = qs[Parent(r)]
    <3>1. PICK q \in DOMAIN paths : r = T(q)
      BY <1>0
    <3>2. q # Root
      BY <1>2, <2>2, <3>1
    <3> QED
      BY <2>1, <3>1, <3>2
  <2> QED
    BY <2>2 DEF Nested
<1>11. Listed(ms, qs)
  <2>1. ASSUME NEW q \in DOMAIN paths, IsDirIn(ns, paths[q])
        PROVE  Lists(ms[paths[q]].children, qs, T(q))
    <3> SUFFICES ASSUME NEW ch, ch = ns[paths[q]].children, NEW dh, dh = ms[paths[q]].children
                 PROVE  Lists(dh, qs, T(q))
      OBVIOUS
    <3>1. dh = Rehomed(ch, paths[q], paths[Parent(old)], NameOf(old),
                       paths[Parent(new)], NameOf(new), paths[old])
      BY <1>1, <2>1 DEF IsDirIn
    <3>2. paths[q] = paths[Parent(old)] <=> q = Parent(old)
      BY <1>1, <1>6
    <3>3. paths[q] = paths[Parent(new)] <=> q = Parent(new)
      BY <1>1
    <3>4. /\ DOMAIN dh = (IF q = Parent(old) THEN DOMAIN ch \ {NameOf(old)} ELSE DOMAIN ch)
                           \cup (IF q = Parent(new) THEN {NameOf(new)} ELSE {})
          /\ \A n \in DOMAIN dh :
               dh[n] = IF q = Parent(new) /\ n = NameOf(new) THEN paths[old] ELSE ch[n]
      BY <3>1, <3>2, <3>3 DEF Rehomed, Insert, Remove
    <3>5. Lists(ch, paths, q) /\ DOMAIN ch \subseteq Names /\ q \in PathSet
      BY <1>1, <2>1 DEF Views, Listed, NodesOK, NodeOK, IsDirIn
    <3>6. ASSUME NEW n \in DOMAIN dh
          PROVE  Append(T(q), n) \in DOMAIN qs /\ dh[n] = qs[Append(T(q), n)]
      <4>1. CASE q = Parent(new) /\ n = NameOf(new)
        <5>1. T(q) = Parent(new) /\ Append(T(q), n) = new
          BY <1>2, <1>6, <4>1
        <5>2. new \in DOMAIN qs /\ qs[new] = paths[old]
          BY <1>0, <1>2
        <5>3. dh[n] = paths[old]
          BY <3>4, <3>6, <4>1
        <5> QED
          BY <5>1, <5>2, <5>3
      <4>2. CASE ~(q = Parent(new) /\ n = NameOf(new))
        <5> DEFINE s == Append(q, n)
        <5>1. n \in DOMAIN ch /\ (q = Parent(old) => n # NameOf(old)) /\ dh[n] = ch[n]
          BY <3>4, <3>6, <4>2
        <5>2. s \in DOMAIN paths /\ ch[n] = paths[s] /\ n \in Names
          BY <3>5, <5>1 DEF Lists
        <5>3. s # Root /\ Parent(s) = q /\ NameOf(s) = n
          BY <3>5, <5>2, ChildIs
        <5> HIDE DEF s
        <5>4. s # old
          BY <5>1, <5>3
        <5>5. T(s) # Root /\ Parent(T(s)) = T(q) /\ NameOf(T(s)) = n /\ T(s) \in PathSet
          BY <1>2, <5>2, <5>3, <5>4
        <5>6. Append(T(q), n) = T(s)
          BY <5>5, ParentIs
        <5> QED
          BY <1>0, <5>1, <5>2, <5>6
      <4> QED
        BY <4>1, <4>2
    <3>7. ASSUME NEW s \in DOMAIN paths, T(s) # Root, Parent(T(s)) = T(q)
          PROVE  NameOf(T(s)) \in DOMAIN dh
      <4>1. CASE s = old
        <5>1. q = Parent(new)
          BY <1>2, <3>7, <4>1
        <5> QED
          BY <1>2, <3>4, <4>1, <5>1
      <4>2. CASE s # old
        <5>1. s # Root /\ Parent(T(s)) = T(Parent(s)) /\ NameOf(T(s)) = NameOf(s)
          BY <1>2, <3>7, <4>2
        <5>2. Parent(s) = q
          BY <1>2, <1>5, <3>7, <5>1
        <5>3. NameOf(s) \in DOMAIN ch
          BY <3>5, <5>1, <5>2 DEF Lists
        <5>4. q = Parent(old) => NameOf(s) # NameOf(old)
          BY <1>1, <1>6, <4>2, <5>1, <5>2, ParentIs
        <5> QED
          BY <3>4, <5>1, <5>3, <5>4
      <4> QED
        BY <4>1, <4>2
    <3>8. ASSUME NEW r \in DOMAIN qs \ {Root}, Parent(r) = T(q)
          PROVE  NameOf(r) \in DOMAIN dh
      <4>1. PICK s \in DOMAIN paths : r = T(s)
        BY <1>0
      <4> QED
        BY <3>7, <3>8, <4>1
    <3> QED
      BY <3>6, <3>8 DEF Lists
  <2>2. ASSUME NEW r \in DOMAIN qs, IsDirIn(ms, qs[r])
        PROVE  Lists(ms[qs[r]].children, qs, r)
    <3>1. PICK q \in DOMAIN paths : r = T(q)
      BY <1>0
    <3>2. qs[r] = paths[q] /\ IsDirIn(ns, paths[q])
      BY <1>0, <1>3, <2>2, <3>1
    <3> QED
      BY <2>1, <3>1, <3>2
  <2> QED
    BY <2>2 DEF Listed
<1>12. \A q \in DOMAIN paths : Entry(ms[qs[T(q)]]) = Entry(ns[paths[q]])
  BY <1>1 DEF Entry
<1> QED
  BY <1>8, <1>9, <1>10, <1>11, <1>12 DEF Views, MovedTo

----------------------------------------------------------------------------
(* The walk keeps the views.                                               *)

\* What is known after the walk is what was known, and the ancestors of p that
\* were not; and the walk stands where its paths lead, never twice.
LEMMA WalkStands ==
    ASSUME TreeInv, NEW p \in PathSet, NEW m \in 0..Len(p)
    PROVE  /\ \A q \in DOMAIN WalkPaths(p, m) :
                q \in DOMAIN path_to_inode \/ \E k \in Missing(p, m) : q = Upto(p, k)
           /\ \A k \in 0..m : /\ Upto(p, k) \in DOMAIN WalkPaths(p, m)
                              /\ WalkPaths(p, m)[Upto(p, k)] = WalkInode(p, k)
           /\ \A j, k \in 0..m : WalkInode(p, j) = WalkInode(p, k) => j = k
<1> DEFINE qs == WalkPaths(p, m)
<1>1. /\ DOMAIN qs = DOMAIN path_to_inode \cup {Upto(p, k) : k \in Missing(p, m)}
      /\ \A q \in DOMAIN path_to_inode : qs[q] = path_to_inode[q]
      /\ \A k \in Missing(p, m) : qs[Upto(p, k)] = WalkInode(p, k)
  BY WalkPathsAre
<1>2. \A q, r \in DOMAIN qs : qs[q] = qs[r] => q = r
  BY WalkGood DEF Good
<1> HIDE DEF qs
<1>3. \A k \in 0..m : k \in 0..Len(p) /\ (k # 0 => k \in 1..m)
  BY PathIs
<1>4. ASSUME NEW k \in 0..m
      PROVE  Upto(p, k) \in DOMAIN qs /\ qs[Upto(p, k)] = WalkInode(p, k)
  <2>1. CASE k = 0
    <3>1. Upto(p, k) = Root /\ Root \in DOMAIN path_to_inode /\ path_to_inode[Root] = ROOT_INODE
      BY <1>3, <2>1, UptoIs, TreeInvIsGood DEF Good
    <3> QED
      BY <1>1, <2>1, <3>1 DEF WalkInode
  <2>2. CASE k # 0
    <3>1. CASE Known(Upto(p, k))
      BY <1>1, <2>2, <3>1 DEF WalkInode, Known
    <3>2. CASE ~Known(Upto(p, k))
      <4>1. k \in Missing(p, m)
        BY <1>3, <2>2, <3>2 DEF Missing
      <4> QED
        BY <1>1, <4>1
    <3> QED
      BY <3>1, <3>2
  <2> QED
    BY <2>1, <2>2
<1>5. ASSUME NEW j \in 0..m, NEW k \in 0..m, WalkInode(p, j) = WalkInode(p, k)
      PROVE  j = k
  <2>1. Upto(p, j) = Upto(p, k)
    BY <1>2, <1>4, <1>5
  <2>2. Len(Upto(p, j)) = j /\ Len(Upto(p, k)) = k
    BY <1>3, UptoIs
  <2> QED
    BY <2>1, <2>2
<1> QED
  BY <1>1, <1>4, <1>5 DEF qs

\* What the walk leaves of a node: a directory it goes on from has the next one
\* as a child more.
Walked(node, base, i, p, m) ==
    /\ node.kind = base.kind /\ node.name = base.name
    /\ base.kind # "dir" => node = base
    /\ base.kind = "dir" => node.parent = base.parent
    /\ (\A k \in Missing(p, m) : WalkInode(p, k - 1) # i) => node = base
    /\ base.kind = "dir" =>
         \A k \in Missing(p, m) : WalkInode(p, k - 1) = i =>
            node.children = Insert(base.children, p[k], WalkInode(p, k))

LEMMA WalkedNodes ==
    ASSUME TreeInv, NEW p \in PathSet, NEW m \in 0..Len(p)
    PROVE  /\ \A i \in DOMAIN nodes : Walked(WalkNodes(p, m)[i], nodes[i], i, p, m)
           /\ \A j \in Missing(p, m) :
                Walked(WalkNodes(p, m)[WalkInode(p, j)],
                       DirNode(WalkInode(p, j - 1), p[j], EmptyMap), WalkInode(p, j), p, m)
<1> DEFINE made == {WalkInode(p, k) : k \in Missing(p, m)}
           node(i) == IF i \in DOMAIN nodes THEN nodes[i]
                      ELSE LET k == CHOOSE k \in Missing(p, m) : WalkInode(p, k) = i
                           IN  DirNode(WalkInode(p, k - 1), p[k], EmptyMap)
           entered(i) == {k \in Missing(p, m) : WalkInode(p, k - 1) = i}
           pick(i) == CHOOSE k \in entered(i) : TRUE
           ms == WalkNodes(p, m)
<1>1. DOMAIN ms = DOMAIN nodes \cup made
  BY DEF WalkNodes
<1>2. \A k \in Missing(p, m) : k \in 0..m /\ k - 1 \in 0..m /\ k \in Int
  BY PathIs DEF Missing
<1>3. \A i \in DOMAIN ms :
        ms[i] = IF node(i).kind = "dir" /\ entered(i) # {}
                THEN [node(i) EXCEPT !.children = Insert(@, p[pick(i)], WalkInode(p, pick(i)))]
                ELSE node(i)
  BY <1>1 DEF WalkNodes
<1>4. ASSUME NEW i \in DOMAIN ms, NEW base, base = node(i),
             base.kind = "dir" => base = DirNode(base.parent, base.name, base.children)
      PROVE  Walked(ms[i], base, i, p, m)
  <2>1. CASE base.kind = "dir" /\ entered(i) # {}
    <3> SUFFICES ASSUME NEW k, k = pick(i), NEW x, x = WalkInode(p, k)
                 PROVE  Walked(ms[i], base, i, p, m)
      OBVIOUS
    <3>1. k \in entered(i)
      BY <2>1
    <3>2. \A j \in Missing(p, m) : WalkInode(p, j - 1) = i => j = k
      <4>1. \A j \in Missing(p, m) : WalkInode(p, j - 1) = WalkInode(p, k - 1) => j - 1 = k - 1
        BY <1>2, <3>1, WalkStands
      <4>2. \A j \in Missing(p, m) : j - 1 = k - 1 => j = k
        BY <1>2, <3>1
      <4> QED
        BY <3>1, <4>1, <4>2
    <3>3. k \in Missing(p, m) /\ WalkInode(p, k - 1) = i
      BY <3>1
    <3>4. ms[i] = [base EXCEPT !.children = Insert(@, p[k], x)]
      BY <1>3, <1>4, <2>1
    <3> HIDE DEF entered, node, pick, ms
    <3>5. /\ ms[i].kind = "dir" /\ ms[i].name = base.name /\ ms[i].parent = base.parent
          /\ ms[i].children = Insert(base.children, p[k], x)
      BY <1>4, <2>1, <3>4 DEF DirNode
    <3> QED
      BY <2>1, <3>2, <3>3, <3>5 DEF Walked
  <2>2. CASE ~(base.kind = "dir" /\ entered(i) # {})
    <3>1. ms[i] = base
      BY <1>3, <1>4, <2>2
    <3>2. base.kind = "dir" => \A k \in Missing(p, m) : WalkInode(p, k - 1) # i
      BY <2>2
    <3> QED
      BY <3>1, <3>2 DEF Walked
  <2> QED
    BY <2>1, <2>2
<1>5. ASSUME NEW i \in DOMAIN nodes
      PROVE  Walked(ms[i], nodes[i], i, p, m)
  <2>1. NodeOK(nodes[i]) /\ node(i) = nodes[i] /\ i \in DOMAIN ms
    BY <1>1, <1>5 DEF TreeInv, TypeOK
  <2>2. nodes[i].kind = "dir" =>
          nodes[i] = DirNode(nodes[i].parent, nodes[i].name, nodes[i].children)
    BY <2>1 DEF NodeOK, FileNode
  <2> HIDE DEF node, ms
  <2> QED
    BY <1>4, <2>1, <2>2
<1>6. ASSUME NEW j \in Missing(p, m)
      PROVE  Walked(ms[WalkInode(p, j)], DirNode(WalkInode(p, j - 1), p[j], EmptyMap),
                    WalkInode(p, j), p, m)
  <2> SUFFICES ASSUME NEW i, i = WalkInode(p, j),
                      NEW base, base = DirNode(WalkInode(p, j - 1), p[j], EmptyMap)
               PROVE  Walked(ms[i], base, i, p, m)
    OBVIOUS
  <2>1. i \in DOMAIN ms
    BY <1>1
  <2>2. i \notin DOMAIN nodes
    <3>1. i \in Inode /\ next_inode <= i
      BY WalkInodes
    <3>2. next_inode \in Inode /\ \A k \in DOMAIN nodes : k \in Inode /\ k < next_inode
      BY DEF TreeInv, TypeOK
    <3> QED
      BY <3>1, <3>2 DEF Inode
  <2>3. (CHOOSE k \in Missing(p, m) : WalkInode(p, k) = i) = j
    BY <1>2, WalkStands
  <2>4. node(i) = base
    BY <2>2, <2>3
  <2>5. base = DirNode(base.parent, base.name, base.children)
    BY DEF DirNode
  <2> HIDE DEF node, ms
  <2> QED
    BY <1>4, <2>1, <2>4, <2>5
<1> QED
  BY <1>5, <1>6

\* The walk keeps the views, makes directories of the missing ancestors, and
\* ends in a directory.
LEMMA WalkViews ==
    ASSUME TreeInv, NEW DN, NEW FN, PlainNames(DN, FN),
           Views(nodes, path_to_inode, DN, FN), NEW p \in PathSet, NEW m \in 0..Len(p),
           \A i \in 1..m : p[i] \in DN
    PROVE  /\ Views(WalkNodes(p, m), WalkPaths(p, m), DN, FN)
           /\ IsDirIn(WalkNodes(p, m), WalkInode(p, m))
           /\ \A q \in DOMAIN WalkPaths(p, m) :
                Entry(WalkNodes(p, m)[WalkPaths(p, m)[q]]) =
                  IF Known(q) THEN Entry(nodes[path_to_inode[q]]) ELSE [kind |-> "dir"]
<1> DEFINE ms == WalkNodes(p, m)
           qs == WalkPaths(p, m)
           W(k) == WalkInode(p, k)
           M == Missing(p, m)
           U(k) == Upto(p, k)
<1>1. Good(nodes, path_to_inode, next_inode) /\ Good(ms, qs, AfterWalk(p, m))
  BY TreeInvIsGood, WalkGood
<1>2. /\ \A q \in DOMAIN path_to_inode : q \in DOMAIN qs /\ qs[q] = path_to_inode[q]
      /\ \A q \in DOMAIN qs : Known(q) \/ \E k \in M : q = U(k)
      /\ \A k \in 0..m : U(k) \in DOMAIN qs /\ qs[U(k)] = W(k)
      /\ \A j, k \in 0..m : W(j) = W(k) => j = k
  <2>1. \A q \in DOMAIN path_to_inode : q \in DOMAIN qs /\ qs[q] = path_to_inode[q]
    BY WalkPathsAre
  <2>2. \A q \in DOMAIN qs : Known(q) \/ \E k \in M : q = U(k)
    BY WalkStands DEF Known
  <2> QED
    BY <2>1, <2>2, WalkStands
<1>3. \A k \in 0..m : /\ U(k) \in PathSet /\ Len(U(k)) = k
                      /\ \A i \in 1..k : U(k)[i] = p[i]
                      /\ k = 0 => U(k) = Root
  BY UptoIs, PathIs
<1>4. \A k \in M : k \in 1..m /\ k \in 0..m /\ k - 1 \in 0..m /\ ~Known(U(k))
  BY PathIs DEF Missing
<1>5. \A k \in 1..m : /\ U(k) # Root /\ Parent(U(k)) = U(k - 1) /\ NameOf(U(k)) = p[k]
                      /\ p[k] \in DN /\ Append(U(k - 1), p[k]) = U(k)
  <2>1. ASSUME NEW k \in 1..m
        PROVE  U(k) # Root /\ Parent(U(k)) = U(k - 1) /\ NameOf(U(k)) = p[k]
    <3> SUFFICES ASSUME NEW r, r = U(k), NEW s, s = U(k - 1)
                 PROVE  r # Root /\ Parent(r) = s /\ NameOf(r) = p[k]
      OBVIOUS
    <3>1. k \in 0..m /\ k - 1 \in 0..m /\ k # 0 /\ k \in 1..k /\ m \in Nat
          /\ \A i \in 1..k - 1 : i \in 1..k
      BY PathIs
    <3>2. /\ r \in PathSet /\ s \in PathSet /\ Len(r) = k /\ Len(s) = k - 1
          /\ \A i \in 1..k : r[i] = p[i]
          /\ \A i \in 1..k - 1 : s[i] = p[i]
      BY <1>3, <3>1
    <3>3. r # Root
      BY <3>1, <3>2, RootIsShort
    <3>4. /\ Parent(r) \in PathSet /\ Len(Parent(r)) = k - 1
          /\ \A i \in 1..k - 1 : Parent(r)[i] = r[i]
      BY <3>2, <3>3, ParentIs
    <3>5. Parent(r) = s
      BY <3>1, <3>2, <3>4, SamePath
    <3> QED
      BY <3>1, <3>2, <3>3, <3>5 DEF NameOf
  <2> QED
    <3>1. \A k \in 1..m : k \in 0..m
      BY PathIs
    <3> HIDE DEF U
    <3> QED
      BY <1>3, <2>1, <3>1, ParentIs
<1>6. /\ \A i \in DOMAIN nodes : Walked(ms[i], nodes[i], i, p, m)
      /\ \A j \in M : Walked(ms[W(j)], DirNode(W(j - 1), p[j], EmptyMap), W(j), p, m)
  BY WalkedNodes
<1> HIDE DEF ms, qs, W, U, M
<1>7. /\ DOMAIN path_to_inode \subseteq PathSet
      /\ \A q \in DOMAIN path_to_inode : path_to_inode[q] \in DOMAIN nodes
      /\ NodesOK(nodes) /\ Root \in DOMAIN path_to_inode /\ IsDirIn(nodes, path_to_inode[Root])
      /\ \A q, r \in DOMAIN qs : qs[q] = qs[r] => q = r
      /\ DOMAIN qs \subseteq PathSet /\ \A q \in DOMAIN qs : qs[q] \in DOMAIN ms
  BY <1>1 DEF Good
\* The node of a known path, and that of a path made.
<1>8. ASSUME NEW q \in DOMAIN path_to_inode
      PROVE  Walked(ms[qs[q]], nodes[path_to_inode[q]], qs[q], p, m)
  BY <1>2, <1>6, <1>7
<1>9. ASSUME NEW k \in M
      PROVE  Walked(ms[qs[U(k)]], DirNode(W(k - 1), p[k], EmptyMap), qs[U(k)], p, m)
  BY <1>2, <1>4, <1>6
<1>10. /\ \A q \in DOMAIN path_to_inode :
            IsDirIn(ms, qs[q]) <=> IsDirIn(nodes, path_to_inode[q])
       /\ \A k \in M : IsDirIn(ms, qs[U(k)])
  BY <1>2, <1>4, <1>7, <1>8, <1>9 DEF IsDirIn, Walked, DirNode
<1>11. \A k \in 0..m : IsDirIn(ms, W(k))
  <2>1. ASSUME NEW k \in 0..m, Known(U(k)), k # 0
        PROVE  IsDirIn(nodes, path_to_inode[U(k)])
    <3>1. k \in 1..m /\ k \in 1..k
      BY <2>1
    <3>2. p[k] \in DN /\ U(k)[Len(U(k))] = p[k]
      BY <1>3, <1>5, <3>1
    <3>3. ~FileNamed(U(k), DN, FN)
      BY <3>2 DEF PlainNames, FileNamed
    <3> QED
      BY <2>1, <3>3 DEF Views, NamedWell, Known
  <2>2. ASSUME NEW k \in 0..m
        PROVE  IsDirIn(ms, qs[U(k)])
    <3>1. CASE k = 0
      BY <1>3, <1>7, <1>10, <3>1
    <3>2. CASE k # 0 /\ Known(U(k))
      BY <1>10, <2>1, <3>2 DEF Known
    <3>3. CASE k # 0 /\ ~Known(U(k))
      <4>1. k \in M
        BY <3>3 DEF M, Missing, U
      <4> QED
        BY <1>10, <4>1
    <3> QED
      BY <3>1, <3>2, <3>3
  <2> QED
    BY <1>2, <2>2
<1>12. Closed(qs)
  <2>1. ASSUME NEW q \in DOMAIN path_to_inode, NEW k \in 0..Len(q)
        PROVE  Upto(q, k) \in DOMAIN qs
    BY <1>2 DEF Views, Closed
  <2>2. ASSUME NEW j \in M, NEW k \in 0..Len(U(j))
        PROVE  Upto(U(j), k) \in DOMAIN qs
    <3> SUFFICES ASSUME NEW r, r = U(j)
                 PROVE  Upto(r, k) \in DOMAIN qs
      OBVIOUS
    <3>1. r \in PathSet /\ Len(r) = j /\ j \in 1..m /\ \A i \in 1..j : r[i] = p[i]
      BY <1>3, <1>4
    <3>2. k \in 0..j /\ k \in 0..m /\ \A i \in 1..k : i \in 1..j
      BY <2>2, <3>1, PathIs
    <3>3. /\ Upto(r, k) \in PathSet /\ Len(Upto(r, k)) = k
          /\ \A i \in 1..k : Upto(r, k)[i] = r[i]
      BY <3>1, <3>2, UptoIs
    <3>4. Upto(r, k) = U(k)
      BY <1>3, <3>1, <3>2, <3>3, SamePath
    <3> QED
      BY <1>2, <3>2, <3>4
  <2> QED
    BY <1>2, <2>1, <2>2 DEF Closed, Known
<1>13. NamedWell(ms, qs, DN, FN)
  <2>1. ASSUME NEW q \in DOMAIN path_to_inode
        PROVE  /\ IsDirIn(ms, qs[q]) => DirNamed(q, DN)
               /\ ~IsDirIn(ms, qs[q]) => FileNamed(q, DN, FN)
    BY <1>10 DEF Views, NamedWell
  <2>2. ASSUME NEW k \in M
        PROVE  DirNamed(U(k), DN)
    <3>1. Len(U(k)) = k /\ \A i \in 1..k : i \in 1..m /\ U(k)[i] = p[i]
      BY <1>3, <1>4, PathIs
    <3> QED
      BY <1>5, <3>1 DEF DirNamed
  <2> QED
    BY <1>2, <1>10, <2>1, <2>2 DEF NamedWell, Known
<1>14. ASSUME NEW q \in DOMAIN path_to_inode \ {Root}
       PROVE  /\ Parent(q) \in DOMAIN path_to_inode
              /\ IsDirIn(nodes, path_to_inode[Parent(q)]) /\ IsDirIn(ms, qs[Parent(q)])
              /\ q \in PathSet
  BY <1>1, <1>10, KnownParent
<1>15. Nested(ms, qs)
  <2>1. ASSUME NEW q \in DOMAIN path_to_inode \ {Root}
        PROVE  /\ IsDirIn(ms, qs[Parent(q)])
               /\ ms[qs[q]].name = NameOf(q)
               /\ ms[qs[q]].kind = "dir" => ms[qs[q]].parent = qs[Parent(q)]
    <3>1. /\ nodes[path_to_inode[q]].name = NameOf(q)
          /\ nodes[path_to_inode[q]].kind = "dir" =>
               nodes[path_to_inode[q]].parent = path_to_inode[Parent(q)]
      BY DEF Views, Nested
    <3> QED
      BY <1>2, <1>8, <1>14, <3>1 DEF Walked
  <2>2. ASSUME NEW k \in M
        PROVE  /\ IsDirIn(ms, qs[Parent(U(k))])
               /\ ms[qs[U(k)]].name = NameOf(U(k))
               /\ ms[qs[U(k)]].parent = qs[Parent(U(k))]
    <3>1. Parent(U(k)) = U(k - 1) /\ NameOf(U(k)) = p[k] /\ k - 1 \in 0..m
      BY <1>4, <1>5
    <3>2. qs[U(k - 1)] = W(k - 1) /\ IsDirIn(ms, W(k - 1))
      BY <1>2, <1>11, <3>1
    <3>3. ms[qs[U(k)]].name = p[k] /\ ms[qs[U(k)]].parent = W(k - 1)
      BY <1>9 DEF Walked, DirNode
    <3> QED
      BY <3>1, <3>2, <3>3
  <2> QED
    BY <1>2, <2>1, <2>2 DEF Nested, Known
<1>16. Listed(ms, qs)
  <2>1. ASSUME NEW q \in DOMAIN qs, IsDirIn(ms, qs[q])
        PROVE  \E base : /\ base.kind = "dir" /\ Walked(ms[qs[q]], base, qs[q], p, m)
                         /\ Lists(base.children, path_to_inode, q)
    <3>1. CASE Known(q)
      <4>1. Lists(nodes[path_to_inode[q]].children, path_to_inode, q)
        BY <1>10, <2>1, <3>1 DEF Views, Listed, Known
      <4>2. nodes[path_to_inode[q]].kind = "dir"
        BY <1>10, <2>1, <3>1 DEF IsDirIn, Known
      <4> QED
        BY <1>8, <3>1, <4>1, <4>2 DEF Known
    <3>2. CASE ~Known(q)
      <4>1. PICK k \in M : q = U(k)
        BY <1>2, <3>2
      <4> SUFFICES ASSUME NEW base, base = DirNode(W(k - 1), p[k], EmptyMap)
                   PROVE  /\ base.kind = "dir" /\ Walked(ms[qs[q]], base, qs[q], p, m)
                          /\ Lists(base.children, path_to_inode, q)
        OBVIOUS
      <4>2. base.kind = "dir" /\ base.children = EmptyMap
        BY DEF DirNode
      <4>3. \A r \in DOMAIN path_to_inode \ {Root} : Parent(r) # q
        BY <1>14, <3>2 DEF Known
      <4>4. Lists(EmptyMap, path_to_inode, q)
        BY <4>3 DEF Lists, EmptyMap
      <4> QED
        BY <1>9, <4>1, <4>2, <4>4
    <3> QED
      BY <3>1, <3>2
  <2>2. ASSUME NEW q \in DOMAIN qs, IsDirIn(ms, qs[q])
        PROVE  Lists(ms[qs[q]].children, qs, q)
    <3>1. PICK base : /\ base.kind = "dir" /\ Walked(ms[qs[q]], base, qs[q], p, m)
                      /\ Lists(base.children, path_to_inode, q)
      BY <2>1, <2>2
    <3> SUFFICES ASSUME NEW ch, ch = base.children, NEW dh, dh = ms[qs[q]].children
                 PROVE  Lists(dh, qs, q)
      OBVIOUS
    <3>2. /\ \A n \in DOMAIN ch : Append(q, n) \in DOMAIN qs /\ ch[n] = qs[Append(q, n)]
          /\ \A r \in DOMAIN path_to_inode \ {Root} : Parent(r) = q => NameOf(r) \in DOMAIN ch
      BY <1>2, <3>1 DEF Lists
    <3>3. CASE \E k \in M : W(k - 1) = qs[q]
      <4>1. PICK k \in M : W(k - 1) = qs[q]
        BY <3>3
      <4>2. q = U(k - 1) /\ k \in 1..m
        BY <1>2, <1>4, <1>7, <4>1
      <4>3. dh = Insert(ch, p[k], W(k))
        BY <3>1, <4>1 DEF Walked, M, W
      <4>4. Append(q, p[k]) = U(k) /\ U(k) \in DOMAIN qs /\ qs[U(k)] = W(k)
        BY <1>2, <1>4, <1>5, <4>2
      <4>5. DOMAIN dh = DOMAIN ch \cup {p[k]} /\ dh[p[k]] = W(k)
            /\ \A n \in DOMAIN ch : n # p[k] => dh[n] = ch[n]
        BY <4>3 DEF Insert
      <4>6. ASSUME NEW j \in M, Parent(U(j)) = q
            PROVE  NameOf(U(j)) \in DOMAIN dh
        <5>1. U(j - 1) = U(k - 1) /\ j \in 1..m /\ NameOf(U(j)) = p[j]
          BY <1>4, <1>5, <4>2, <4>6
        <5>2. W(j - 1) = W(k - 1)
          BY <1>2, <1>4, <5>1
        <5>3. j - 1 = k - 1
          BY <1>2, <1>4, <5>2
        <5>4. j = k
          BY <4>2, <5>1, <5>3, PathIs
        <5> QED
          BY <4>5, <5>1, <5>4
      <4>7. \A n \in DOMAIN dh : Append(q, n) \in DOMAIN qs /\ dh[n] = qs[Append(q, n)]
        BY <3>2, <4>4, <4>5
      <4>8. ASSUME NEW r \in DOMAIN qs \ {Root}, Parent(r) = q
            PROVE  NameOf(r) \in DOMAIN dh
        <5>1. CASE Known(r)
          BY <3>2, <4>5, <4>8, <5>1 DEF Known
        <5>2. CASE ~Known(r)
          BY <1>2, <4>6, <4>8, <5>2
        <5> QED
          BY <5>1, <5>2
      <4> QED
        BY <4>7, <4>8 DEF Lists
    <3>4. CASE \A k \in M : W(k - 1) # qs[q]
      <4>1. ms[qs[q]] = base
        BY <3>1, <3>4 DEF Walked, M, W
      <4>2. \A j \in M : Parent(U(j)) # q
        BY <1>2, <1>4, <1>5, <3>4
      <4> QED
        BY <1>2, <3>2, <4>1, <4>2 DEF Lists, Known
    <3> QED
      BY <3>3, <3>4
  <2> QED
    BY <2>2 DEF Listed
<1>17. ASSUME NEW q \in DOMAIN qs
       PROVE  Entry(ms[qs[q]]) =
                IF Known(q) THEN Entry(nodes[path_to_inode[q]]) ELSE [kind |-> "dir"]
  <2>1. CASE Known(q)
    BY <1>8, <2>1 DEF Known, Walked, Entry
  <2>2. CASE ~Known(q)
    <3>1. PICK k \in M : q = U(k)
      BY <1>2, <2>2
    <3>2. ms[qs[q]].kind = "dir"
      BY <1>9, <3>1 DEF Walked, DirNode
    <3> QED
      BY <2>2, <3>2 DEF Entry
  <2> QED
    BY <2>1, <2>2
<1>18. IsDirIn(ms, W(m))
  BY <1>11, PathIs
<1> QED
  BY <1>12, <1>13, <1>15, <1>16, <1>17, <1>18 DEF Views, ms, qs, W

----------------------------------------------------------------------------
(* Every operation keeps the views and does what Namespace says.           *)

\* A path with the name of a directory is one, of a file is none.
LEMMA KindIs ==
    ASSUME NEW DN, NEW FN, PlainNames(DN, FN), NEW ns, NEW paths,
           NamedWell(ns, paths, DN, FN), NEW p \in DOMAIN paths, p \in PathSet \ {Root}
    PROVE  /\ FileNamed(p, DN, FN) => ~IsDirIn(ns, paths[p])
           /\ DirNamed(p, DN) => IsDirIn(ns, paths[p])
<1>1. Len(p) \in 1..Len(p)
  BY ParentIs
<1>2. ~(DirNamed(p, DN) /\ FileNamed(p, DN, FN))
  BY <1>1 DEF PlainNames, DirNamed, FileNamed
<1> QED
  BY <1>2 DEF NamedWell

\* What the namespace makes of a tree.
LEMMA ResolvedIs ==
    ASSUME TreeInv
    PROVE  /\ DOMAIN Resolved = DOMAIN path_to_inode
           /\ \A q \in DOMAIN path_to_inode :
                /\ Resolved[q] = Entry(nodes[path_to_inode[q]])
                /\ Resolved[q] = Abstract!Dir <=> IsDir(path_to_inode[q])
<1>1. /\ DOMAIN Resolved = DOMAIN path_to_inode
      /\ \A q \in DOMAIN path_to_inode : Resolved[q] = Entry(nodes[path_to_inode[q]])
  BY DEF Resolved, Entry
<1>2. \A node : Entry(node) = [kind |-> "dir"] <=> node.kind = "dir"
  <2>1. ASSUME NEW id
        PROVE  [kind |-> "file", id |-> id] # [kind |-> "dir"]
    <3>1. [kind |-> "file", id |-> id].kind # [kind |-> "dir"].kind
      OBVIOUS
    <3> QED
      BY <3>1
  <2> QED
    BY <2>1 DEF Entry
<1>3. \A q \in DOMAIN path_to_inode : path_to_inode[q] \in DOMAIN nodes
  BY TreeInvIsGood DEF Good
<1> QED
  BY <1>1, <1>2, <1>3 DEF IsDir, IsDirIn, Abstract!Dir

LEMMA ResolvedNext ==
    /\ DOMAIN Resolved' = DOMAIN path_to_inode'
    /\ Resolved' = [q \in DOMAIN path_to_inode' |-> Entry(nodes'[path_to_inode'[q]])]
BY DEF Resolved, Entry

\* The ancestors that the walk makes are the absent ones.
LEMMA AbsentIs ==
    ASSUME TreeInv, NEW p \in PathSet, NEW m \in 0..Len(p), NEW d \in PathSet, d = Upto(p, m)
    PROVE  DOMAIN WalkPaths(p, m) = DOMAIN path_to_inode \cup Abstract!Absent(d)
<1>1. Len(d) = m /\ m \in Nat /\ Len(p) \in Nat
  BY UptoIs, PathIs
<1>2. ASSUME NEW k \in 1..m
      PROVE  Upto(d, k) = Upto(p, k)
  <2>1. k \in 0..Len(d) /\ k \in 0..Len(p) /\ \A i \in 1..k : i \in 1..m
    BY <1>1
  <2>2. \A i \in 1..m : d[i] = p[i]
    BY UptoIs
  <2> QED
    BY <2>1, <2>2, UptoIs, SamePath
<1>3. Abstract!Absent(d) = {Upto(p, k) : k \in 1..m} \ DOMAIN path_to_inode
  <2>1. {Upto(d, k) : k \in 1..m} = {Upto(p, k) : k \in 1..m}
    BY <1>2
  <2>2. Abstract!Absent(d) = {Upto(d, k) : k \in 1..m} \ DOMAIN path_to_inode
    BY <1>1, ResolvedIs DEF Abstract!Absent, Abstract!Upto, Upto
  <2> QED
    BY <2>1, <2>2
<1>4. DOMAIN WalkPaths(p, m) = DOMAIN path_to_inode \cup {Upto(p, k) : k \in Missing(p, m)}
  BY WalkPathsAre
<1>5. \A k \in 1..m : k \in Missing(p, m) <=> Upto(p, k) \notin DOMAIN path_to_inode
  BY DEF Missing, Known
<1>6. \A k \in Missing(p, m) : k \in 1..m
  BY DEF Missing
<1> QED
  BY <1>3, <1>4, <1>5, <1>6

\* insert_file.
LEMMA InsertFileViews ==
    ASSUME TreeInv, NEW DN, NEW FN, PlainNames(DN, FN),
           Views(nodes, path_to_inode, DN, FN),
           NEW p \in FilePaths, NEW id \in FileIds, InsertFile(p, id)
    PROVE  Views(nodes', path_to_inode', DN, FN) /\ Abstract!AddFile(p, id)
<1> SUFFICES ASSUME NEW m, m = Len(p) - 1, NEW inode, inode = AfterWalk(p, m),
                    NEW ns, ns = WalkNodes(p, m), NEW paths, paths = WalkPaths(p, m),
                    NEW node, node = FileNode(NameOf(p), id)
             PROVE  Views(nodes', path_to_inode', DN, FN) /\ Abstract!AddFile(p, id)
  OBVIOUS
<1>1. /\ p \in PathSet \ {Root} /\ p \in PathSet /\ m \in 0..Len(p) /\ m \in 0..m
      /\ Parent(p) = Upto(p, m) /\ NameOf(p) \in Names /\ Parent(p) \in PathSet
  BY Arguments, ParentIs
<1>2. FileNamed(p, DN, FN) /\ \A i \in 1..m : p[i] \in DN
  BY DEF PlainNames, FileNamed
<1>3. Good(ns, paths, inode)
  BY <1>1, WalkGood
<1>4. /\ Views(ns, paths, DN, FN) /\ IsDirIn(ns, WalkInode(p, m))
      /\ \A q \in DOMAIN paths :
           Entry(ns[paths[q]]) =
             IF Known(q) THEN Entry(nodes[path_to_inode[q]]) ELSE [kind |-> "dir"]
  BY <1>1, <1>2, WalkViews
<1>5. Parent(p) \in DOMAIN paths /\ paths[Parent(p)] = WalkInode(p, m)
  BY <1>1, WalkStands
<1>6. p \in DOMAIN paths => ~IsDirIn(ns, paths[p])
  BY <1>1, <1>2, <1>4, KindIs DEF Views
<1>7. inode \notin DOMAIN ns
  BY <1>3 DEF Good, Inode
<1>8. /\ NodeOK(node) /\ node.name = NameOf(p) /\ node.kind # "dir"
      /\ Entry(node) = Abstract!File(id)
  BY <1>1, FileNodeOK DEF FileNode, Entry, Abstract!File
<1>9. /\ nodes' = WithChild(Insert(ns, inode, node), paths[Parent(p)], NameOf(p), inode)
      /\ path_to_inode' = Insert(paths, p, inode)
  BY <1>5 DEF InsertFile
<1>10. Added(nodes', path_to_inode', ns, paths, p, node, DN, FN)
  <2> SUFFICES ASSUME NEW ms, ms = nodes', NEW qs, qs = path_to_inode'
               PROVE  Added(ms, qs, ns, paths, p, node, DN, FN)
    OBVIOUS
  <2> QED
    BY <1>1, <1>2, <1>3, <1>4, <1>5, <1>6, <1>7, <1>8, <1>9, AddViews
<1>11. DOMAIN paths = DOMAIN Resolved \cup Abstract!Absent(Parent(p))
  BY <1>1, AbsentIs, ResolvedIs
<1>12. \A q \in DOMAIN paths :
         Entry(ns[paths[q]]) = IF q \in DOMAIN Resolved THEN Resolved[q] ELSE Abstract!Dir
  BY <1>4, ResolvedIs DEF Known, Abstract!Dir
<1>13. Resolved' = Abstract!WithEntry(p, Abstract!File(id))
  <2>1. Abstract!WithDirs(Parent(p)) = [q \in DOMAIN paths |-> Entry(ns[paths[q]])]
    BY <1>11, <1>12 DEF Abstract!WithDirs, Abstract!Exists
  <2>2. Abstract!WithEntry(p, Abstract!File(id)) =
          [q \in DOMAIN paths \cup {p} |->
              IF q = p THEN Abstract!File(id) ELSE Entry(ns[paths[q]])]
    BY <2>1 DEF Abstract!WithEntry, Abstract!Parent, Parent
  <2> QED
    BY <1>8, <1>10, <2>2, ResolvedNext DEF Added
<1> QED
  BY <1>10, <1>13 DEF Added, Abstract!AddFile

\* mkdir and ensure_trash_dir: one directory in one that is there.
LEMMA NewDirViews ==
    ASSUME TreeInv, NEW DN, NEW FN, PlainNames(DN, FN),
           Views(nodes, path_to_inode, DN, FN),
           NEW p \in PathSet \ {Root}, DirNamed(p, DN), ~Known(p), ParentIsDir(p),
           NewDir(p, path_to_inode[Parent(p)])
    PROVE  Views(nodes', path_to_inode', DN, FN) /\ Abstract!MakeDir(p)
<1> SUFFICES ASSUME NEW inode, inode = next_inode, NEW d, d = path_to_inode[Parent(p)],
                    NEW node, node = DirNode(d, NameOf(p), EmptyMap)
             PROVE  Views(nodes', path_to_inode', DN, FN) /\ Abstract!MakeDir(p)
  OBVIOUS
<1>1. /\ NameOf(p) \in Names /\ Parent(p) \in PathSet /\ Parent(p) \in DOMAIN path_to_inode
      /\ IsDirIn(nodes, d) /\ p \notin DOMAIN path_to_inode
  BY ParentIs DEF ParentIsDir, Known, IsDir
<1>2. Good(nodes, path_to_inode, inode)
  BY TreeInvIsGood
<1>3. inode \notin DOMAIN nodes /\ d \in Inode
  BY <1>1, <1>2 DEF Good, Inode
<1>4. /\ NodeOK(node) /\ node.kind = "dir" /\ node.parent = d /\ node.name = NameOf(p)
      /\ node.children = EmptyMap /\ Entry(node) = Abstract!Dir
  BY <1>1, <1>3, DirNodeOK DEF DirNode, Entry, Abstract!Dir
<1>5. /\ nodes' = WithChild(Insert(nodes, inode, node), d, NameOf(p), inode)
      /\ path_to_inode' = Insert(path_to_inode, p, inode)
  BY DEF NewDir
<1>6. Added(nodes', path_to_inode', nodes, path_to_inode, p, node, DN, FN)
  <2> SUFFICES ASSUME NEW ms, ms = nodes', NEW qs, qs = path_to_inode'
               PROVE  Added(ms, qs, nodes, path_to_inode, p, node, DN, FN)
    OBVIOUS
  <2> QED
    BY <1>1, <1>2, <1>3, <1>4, <1>5, AddViews
<1>7. Abstract!Absent(Parent(p)) = {}
  <2>1. \A k \in 1..Len(Parent(p)) : Upto(Parent(p), k) \in DOMAIN path_to_inode
    <3>1. \A k \in 1..Len(Parent(p)) : k \in 0..Len(Parent(p))
      OBVIOUS
    <3> QED
      BY <1>1, <3>1 DEF Views, Closed
  <2> QED
    BY <2>1, ResolvedIs DEF Abstract!Absent, Abstract!Upto, Upto
<1>8. Abstract!WithDirs(Parent(p)) = [q \in DOMAIN path_to_inode |-> Resolved[q]]
  BY <1>7, ResolvedIs DEF Abstract!WithDirs, Abstract!Exists
<1>9. Abstract!WithEntry(p, Abstract!Dir) =
        [q \in DOMAIN path_to_inode \cup {p} |-> IF q = p THEN Abstract!Dir ELSE Resolved[q]]
  BY <1>8 DEF Abstract!WithEntry, Abstract!Parent, Parent
<1>10. Resolved' = Abstract!WithEntry(p, Abstract!Dir)
  BY <1>4, <1>6, <1>9, ResolvedIs, ResolvedNext DEF Added
<1>11. ~Abstract!Exists(p) /\ Abstract!IsDirectory(Parent(p))
  BY <1>1, ResolvedIs DEF Abstract!Exists, Abstract!IsDirectory, IsDir
<1> QED
  BY <1>6, <1>10, <1>11 DEF Added, Abstract!MakeDir, Abstract!Parent, Parent

\* mkdir_p.
LEMMA MkdirPViews ==
    ASSUME TreeInv, NEW DN, NEW FN, PlainNames(DN, FN),
           Views(nodes, path_to_inode, DN, FN), NEW p \in DirPaths, MkdirP(p)
    PROVE  Views(nodes', path_to_inode', DN, FN) /\ Abstract!MakeDirs(p)
<1>1. p \in PathSet /\ Len(p) \in 0..Len(p) /\ Upto(p, Len(p)) = p
  BY Arguments, ParentIs, UptoIs
<1>2. \A i \in 1..Len(p) : p[i] \in DN
  BY DEF PlainNames, DirNamed
<1>3. nodes' = WalkNodes(p, Len(p)) /\ path_to_inode' = WalkPaths(p, Len(p)) /\ ~Known(p)
  BY DEF MkdirP
<1>4. /\ Views(nodes', path_to_inode', DN, FN)
      /\ \A q \in DOMAIN path_to_inode' :
           Entry(nodes'[path_to_inode'[q]]) =
             IF Known(q) THEN Entry(nodes[path_to_inode[q]]) ELSE [kind |-> "dir"]
  BY <1>1, <1>2, <1>3, WalkViews
<1>5. DOMAIN path_to_inode' = DOMAIN path_to_inode \cup Abstract!Absent(p)
  BY <1>1, <1>3, AbsentIs
<1>6. Resolved' = Abstract!WithDirs(p)
  BY <1>4, <1>5, ResolvedIs, ResolvedNext
     DEF Abstract!WithDirs, Abstract!Exists, Abstract!Dir, Known
<1>7. ~Abstract!Exists(p)
  BY <1>3, ResolvedIs DEF Abstract!Exists, Known
<1> QED
  BY <1>4, <1>6, <1>7 DEF Abstract!MakeDirs

\* Paths dropped with their nodes, before or after the directory forgets them.
LEMMA RemoveViews ==
    ASSUME NEW ns, NEW paths, NEW next, Good(ns, paths, next), NEW DN, NEW FN,
           Views(ns, paths, DN, FN), NEW p \in DOMAIN paths \ {Root},
           NEW K, \A q \in DOMAIN paths : q \in K <=> Under(q, p),
           NEW I, \A i : i \in I <=> \E q \in DOMAIN paths : q \in K /\ paths[q] = i,
           NEW qs, qs = Remove(paths, K), NEW rs, rs = paths \/ rs = qs,
           NEW ms, \/ ms = WithoutChildAt(Remove(ns, I), rs, p)
                   \/ ms = Remove(WithoutChildAt(ns, rs, p), I)
    PROVE  Dropped(ms, qs, ns, paths, p, DN, FN)
<1> SUFFICES ASSUME NEW P, P = Parent(p), NEW d, d = paths[P], NEW n, n = NameOf(p)
             PROVE  Dropped(ms, qs, ns, paths, p, DN, FN)
  OBVIOUS
<1>1. /\ p \in PathSet \ {Root} /\ P \in DOMAIN paths /\ P \in PathSet /\ IsDirIn(ns, d)
  BY KnownParent
<1>2. /\ NodesOK(ns) /\ d \in DOMAIN ns
      /\ \A q \in DOMAIN paths : paths[q] \in DOMAIN ns
      /\ \A q, r \in DOMAIN paths : paths[q] = paths[r] => q = r
  BY <1>1 DEF Good
<1>3. ~Under(P, p)
  <2>1. Len(P) = Len(p) - 1 /\ Len(p) \in Nat
    BY <1>1, ParentIs
  <2>2. ~(Len(p) <= Len(P))
    BY <2>1
  <2> QED
    BY <1>1, <2>2, UnderIs
<1>4. d \notin I /\ P \in DOMAIN rs /\ rs[P] = d
  BY <1>1, <1>2, <1>3 DEF Remove
<1>5. /\ DOMAIN ms = DOMAIN ns \ I
      /\ \A i \in DOMAIN ms : i # d => ms[i] = ns[i]
      /\ ms[d] = DirNode(ns[d].parent, ns[d].name, Remove(ns[d].children, {n}))
  <2>1. CASE ms = WithoutChildAt(Remove(ns, I), rs, p)
    <3> SUFFICES ASSUME NEW left, left = Remove(ns, I)
                 PROVE  /\ DOMAIN ms = DOMAIN ns \ I
                        /\ \A i \in DOMAIN ms : i # d => ms[i] = ns[i]
                        /\ ms[d] = DirNode(ns[d].parent, ns[d].name, Remove(ns[d].children, {n}))
      OBVIOUS
    <3>1. DOMAIN left = DOMAIN ns \ I /\ \A i \in DOMAIN left : left[i] = ns[i]
      BY DEF Remove
    <3>2. NodesOK(left) /\ IsDirIn(left, d) /\ left[d] = ns[d]
      BY <1>1, <1>2, <1>4, <3>1 DEF NodesOK, IsDirIn
    <3>3. ms = WithoutChild(left, d, n)
      BY <1>4, <2>1 DEF WithoutChildAt
    <3>4. Forgot(ms, left, d, n)
      BY <3>2, <3>3, WithoutChildIs
    <3> QED
      BY <3>1, <3>2, <3>4 DEF Forgot
  <2>2. CASE ms = Remove(WithoutChildAt(ns, rs, p), I)
    <3> SUFFICES ASSUME NEW left, left = WithoutChildAt(ns, rs, p)
                 PROVE  /\ DOMAIN ms = DOMAIN ns \ I
                        /\ \A i \in DOMAIN ms : i # d => ms[i] = ns[i]
                        /\ ms[d] = DirNode(ns[d].parent, ns[d].name, Remove(ns[d].children, {n}))
      OBVIOUS
    <3>1. DOMAIN ms = DOMAIN left \ I /\ \A i \in DOMAIN ms : ms[i] = left[i]
      BY <2>2 DEF Remove
    <3>2. left = WithoutChild(ns, d, n)
      BY <1>4 DEF WithoutChildAt
    <3>3. Forgot(left, ns, d, n)
      BY <1>1, <1>2, <3>2, WithoutChildIs
    <3> QED
      BY <1>2, <1>4, <3>1, <3>3 DEF Forgot
  <2> QED
    BY <2>1, <2>2
<1>6. \A q \in DOMAIN qs : q \in DOMAIN paths /\ q \notin K /\ paths[q] \notin I
  BY <1>2 DEF Remove
<1>7. \A q \in DOMAIN qs :
        paths[q] \in DOMAIN ms /\ (q # P => ms[paths[q]] = ns[paths[q]])
  BY <1>1, <1>2, <1>5, <1>6
<1> QED
  BY <1>5, <1>7, DropViews

\* The namespace loses what the tree drops.
LEMMA WithoutIs ==
    ASSUME TreeInv, NEW p, NEW DN, NEW FN,
           Dropped(nodes', path_to_inode', nodes, path_to_inode, p, DN, FN),
           NEW K, \A q \in DOMAIN path_to_inode : q \in K <=> Under(q, p)
    PROVE  Resolved' = Abstract!Without(K)
<1>1. DOMAIN path_to_inode' = DOMAIN path_to_inode \ K
  BY DEF Dropped
<1>2. \A q \in DOMAIN path_to_inode' : Entry(nodes'[path_to_inode'[q]]) = Resolved[q]
  BY <1>1, ResolvedIs DEF Dropped
<1> QED
  BY <1>1, <1>2, ResolvedIs, ResolvedNext DEF Abstract!Without

\* remove_file: a file has nothing below it.
LEMMA RemoveFileViews ==
    ASSUME TreeInv, NEW DN, NEW FN, PlainNames(DN, FN),
           Views(nodes, path_to_inode, DN, FN), NEW p \in FilePaths, RemoveFile(p)
    PROVE  Views(nodes', path_to_inode', DN, FN) /\ Abstract!DeleteFile(p)
<1> SUFFICES ASSUME NEW K, K = {p}, NEW I, I = {path_to_inode[p]}
             PROVE  Views(nodes', path_to_inode', DN, FN) /\ Abstract!DeleteFile(p)
  OBVIOUS
<1>1. /\ p \in PathSet \ {Root} /\ p \in DOMAIN path_to_inode \ {Root}
      /\ Good(nodes, path_to_inode, next_inode)
  BY Arguments, TreeInvIsGood DEF RemoveFile, Known
<1>2. ~IsDirIn(nodes, path_to_inode[p])
  BY <1>1, KindIs DEF Views, PlainNames
<1>3. \A q \in DOMAIN path_to_inode : q \in K <=> Under(q, p)
  <2>1. ASSUME NEW q \in DOMAIN path_to_inode, Under(q, p)
        PROVE  q = p
    BY <1>1, <1>2, <2>1, BelowIs
  <2> QED
    BY <1>1, <2>1, UnderItself
<1>4. nodes[path_to_inode[p]].kind = "file"
  BY <1>1, <1>2 DEF Good, NodesOK, NodeOK, IsDirIn
<1>5. \A i : i \in I <=> \E q \in DOMAIN path_to_inode : q \in K /\ path_to_inode[q] = i
  BY <1>1
<1>6. /\ path_to_inode' = Remove(path_to_inode, K)
      /\ nodes' = WithoutChildAt(Remove(nodes, I), path_to_inode', p)
  BY <1>4 DEF RemoveFile
<1>7. Dropped(nodes', path_to_inode', nodes, path_to_inode, p, DN, FN)
  <2> SUFFICES ASSUME NEW ms, ms = nodes', NEW qs, qs = path_to_inode'
               PROVE  Dropped(ms, qs, nodes, path_to_inode, p, DN, FN)
    OBVIOUS
  <2> QED
    BY <1>1, <1>3, <1>5, <1>6, RemoveViews
<1>8. Resolved' = Abstract!Without({p})
  BY <1>3, <1>7, WithoutIs
<1>9. Abstract!IsFile(p)
  BY <1>1, <1>2, ResolvedIs DEF Abstract!IsFile, Abstract!Exists, IsDir
<1> QED
  BY <1>7, <1>8, <1>9 DEF Dropped, Abstract!DeleteFile

\* remove_directory: nor has a directory that lists nothing.
LEMMA RemoveDirectoryViews ==
    ASSUME TreeInv, NEW DN, NEW FN, PlainNames(DN, FN),
           Views(nodes, path_to_inode, DN, FN), NEW p \in DirPaths, RemoveDirectory(p)
    PROVE  Views(nodes', path_to_inode', DN, FN) /\ Abstract!DeleteDir(p)
<1> SUFFICES ASSUME NEW K, K = {p}, NEW I, I = {path_to_inode[p]}
             PROVE  Views(nodes', path_to_inode', DN, FN) /\ Abstract!DeleteDir(p)
  OBVIOUS
<1>1. /\ p \in PathSet \ {Root} /\ p \in DOMAIN path_to_inode \ {Root}
      /\ Good(nodes, path_to_inode, next_inode)
      /\ IsDir(path_to_inode[p]) /\ nodes[path_to_inode[p]].children = EmptyMap
  BY Arguments, TreeInvIsGood DEF RemoveDirectory, Known
<1>2. \A q \in DOMAIN path_to_inode : q \in K <=> Under(q, p)
  <2>1. ASSUME NEW q \in DOMAIN path_to_inode, Under(q, p)
        PROVE  q = p
    BY <1>1, <2>1, BelowIs
  <2> QED
    BY <1>1, <2>1, UnderItself
<1>3. \A i : i \in I <=> \E q \in DOMAIN path_to_inode : q \in K /\ path_to_inode[q] = i
  BY <1>1
<1>4. /\ path_to_inode' = Remove(path_to_inode, K)
      /\ nodes' = Remove(WithoutChildAt(nodes, path_to_inode, p), I)
  BY DEF RemoveDirectory
<1>5. Dropped(nodes', path_to_inode', nodes, path_to_inode, p, DN, FN)
  <2> SUFFICES ASSUME NEW ms, ms = nodes', NEW qs, qs = path_to_inode'
               PROVE  Dropped(ms, qs, nodes, path_to_inode, p, DN, FN)
    OBVIOUS
  <2> QED
    BY <1>1, <1>2, <1>3, <1>4, RemoveViews
<1>6. Resolved' = Abstract!Without({p})
  BY <1>2, <1>5, WithoutIs
<1>7. Abstract!IsDirectory(p)
  BY <1>1, ResolvedIs DEF Abstract!IsDirectory, Abstract!Exists
<1>8. Abstract!IsEmpty(p)
  BY <1>1, <1>2, ResolvedIs
     DEF Abstract!IsEmpty, Abstract!Below, Abstract!Under, Abstract!Upto, Under, Upto
<1> QED
  BY <1>5, <1>6, <1>7, <1>8 DEF Dropped, Abstract!DeleteDir

\* What is collected by the prefix is what lies below.
LEMMA MovedIsBelow ==
    ASSUME TreeInv, NEW DN, NEW FN, PlainNames(DN, FN),
           Views(nodes, path_to_inode, DN, FN), NEW old \in DirPaths
    PROVE  /\ \A q \in DOMAIN path_to_inode : q \in MovedPaths(old) <=> Under(q, old)
           /\ MovedPaths(old) = Abstract!Below(old)
           /\ MovedPaths(old) \subseteq DOMAIN path_to_inode
<1>1. old \in PathSet \ {Root} /\ DirNamed(old, DN)
  BY Arguments DEF PlainNames
<1>2. \A q \in DOMAIN path_to_inode : StartsWith(q, old) <=> Under(q, old)
  <2>1. ASSUME NEW q \in DOMAIN path_to_inode
        PROVE  q \in PathSet /\ (DirNamed(q, DN) \/ FileNamed(q, DN, FN))
    BY TreeInvIsGood DEF Good, Views, NamedWell
  <2> QED
    BY <1>1, <2>1, PrefixIsAncestor
<1> QED
  BY <1>2, ResolvedIs
     DEF MovedPaths, Abstract!Below, Abstract!Under, Abstract!Upto, Under, Upto

\* remove_directory_recursive.
LEMMA RemoveDirectoryRecursiveViews ==
    ASSUME TreeInv, NEW DN, NEW FN, PlainNames(DN, FN),
           Views(nodes, path_to_inode, DN, FN), NEW p \in DirPaths,
           RemoveDirectoryRecursive(p)
    PROVE  Views(nodes', path_to_inode', DN, FN) /\ Abstract!DeleteTree(p)
<1> SUFFICES ASSUME NEW K, K = MovedPaths(p), NEW I, I = {path_to_inode[q] : q \in K}
             PROVE  Views(nodes', path_to_inode', DN, FN) /\ Abstract!DeleteTree(p)
  OBVIOUS
<1>1. /\ p \in PathSet \ {Root} /\ p \in DOMAIN path_to_inode \ {Root}
      /\ Good(nodes, path_to_inode, next_inode) /\ IsDir(path_to_inode[p])
  BY Arguments, TreeInvIsGood DEF RemoveDirectoryRecursive, Known
<1>2. /\ \A q \in DOMAIN path_to_inode : q \in K <=> Under(q, p)
      /\ K = Abstract!Below(p) /\ K \subseteq DOMAIN path_to_inode
  BY MovedIsBelow
<1>3. \A i : i \in I <=> \E q \in DOMAIN path_to_inode : q \in K /\ path_to_inode[q] = i
  BY <1>2
<1>4. /\ path_to_inode' = Remove(path_to_inode, K)
      /\ nodes' = WithoutChildAt(Remove(nodes, I), path_to_inode', p)
  BY DEF RemoveDirectoryRecursive
<1>5. Dropped(nodes', path_to_inode', nodes, path_to_inode, p, DN, FN)
  <2> SUFFICES ASSUME NEW ms, ms = nodes', NEW qs, qs = path_to_inode'
               PROVE  Dropped(ms, qs, nodes, path_to_inode, p, DN, FN)
    OBVIOUS
  <2> QED
    BY <1>1, <1>2, <1>3, <1>4, RemoveViews
<1>6. Resolved' = Abstract!Without(K)
  BY <1>2, <1>5, WithoutIs
<1>7. Abstract!IsDirectory(p)
  BY <1>1, ResolvedIs DEF Abstract!IsDirectory, Abstract!Exists
<1> QED
  BY <1>2, <1>5, <1>6, <1>7 DEF Dropped, Abstract!DeleteTree

\* The root alone.
LEMMA RootViews ==
    ASSUME NEW ns, NEW paths, DOMAIN paths = {Root}, IsDirIn(ns, paths[Root]),
           ns[paths[Root]].children = EmptyMap, NEW DN, NEW FN
    PROVE  Views(ns, paths, DN, FN)
<1>1. Root \in PathSet /\ Len(Root) = 0
  BY RootIsShort
<1>2. \A k \in 0..Len(Root) : Upto(Root, k) = Root
  BY <1>1, UptoIs
<1>3. Closed(paths)
  BY <1>2 DEF Closed
<1>4. DirNamed(Root, DN)
  BY <1>1 DEF DirNamed
<1>5. Lists(EmptyMap, paths, Root)
  BY DEF Lists, EmptyMap
<1> QED
  BY <1>3, <1>4, <1>5 DEF Views, NamedWell, Nested, Listed

\* force_refresh.
LEMMA ForceRefreshViews ==
    ASSUME TreeInv, NEW DN, NEW FN, ForceRefresh
    PROVE  Views(nodes', path_to_inode', DN, FN) /\ Abstract!Clear
<1>1. /\ path_to_inode[Root] = ROOT_INODE /\ IsDirIn(nodes, ROOT_INODE) /\ NodesOK(nodes)
  BY TreeInvIsGood DEF Good
<1>2. nodes[ROOT_INODE] = DirNode(nodes[ROOT_INODE].parent, nodes[ROOT_INODE].name,
                                  nodes[ROOT_INODE].children)
  BY <1>1 DEF NodesOK, NodeOK, IsDirIn, FileNode
<1>3. [nodes[ROOT_INODE] EXCEPT !.children = EmptyMap] =
        DirNode(nodes[ROOT_INODE].parent, nodes[ROOT_INODE].name, EmptyMap)
  BY <1>2 DEF DirNode
<1>4. /\ DOMAIN path_to_inode' = {Root} /\ path_to_inode'[Root] = ROOT_INODE
      /\ IsDirIn(nodes', ROOT_INODE) /\ nodes'[ROOT_INODE].children = EmptyMap
      /\ nodes'[ROOT_INODE].kind = "dir"
  BY <1>1, <1>3 DEF ForceRefresh, DirNode, IsDirIn
<1>5. Views(nodes', path_to_inode', DN, FN)
  <2> SUFFICES ASSUME NEW ms, ms = nodes', NEW qs, qs = path_to_inode'
               PROVE  Views(ms, qs, DN, FN)
    OBVIOUS
  <2> QED
    BY <1>4, RootViews
<1>6. Resolved' = [q \in {Root} |-> [kind |-> "dir"]]
  BY <1>4, ResolvedNext DEF Entry
<1> QED
  BY <1>5, <1>6 DEF Abstract!Clear, Abstract!Root, Abstract!Dir, Root

\* with_policy.
LEMMA InitViews ==
    ASSUME Init, NEW DN, NEW FN
    PROVE  Views(nodes, path_to_inode, DN, FN) /\ Abstract!Init
<1>1. /\ DOMAIN path_to_inode = {Root} /\ path_to_inode[Root] = ROOT_INODE
      /\ IsDirIn(nodes, ROOT_INODE) /\ nodes[ROOT_INODE].children = EmptyMap
      /\ nodes[ROOT_INODE].kind = "dir"
  BY DEF Init, DirNode, IsDirIn
<1>2. Views(nodes, path_to_inode, DN, FN)
  BY <1>1, RootViews
<1>3. Resolved = [q \in {Root} |-> [kind |-> "dir"]]
  BY <1>1 DEF Resolved
<1> QED
  BY <1>2, <1>3 DEF Abstract!Init, Abstract!Root, Abstract!Dir, Root

\* The nodes after the node j left the directory a, as n, for b, as m.
HasMoved(ms, ns, a, n, b, m, j) ==
    /\ DOMAIN ms = DOMAIN ns
    /\ \A i \in DOMAIN ns :
         /\ ms[i].kind = ns[i].kind
         /\ ns[i].kind # "dir" => ms[i].file_id = ns[i].file_id
         /\ ms[i].name = IF i = j THEN m ELSE ns[i].name
         /\ ns[i].kind = "dir" =>
              /\ ms[i].parent = IF i = j THEN b ELSE ns[i].parent
              /\ ms[i].children = Rehomed(ns[i].children, i, a, n, b, m, j)

LEMMA MovedNodes ==
    ASSUME NEW ns, NodesOK(ns), NEW a, IsDirIn(ns, a), NEW b \in Inode, IsDirIn(ns, b),
           NEW j \in Inode, j \in DOMAIN ns, NEW n, NEW m \in Names,
           NEW left, left = WithoutChild(ns, a, n),
           NEW named, \/ ~IsDirIn(ns, j) /\ named = [left EXCEPT ![j].name = m]
                      \/ IsDirIn(ns, j) /\ named = [left EXCEPT ![j].name = m, ![j].parent = b],
           NEW ms, ms = WithChild(named, b, m, j)
    PROVE  HasMoved(ms, ns, a, n, b, m, j)
<1>1. Forgot(left, ns, a, n)
  BY WithoutChildIs
<1>2. /\ DOMAIN left = DOMAIN ns /\ a \in DOMAIN ns /\ ns[a].kind = "dir"
      /\ b \in DOMAIN ns /\ ns[b].kind = "dir"
      /\ \A i \in DOMAIN ns : i # a => left[i] = ns[i]
      /\ left[a].kind = "dir" /\ left[a].parent = ns[a].parent /\ left[a].name = ns[a].name
      /\ left[a].children = Remove(ns[a].children, {n})
  BY <1>1 DEF Forgot, DirNode, IsDirIn
<1>3. NodesOK(left) /\ j \in DOMAIN left /\ (IsDirIn(left, j) <=> IsDirIn(ns, j))
  BY <1>2, WithoutChildKeeps DEF IsDirIn
<1>4. NodesOK(named)
  <2>1. CASE ~IsDirIn(ns, j)
    <3>1. NodesOK([left EXCEPT ![j].name = m])
      BY <1>3, RenamedNode
    <3> QED
      BY <2>1, <3>1
  <2>2. CASE IsDirIn(ns, j)
    <3>1. NodesOK([left EXCEPT ![j].name = m, ![j].parent = b])
      BY <1>3, <2>2, RenamedNode
    <3> QED
      BY <2>2, <3>1
  <2> QED
    BY <2>1, <2>2
<1>5. /\ DOMAIN named = DOMAIN left /\ \A i \in DOMAIN left : i # j => named[i] = left[i]
      /\ named[j].kind = left[j].kind /\ named[j].name = m
      /\ left[j].kind # "dir" => named[j].file_id = left[j].file_id
      /\ left[j].kind = "dir" => named[j].parent = b /\ named[j].children = left[j].children
  <2>1. CASE ~IsDirIn(ns, j)
    <3>1. left[j].kind # "dir" /\ NodeOK(left[j]) /\ named = [left EXCEPT ![j].name = m]
      BY <1>2, <1>3, <2>1 DEF IsDirIn, NodesOK
    <3>2. left[j] = FileNode(left[j].name, left[j].file_id)
      BY <3>1 DEF NodeOK
    <3>3. [left[j] EXCEPT !.name = m] = FileNode(m, left[j].file_id)
      BY <3>2 DEF FileNode
    <3>4. /\ DOMAIN named = DOMAIN left /\ \A i \in DOMAIN left : i # j => named[i] = left[i]
          /\ named[j] = [left[j] EXCEPT !.name = m]
      BY <1>3, <3>1
    <3> QED
      BY <3>1, <3>2, <3>3, <3>4 DEF FileNode
  <2>2. CASE IsDirIn(ns, j)
    <3>1. /\ left[j].kind = "dir" /\ NodeOK(left[j])
          /\ named = [left EXCEPT ![j].name = m, ![j].parent = b]
      BY <1>2, <1>3, <2>2 DEF IsDirIn, NodesOK
    <3>2. left[j] = DirNode(left[j].parent, left[j].name, left[j].children)
      BY <3>1 DEF NodeOK, FileNode
    <3> DEFINE mid == DirNode(left[j].parent, m, left[j].children)
    <3>3. [left[j] EXCEPT !.name = m] = mid
      BY <3>2 DEF DirNode
    <3>4. [mid EXCEPT !.parent = b] = DirNode(b, m, left[j].children)
      BY DEF DirNode
    <3> HIDE DEF mid
    <3>5. /\ DOMAIN named = DOMAIN left /\ \A i \in DOMAIN left : i # j => named[i] = left[i]
          /\ named[j] = [[left[j] EXCEPT !.name = m] EXCEPT !.parent = b]
      BY <1>3, <3>1
    <3>6. named[j] = DirNode(b, m, left[j].children)
      BY <3>3, <3>4, <3>5
    <3> QED
      BY <3>1, <3>5, <3>6 DEF DirNode
  <2> QED
    BY <2>1, <2>2
<1>6. IsDirIn(named, b)
  BY <1>2, <1>5 DEF IsDirIn
<1>7. /\ DOMAIN ms = DOMAIN named /\ \A k \in DOMAIN named : k # b => ms[k] = named[k]
      /\ ms[b] = DirNode(named[b].parent, named[b].name, Insert(named[b].children, m, j))
  BY <1>4, <1>6, WithChildIs
<1>8. /\ ms[b].kind = "dir" /\ ms[b].parent = named[b].parent /\ ms[b].name = named[b].name
      /\ ms[b].children = Insert(named[b].children, m, j)
  BY <1>7 DEF DirNode
<1>9. ASSUME NEW i \in DOMAIN ns
      PROVE  /\ ms[i].kind = ns[i].kind
             /\ ns[i].kind # "dir" => ms[i].file_id = ns[i].file_id
             /\ ms[i].name = IF i = j THEN m ELSE ns[i].name
             /\ ns[i].kind = "dir" =>
                  /\ ms[i].parent = IF i = j THEN b ELSE ns[i].parent
                  /\ ms[i].children = Rehomed(ns[i].children, i, a, n, b, m, j)
  <2>1. /\ left[i].kind = ns[i].kind /\ left[i].name = ns[i].name
        /\ ns[i].kind # "dir" => left[i].file_id = ns[i].file_id
        /\ ns[i].kind = "dir" =>
             /\ left[i].parent = ns[i].parent
             /\ left[i].children = IF i = a THEN Remove(ns[i].children, {n}) ELSE ns[i].children
    BY <1>2
  <2>2. /\ named[i].kind = ns[i].kind /\ named[i].name = IF i = j THEN m ELSE ns[i].name
        /\ ns[i].kind # "dir" => named[i].file_id = ns[i].file_id
        /\ ns[i].kind = "dir" =>
             /\ named[i].parent = IF i = j THEN b ELSE ns[i].parent
             /\ named[i].children = IF i = a THEN Remove(ns[i].children, {n}) ELSE ns[i].children
    BY <1>2, <1>5, <2>1
  <2>3. CASE i = b
    BY <1>2, <1>8, <2>2, <2>3 DEF Rehomed
  <2>4. CASE i # b
    <3>1. ms[i] = named[i]
      BY <1>2, <1>5, <1>7, <2>4
    <3> QED
      BY <2>2, <2>4, <3>1 DEF Rehomed
  <2> QED
    BY <2>3, <2>4
<1> QED
  BY <1>2, <1>5, <1>7, <1>9 DEF HasMoved

\* The namespace sees the move.
LEMMA MovedIs ==
    ASSUME TreeInv, NEW DN, NEW FN, Views(nodes, path_to_inode, DN, FN),
           NEW old \in DOMAIN path_to_inode \ {Root},
           NEW new \in PathSet \ {Root}, new \notin DOMAIN path_to_inode,
           Parent(new) \in DOMAIN path_to_inode, ~Under(new, old),
           MovedTo(nodes', path_to_inode', nodes, path_to_inode, old, new, DN, FN)
    PROVE  Resolved' = Abstract!Moved(old, new)
<1> SUFFICES ASSUME NEW B, B = {q \in DOMAIN path_to_inode : Under(q, old)},
                    NEW T, T = {Rebase(q, old, new) : q \in B}
             PROVE  Resolved' = Abstract!Moved(old, new)
  OBVIOUS
<1>1. /\ Good(nodes, path_to_inode, next_inode) /\ DOMAIN path_to_inode \subseteq PathSet
      /\ old \in PathSet /\ new \in PathSet
  BY TreeInvIsGood DEF Good
<1>2. \A q, r \in DOMAIN path_to_inode : To(q, old, new) = To(r, old, new) => q = r
  BY <1>1, ToIs
<1>3. \A q \in B : /\ q \in DOMAIN path_to_inode /\ To(q, old, new) = Rebase(q, old, new)
                   /\ Rebase(Rebase(q, old, new), new, old) = q
  BY <1>1, RebaseBack DEF To
<1>4. \A q \in DOMAIN path_to_inode \ B : To(q, old, new) = q /\ q \notin T
  <2>1. \A q \in DOMAIN path_to_inode \ B : To(q, old, new) = q
    BY DEF To
  <2>2. \A q \in T : \E r \in B : q = To(r, old, new)
    BY <1>3
  <2> QED
    BY <1>2, <1>3, <2>1, <2>2
<1>5. DOMAIN path_to_inode' = (DOMAIN path_to_inode \ B) \cup T
  <2>1. DOMAIN path_to_inode' = {To(q, old, new) : q \in DOMAIN path_to_inode}
    BY DEF MovedTo
  <2>2. \A r \in DOMAIN path_to_inode' : r \in (DOMAIN path_to_inode \ B) \cup T
    BY <1>3, <1>4, <2>1
  <2>3. \A r \in (DOMAIN path_to_inode \ B) \cup T : r \in DOMAIN path_to_inode'
    BY <1>3, <1>4, <2>1
  <2> QED
    BY <2>2, <2>3
<1>6. \A q \in DOMAIN path_to_inode :
         Entry(nodes'[path_to_inode'[To(q, old, new)]]) = Resolved[q]
  BY ResolvedIs DEF MovedTo
<1>7. ASSUME NEW r \in DOMAIN path_to_inode'
      PROVE  Entry(nodes'[path_to_inode'[r]]) =
               IF r \in T THEN Resolved[Rebase(r, new, old)] ELSE Resolved[r]
  <2>1. CASE r \in T
    <3>1. PICK q \in B : r = Rebase(q, old, new)
      BY <2>1
    <3> QED
      BY <1>3, <1>6, <2>1, <3>1
  <2>2. CASE r \notin T
    BY <1>4, <1>5, <1>6, <2>2
  <2> QED
    BY <2>1, <2>2
<1>8. Abstract!Below(old) = B
  BY ResolvedIs DEF Abstract!Below, Abstract!Under, Abstract!Upto, Under, Upto
<1>9. Abstract!Moved(old, new) =
        [r \in (DOMAIN path_to_inode \ B) \cup T |->
            IF r \in T THEN Resolved[Rebase(r, new, old)] ELSE Resolved[r]]
  <2>1. DOMAIN Resolved = DOMAIN path_to_inode
    BY ResolvedIs
  <2> QED
    BY <1>8, <2>1 DEF Abstract!Moved, Rebase
<1> QED
  BY <1>5, <1>7, <1>9, ResolvedNext

\* rename_file.
LEMMA RenameFileViews ==
    ASSUME TreeInv, NEW DN, NEW FN, PlainNames(DN, FN),
           Views(nodes, path_to_inode, DN, FN),
           NEW old \in FilePaths, NEW new \in FilePaths, RenameFile(old, new)
    PROVE  Views(nodes', path_to_inode', DN, FN) /\ Abstract!MoveFile(old, new)
<1> SUFFICES ASSUME NEW inode, inode = path_to_inode[old],
                    NEW a, a = path_to_inode[Parent(old)],
                    NEW b, b = path_to_inode[Parent(new)]
             PROVE  Views(nodes', path_to_inode', DN, FN) /\ Abstract!MoveFile(old, new)
  OBVIOUS
<1>1. /\ old \in DOMAIN path_to_inode \ {Root} /\ old \in PathSet \ {Root}
      /\ new \in PathSet \ {Root} /\ new \notin DOMAIN path_to_inode
      /\ Parent(new) \in DOMAIN path_to_inode /\ IsDirIn(nodes, b) /\ NameOf(new) \in Names
      /\ FileNamed(old, DN, FN) /\ FileNamed(new, DN, FN)
  BY Arguments, ParentIs DEF RenameFile, ParentIsDir, Known, IsDir, PlainNames
<1>2. Good(nodes, path_to_inode, next_inode) /\ NodesOK(nodes)
  BY TreeInvIsGood DEF Good
<1>3. ~IsDirIn(nodes, inode) /\ inode \in DOMAIN nodes /\ inode \in Inode /\ b \in Inode
  BY <1>1, <1>2 DEF RenameFile, IsDir, Good
<1>4. Parent(old) \in DOMAIN path_to_inode /\ IsDirIn(nodes, a)
  BY <1>1, <1>2, KnownParent
<1>5. \A q \in DOMAIN path_to_inode : Under(q, old) => q = old
  BY <1>1, <1>2, <1>3, BelowIs
<1>6. ~Under(new, old)
  <2>1. old \in PathSet /\ new \in PathSet /\ new # old
    BY <1>1
  <2>2. Under(new, old) => Under(Parent(new), old)
    BY <2>1, UnderParent
  <2>3. Under(new, old) => Parent(new) = old
    BY <1>1, <1>5, <2>2
  <2> QED
    BY <1>1, <1>3, <2>3
<1>7. \A q \in DOMAIN path_to_inode : To(q, old, new) = IF q = old THEN new ELSE q
  <2>1. To(old, old, new) = new
    BY <1>1, <1>2, <1>6, ToIs
  <2>2. \A q \in DOMAIN path_to_inode : q # old => To(q, old, new) = q
    BY <1>5 DEF To
  <2> QED
    BY <2>1, <2>2
<1>8. path_to_inode' = Insert(Remove(path_to_inode, {old}), new, inode)
  BY DEF RenameFile
<1>9. /\ DOMAIN path_to_inode' = (DOMAIN path_to_inode \ {old}) \cup {new}
      /\ path_to_inode'[new] = inode
      /\ \A q \in DOMAIN path_to_inode \ {old} : path_to_inode'[q] = path_to_inode[q]
  BY <1>1, <1>8 DEF Insert, Remove
<1>10. /\ DOMAIN path_to_inode' = {To(q, old, new) : q \in DOMAIN path_to_inode}
       /\ \A q \in DOMAIN path_to_inode : path_to_inode'[To(q, old, new)] = path_to_inode[q]
  <2>1. {To(q, old, new) : q \in DOMAIN path_to_inode} =
          (DOMAIN path_to_inode \ {old}) \cup {new}
    <3>1. \A r \in {To(q, old, new) : q \in DOMAIN path_to_inode} :
             r \in (DOMAIN path_to_inode \ {old}) \cup {new}
      BY <1>7
    <3>2. \A r \in (DOMAIN path_to_inode \ {old}) \cup {new} :
             r \in {To(q, old, new) : q \in DOMAIN path_to_inode}
      BY <1>1, <1>7
    <3> QED
      BY <3>1, <3>2
  <2> QED
    BY <1>1, <1>7, <1>9, <2>1
<1>11. HasMoved(nodes', nodes, a, NameOf(old), b, NameOf(new), inode)
  <2> SUFFICES ASSUME NEW ms, ms = nodes', NEW left, left = WithoutChild(nodes, a, NameOf(old)),
                      NEW named, named = [left EXCEPT ![inode].name = NameOf(new)]
               PROVE  HasMoved(ms, nodes, a, NameOf(old), b, NameOf(new), inode)
    OBVIOUS
  <2>1. ms = WithChild(named, b, NameOf(new), inode)
    BY <1>4 DEF RenameFile, WithoutChildAt
  <2> QED
    BY <1>1, <1>2, <1>3, <1>4, <2>1, MovedNodes
<1>12. MovedTo(nodes', path_to_inode', nodes, path_to_inode, old, new, DN, FN)
  <2> SUFFICES ASSUME NEW ms, ms = nodes', NEW qs, qs = path_to_inode'
               PROVE  MovedTo(ms, qs, nodes, path_to_inode, old, new, DN, FN)
    OBVIOUS
  <2> QED
    BY <1>1, <1>2, <1>3, <1>6, <1>10, <1>11, MoveViews DEF HasMoved
<1>13. Resolved' = Abstract!Moved(old, new)
  BY <1>1, <1>6, <1>12, MovedIs
<1>14. Abstract!IsFile(old) /\ Abstract!CanMove(old, new)
  BY <1>1, <1>3, ResolvedIs
     DEF Abstract!IsFile, Abstract!CanMove, Abstract!IsDirectory, Abstract!Exists,
         Abstract!Parent, Parent, IsDir
<1> QED
  BY <1>12, <1>13, <1>14 DEF MovedTo, Abstract!MoveFile

\* rename_directory: no substitute is a path that was collected, so that the
\* order of the hash map does not matter, and none is lost.
LEMMA RenamedPathsAre ==
    ASSUME TreeInv, NEW DN, NEW FN, PlainNames(DN, FN),
           Views(nodes, path_to_inode, DN, FN),
           NEW old \in DirPaths, old \in DOMAIN path_to_inode, NEW new \in DirPaths,
           new \notin DOMAIN path_to_inode,
           Parent(new) \in DOMAIN path_to_inode, ~Under(new, old),
           NEW lost \in SUBSET (MovedPaths(old) \cap
                                  {Substitute(p, old, new) : p \in MovedPaths(old)}),
           NEW qs, qs = RenamedPaths(old, new, lost)
    PROVE  /\ DOMAIN qs = {To(q, old, new) : q \in DOMAIN path_to_inode}
           /\ \A q \in DOMAIN path_to_inode : qs[To(q, old, new)] = path_to_inode[q]
<1> SUFFICES ASSUME NEW B, B = MovedPaths(old),
                    NEW T, T = {Substitute(q, old, new) : q \in B}
             PROVE  /\ DOMAIN qs = {To(q, old, new) : q \in DOMAIN path_to_inode}
                    /\ \A q \in DOMAIN path_to_inode : qs[To(q, old, new)] = path_to_inode[q]
  OBVIOUS
<1>1. /\ old \in PathSet \ {Root} /\ new \in PathSet \ {Root}
      /\ Good(nodes, path_to_inode, next_inode) /\ DOMAIN path_to_inode \subseteq PathSet
  BY Arguments, TreeInvIsGood DEF Good
<1>2. /\ \A q \in DOMAIN path_to_inode : q \in B <=> Under(q, old)
      /\ B \subseteq DOMAIN path_to_inode
  BY MovedIsBelow
<1>3. /\ \A q \in DOMAIN path_to_inode : ~Under(q, new)
      /\ \A q, r \in DOMAIN path_to_inode : To(q, old, new) = To(r, old, new) => q = r
  BY <1>1, ToIs
<1>4. \A q \in B : Substitute(q, old, new) = To(q, old, new)
  BY <1>1, <1>2, SubstituteMoves DEF To
<1>5. \A q \in DOMAIN path_to_inode \ B : To(q, old, new) = q
  BY <1>2 DEF To
<1>6. \A q \in B : Under(To(q, old, new), new)
  <2>1. ASSUME NEW q \in B
        PROVE  Under(Rebase(q, old, new), new)
    BY <1>1, <1>2, RebaseIs DEF Rebased
  <2> QED
    BY <1>2, <2>1 DEF To
<1>7. \A r \in T : r \notin DOMAIN path_to_inode /\ \E q \in B : r = To(q, old, new)
  BY <1>3, <1>4, <1>6
<1>8. lost = {}
  BY <1>2, <1>7
<1>9. qs = [r \in ((DOMAIN path_to_inode \ B) \cup T) |->
              IF r \in T
              THEN path_to_inode[CHOOSE q \in B : Substitute(q, old, new) = r]
              ELSE path_to_inode[r]]
  BY <1>8 DEF RenamedPaths
<1>10. DOMAIN qs = {To(q, old, new) : q \in DOMAIN path_to_inode}
  <2>1. \A r \in (DOMAIN path_to_inode \ B) \cup T :
           r \in {To(q, old, new) : q \in DOMAIN path_to_inode}
    BY <1>2, <1>5, <1>7
  <2>2. \A q \in DOMAIN path_to_inode : To(q, old, new) \in (DOMAIN path_to_inode \ B) \cup T
    BY <1>4, <1>5
  <2> QED
    BY <1>9, <2>1, <2>2
<1>11. ASSUME NEW q \in DOMAIN path_to_inode
       PROVE  qs[To(q, old, new)] = path_to_inode[q]
  <2>1. CASE q \in B
    <3>1. To(q, old, new) \in T /\ Substitute(q, old, new) = To(q, old, new)
      BY <1>4, <2>1
    <3>2. (CHOOSE r \in B : Substitute(r, old, new) = To(q, old, new)) = q
      BY <1>2, <1>3, <1>4, <2>1
    <3> QED
      BY <1>9, <3>1, <3>2
  <2>2. CASE q \notin B
    BY <1>5, <1>7, <1>9, <2>2
  <2> QED
    BY <2>1, <2>2
<1> QED
  BY <1>10, <1>11

\* rename_directory.
LEMMA RenameDirectoryViews ==
    ASSUME TreeInv, NEW DN, NEW FN, PlainNames(DN, FN),
           Views(nodes, path_to_inode, DN, FN),
           NEW old \in DirPaths, NEW new \in DirPaths,
           KernelAllowsMove(old, new), RenameDirectory(old, new)
    PROVE  Views(nodes', path_to_inode', DN, FN) /\ Abstract!MoveDir(old, new)
<1> SUFFICES ASSUME NEW inode, inode = path_to_inode[old],
                    NEW a, a = path_to_inode[Parent(old)],
                    NEW b, b = path_to_inode[Parent(new)]
             PROVE  Views(nodes', path_to_inode', DN, FN) /\ Abstract!MoveDir(old, new)
  OBVIOUS
<1>1. /\ old \in DOMAIN path_to_inode \ {Root} /\ old \in PathSet \ {Root}
      /\ new \in PathSet \ {Root} /\ new \notin DOMAIN path_to_inode
      /\ Parent(new) \in DOMAIN path_to_inode /\ IsDirIn(nodes, b) /\ NameOf(new) \in Names
      /\ DirNamed(new, DN) /\ IsDirIn(nodes, inode) /\ ~Under(new, old)
  BY Arguments, ParentIs
     DEF RenameDirectory, ParentIsDir, Known, IsDir, PlainNames, KernelAllowsMove
<1>2. Good(nodes, path_to_inode, next_inode) /\ NodesOK(nodes)
  BY TreeInvIsGood DEF Good
<1>3. inode \in DOMAIN nodes /\ inode \in Inode /\ b \in Inode
  BY <1>1, <1>2 DEF Good
<1>4. Parent(old) \in DOMAIN path_to_inode /\ IsDirIn(nodes, a)
  BY <1>1, <1>2, KnownParent
<1>5. /\ DOMAIN path_to_inode' = {To(q, old, new) : q \in DOMAIN path_to_inode}
      /\ \A q \in DOMAIN path_to_inode : path_to_inode'[To(q, old, new)] = path_to_inode[q]
  <2>1. PICK lost \in SUBSET (MovedPaths(old) \cap
                                {Substitute(p, old, new) : p \in MovedPaths(old)}) :
          path_to_inode' = RenamedPaths(old, new, lost)
    BY DEF RenameDirectory
  <2> SUFFICES ASSUME NEW qs, qs = path_to_inode'
               PROVE  /\ DOMAIN qs = {To(q, old, new) : q \in DOMAIN path_to_inode}
                      /\ \A q \in DOMAIN path_to_inode : qs[To(q, old, new)] = path_to_inode[q]
    OBVIOUS
  <2> QED
    BY <1>1, <2>1, RenamedPathsAre
<1>6. To(Parent(old), old, new) = Parent(old)
  BY <1>1, <1>2, ToIs
<1>7. Parent(old) \in DOMAIN path_to_inode' /\ path_to_inode'[Parent(old)] = a
  BY <1>4, <1>5, <1>6
<1>8. HasMoved(nodes', nodes, a, NameOf(old), b, NameOf(new), inode)
  <2> SUFFICES ASSUME NEW ms, ms = nodes', NEW left, left = WithoutChild(nodes, a, NameOf(old)),
                      NEW named, named = [left EXCEPT ![inode].name = NameOf(new),
                                                      ![inode].parent = b]
               PROVE  HasMoved(ms, nodes, a, NameOf(old), b, NameOf(new), inode)
    OBVIOUS
  <2>1. ms = WithChild(named, b, NameOf(new), inode)
    BY <1>7 DEF RenameDirectory, WithoutChildAt
  <2> QED
    BY <1>1, <1>2, <1>3, <1>4, <2>1, MovedNodes
<1>9. MovedTo(nodes', path_to_inode', nodes, path_to_inode, old, new, DN, FN)
  <2> SUFFICES ASSUME NEW ms, ms = nodes', NEW qs, qs = path_to_inode'
               PROVE  MovedTo(ms, qs, nodes, path_to_inode, old, new, DN, FN)
    OBVIOUS
  <2> QED
    BY <1>1, <1>2, <1>5, <1>8, MoveViews DEF HasMoved
<1>10. Resolved' = Abstract!Moved(old, new)
  BY <1>1, <1>9, MovedIs
<1>11. Abstract!IsDirectory(old) /\ Abstract!CanMove(old, new)
  BY <1>1, ResolvedIs
     DEF Abstract!CanMove, Abstract!IsDirectory, Abstract!Exists, Abstract!Parent, Parent, IsDir
<1>12. ~Abstract!Under(new, old)
  BY <1>1 DEF Abstract!Under, Abstract!Upto, Under, Upto
<1> QED
  BY <1>9, <1>10, <1>11, <1>12 DEF MovedTo, Abstract!MoveDir

\* ensure_trash_dir: in the root.
LEMMA TrashDirViews ==
    ASSUME TreeInv, NEW DN, NEW FN, PlainNames(DN, FN),
           Views(nodes, path_to_inode, DN, FN), EnsureTrashDir
    PROVE  Views(nodes', path_to_inode', DN, FN) /\ Abstract!MakeDir(TrashPath)
<1>1. TrashPath \in PathSet \ {Root} /\ Len(TrashPath) = 1 /\ TrashPath[1] = TrashName
  BY Arguments DEF TrashPath
<1>2. DirNamed(TrashPath, DN)
  BY <1>1 DEF DirNamed, PlainNames
<1>3. Parent(TrashPath) = Root
  <2>1. Parent(TrashPath) \in PathSet /\ Len(Parent(TrashPath)) = 0
    BY <1>1, ParentIs
  <2> QED
    BY <2>1, RootIsShort, SamePath
<1>4. path_to_inode[Parent(TrashPath)] = ROOT_INODE /\ ParentIsDir(TrashPath)
  BY <1>3 DEF TreeInv, RootIsFixed, ParentIsDir
<1>5. ~Known(TrashPath) /\ NewDir(TrashPath, path_to_inode[Parent(TrashPath)])
  BY <1>4 DEF EnsureTrashDir
<1> QED
  BY <1>1, <1>2, <1>4, <1>5, NewDirViews

\* Every operation keeps the views, and is one of the namespace's.
LEMMA StepViews ==
    ASSUME TreeInv, NEW DN, NEW FN, PlainNames(DN, FN),
           Views(nodes, path_to_inode, DN, FN), [Next]_vars
    PROVE  Views(nodes', path_to_inode', DN, FN) /\ [Abstract!Next]_Resolved
<1>1. ASSUME NEW p \in FilePaths, NEW id \in FileIds, InsertFile(p, id)
      PROVE  Views(nodes', path_to_inode', DN, FN) /\ Abstract!AddFile(p, id)
  BY <1>1, InsertFileViews
<1>2. ASSUME NEW p \in FilePaths, RemoveFile(p)
      PROVE  Views(nodes', path_to_inode', DN, FN) /\ Abstract!DeleteFile(p)
  BY <1>2, RemoveFileViews
<1>3. ASSUME NEW p \in DirPaths, Mkdir(p)
      PROVE  Views(nodes', path_to_inode', DN, FN) /\ Abstract!MakeDir(p)
  <2>1. p \in PathSet \ {Root} /\ DirNamed(p, DN)
    BY Arguments DEF PlainNames
  <2> QED
    BY <1>3, <2>1, NewDirViews DEF Mkdir
<1>4. ASSUME EnsureTrashDir
      PROVE  Views(nodes', path_to_inode', DN, FN) /\ Abstract!MakeDir(<<TrashName>>)
  BY <1>4, TrashDirViews DEF TrashPath
<1>5. ASSUME NEW p \in DirPaths, MkdirP(p)
      PROVE  Views(nodes', path_to_inode', DN, FN) /\ Abstract!MakeDirs(p)
  BY <1>5, MkdirPViews
<1>6. ASSUME NEW old \in FilePaths, NEW new \in FilePaths, RenameFile(old, new)
      PROVE  Views(nodes', path_to_inode', DN, FN) /\ Abstract!MoveFile(old, new)
  BY <1>6, RenameFileViews
<1>7. ASSUME NEW old \in DirPaths, NEW new \in DirPaths,
             KernelAllowsMove(old, new), RenameDirectory(old, new)
      PROVE  Views(nodes', path_to_inode', DN, FN) /\ Abstract!MoveDir(old, new)
  BY <1>7, RenameDirectoryViews
<1>8. ASSUME NEW p \in DirPaths, RemoveDirectory(p)
      PROVE  Views(nodes', path_to_inode', DN, FN) /\ Abstract!DeleteDir(p)
  BY <1>8, RemoveDirectoryViews
<1>9. ASSUME NEW p \in DirPaths, RemoveDirectoryRecursive(p)
      PROVE  Views(nodes', path_to_inode', DN, FN) /\ Abstract!DeleteTree(p)
  BY <1>9, RemoveDirectoryRecursiveViews
<1>10. ASSUME ForceRefresh
       PROVE  Views(nodes', path_to_inode', DN, FN) /\ Abstract!Clear
  BY <1>10, ForceRefreshViews
<1>11. ASSUME UNCHANGED vars
       PROVE  Views(nodes', path_to_inode', DN, FN) /\ UNCHANGED Resolved
  BY <1>11 DEF vars, Resolved
<1> QED
  BY <1>1, <1>2, <1>3, <1>4, <1>5, <1>6, <1>7, <1>8, <1>9, <1>10, <1>11
     DEF Next, Abstract!Next

\* The agreement that the run checks is what the views say.
LEMMA ViewsAreAgreement ==
    ASSUME TreeInv, NEW DN, NEW FN, Views(nodes, path_to_inode, DN, FN)
    PROVE  ViewsAgree
<1>1. Good(nodes, path_to_inode, next_inode)
  BY TreeInvIsGood
<1>2. ASSUME NEW p \in DOMAIN path_to_inode \ {Root}
      PROVE  /\ ParentIsDir(p)
             /\ LET dir == path_to_inode[Parent(p)]
                    node == nodes[path_to_inode[p]]
                IN  /\ NameOf(p) \in DOMAIN nodes[dir].children
                    /\ nodes[dir].children[NameOf(p)] = path_to_inode[p]
                    /\ node.name = NameOf(p)
                    /\ node.kind = "dir" => node.parent = dir
  <2> SUFFICES ASSUME NEW dir, dir = path_to_inode[Parent(p)],
                      NEW node, node = nodes[path_to_inode[p]],
                      NEW ch, ch = nodes[dir].children
               PROVE  /\ ParentIsDir(p)
                      /\ NameOf(p) \in DOMAIN ch /\ ch[NameOf(p)] = path_to_inode[p]
                      /\ node.name = NameOf(p)
                      /\ node.kind = "dir" => node.parent = dir
    OBVIOUS
  <2>1. /\ p \in PathSet \ {Root} /\ Parent(p) \in DOMAIN path_to_inode /\ IsDirIn(nodes, dir)
        /\ Append(Parent(p), NameOf(p)) = p
    BY <1>1, KnownParent, ParentIs
  <2>2. Lists(ch, path_to_inode, Parent(p))
    BY <2>1 DEF Views, Listed
  <2>3. NameOf(p) \in DOMAIN ch /\ ch[NameOf(p)] = path_to_inode[p]
    BY <2>1, <2>2 DEF Lists
  <2>4. node.name = NameOf(p) /\ (node.kind = "dir" => node.parent = dir)
    BY DEF Views, Nested
  <2> QED
    BY <2>1, <2>3, <2>4 DEF ParentIsDir, Known, IsDir
<1>3. ASSUME NEW p \in DOMAIN path_to_inode, IsDir(path_to_inode[p]),
             NEW n \in DOMAIN nodes[path_to_inode[p]].children
      PROVE  /\ Known(Append(p, n))
             /\ path_to_inode[Append(p, n)] = nodes[path_to_inode[p]].children[n]
  BY <1>3 DEF Views, Listed, Lists, Known, IsDir
<1> QED
  BY <1>2, <1>3 DEF ViewsAgree

\* The views are kept together with the invariant of the tree.
LEMMA ViewsInvariance ==
    ASSUME NEW CONSTANT DN, NEW CONSTANT FN, PlainNames(DN, FN)
    PROVE  Spec => [](TreeInv /\ Views(nodes, path_to_inode, DN, FN))
<1>1. Init => Views(nodes, path_to_inode, DN, FN)
  BY InitViews
<1>2. TreeInv /\ Views(nodes, path_to_inode, DN, FN) /\ [Next]_vars =>
        Views(nodes, path_to_inode, DN, FN)'
  BY StepViews
<1> QED
  BY <1>1, <1>2, Invariance, PTL DEF Spec

\* Whatever the operations and their order, lookup, which walks the children,
\* and the operations, which start from path_to_inode, see one tree, as long as
\* no name in use is a string prefix of another's and files and directories
\* have names of their own; without the first rename_directory and
\* remove_directory_recursive break it, without the second insert_file does.
THEOREM ViewsStayAgreed ==
    ASSUME NEW CONSTANT DN, NEW CONSTANT FN, PlainNames(DN, FN)
    PROVE  Spec => []ViewsAgree
<1>1. TreeInv /\ Views(nodes, path_to_inode, DN, FN) => ViewsAgree
  BY ViewsAreAgreement
<1> QED
  BY <1>1, ViewsInvariance, PTL

\* The tree implements the namespace under the same names: every operation is
\* the one of the same name on paths, or leaves what they resolve to alone.
THEOREM TreeIsNamespace ==
    ASSUME NEW CONSTANT DN, NEW CONSTANT FN, PlainNames(DN, FN)
    PROVE  Spec => ImplementsNamespace
<1>1. Init => Abstract!Init
  <2> SUFFICES ASSUME Init PROVE Abstract!Init
    OBVIOUS
  <2>1. ASSUME NEW D, NEW F
        PROVE  Abstract!Init
    BY InitViews
  <2> QED
    BY <2>1
<1>2. TreeInv /\ Views(nodes, path_to_inode, DN, FN) /\ [Next]_vars => [Abstract!Next]_Resolved
  BY StepViews
<1> QED
  BY <1>1, <1>2, ViewsInvariance, PTL DEF Spec, ImplementsNamespace, Abstract!Spec
=============================================================================
