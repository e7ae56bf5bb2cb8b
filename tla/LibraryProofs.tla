--------------------------- MODULE LibraryProofs ---------------------------
(***************************************************************************)
(* Theorems about Library: the fetcher knows every file of the tree, and   *)
(* no request, restore or other process makes a file vanish; files stay    *)
(* where requests have put them, and the directories users make stay       *)
(* there, across remounts and crashes; for any files, tags, directories    *)
(* and requests.                                                           *)
(***************************************************************************)
EXTENDS Library, FiniteSetTheorems, SequenceTheorems, TLAPS

----------------------------------------------------------------------------
(* Paths.                                                                  *)

\* The ancestors of a path are paths, and theirs are its own.
LEMMA UptoIsPath ==
    ASSUME NEW p \in PathSet, NEW k \in 0..Len(p)
    PROVE  /\ Upto(p, k) \in PathSet /\ Len(Upto(p, k)) = k
           /\ \A i \in 1..k : Upto(p, k)[i] = p[i]
<1>1. Len(p) \in Nat /\ \A i \in 1..k : p[i] \in Names
  BY LenProperties, ElementOfSeq DEF PathSet
<1>2. SubSeq(p, 1, k) \in Seq(Names)
  BY <1>1, SubSeqProperties
<1>3. Len(SubSeq(p, 1, k)) = k
  BY <1>1, SubSeqProperties
<1>4. \A i \in 1..k : SubSeq(p, 1, k)[i] = p[i]
  BY <1>1, SubSeqProperties
<1> QED
  BY <1>2, <1>3, <1>4 DEF Upto, PathSet

\* An ancestor of an ancestor.
LEMMA UptoUpto ==
    ASSUME NEW p \in PathSet, NEW k \in 0..Len(p), NEW j \in 0..k
    PROVE  Upto(Upto(p, k), j) = Upto(p, j)
<1> DEFINE a == Upto(p, k)
<1>1. a \in PathSet /\ Len(a) = k /\ \A i \in 1..k : a[i] = p[i]
  BY UptoIsPath
<1>2. Len(p) \in Nat
  BY LenProperties DEF PathSet
<1> HIDE DEF a
<1>3. Upto(a, j) \in PathSet /\ Len(Upto(a, j)) = j /\ \A i \in 1..j : Upto(a, j)[i] = a[i]
  BY <1>1, UptoIsPath
<1>4. Upto(p, j) \in PathSet /\ Len(Upto(p, j)) = j /\ \A i \in 1..j : Upto(p, j)[i] = p[i]
  BY <1>2, UptoIsPath
<1>5. \A i \in 1..j : Upto(a, j)[i] = Upto(p, j)[i]
  BY <1>1, <1>3, <1>4
<1>6. Upto(a, j) = Upto(p, j)
  BY <1>3, <1>4, <1>5, SeqEqual DEF PathSet
<1> QED
  BY <1>6 DEF a

\* The parent is the nearest ancestor, and has the others.
LEMMA ParentIsPath ==
    ASSUME NEW p \in PathSet, p # Root
    PROVE  /\ Len(p) \in Nat \ {0}
           /\ Parent(p) = Upto(p, Len(p) - 1) /\ Parent(p) \in PathSet /\ Len(Parent(p)) = Len(p) - 1
           /\ \A k \in 0..Len(p) - 1 : Upto(Parent(p), k) = Upto(p, k)
<1>1. Len(p) \in Nat \ {0}
  BY EmptySeq DEF PathSet, Root
<1>2. Parent(p) = Upto(p, Len(p) - 1)
  BY DEF Parent, Upto
<1>3. Len(p) - 1 \in 0..Len(p)
  BY <1>1
<1> QED
  BY <1>1, <1>2, <1>3, UptoIsPath, UptoUpto

\* A path moved from below one directory to below another is a path again; of
\* its ancestors, those below the first are moved likewise, and the rest are
\* the second's.
LEMMA RebaseIsPath ==
    ASSUME NEW p \in PathSet, NEW old \in PathSet, NEW new \in PathSet, Under(p, old)
    PROVE  LET q == N!Rebase(p, old, new)
           IN  /\ q \in PathSet /\ Len(q) = Len(new) + Len(p) - Len(old)
               /\ \A i \in 1..Len(q) : q[i] = IF i <= Len(new) THEN new[i] ELSE p[i - Len(new) + Len(old)]
               /\ Len(old) <= Len(p)
<1> DEFINE rest == SubSeq(p, Len(old) + 1, Len(p))
           q == new \o rest
<1>1. Len(p) \in Nat /\ Len(old) \in Nat /\ Len(new) \in Nat /\ Len(old) <= Len(p)
  BY LenProperties DEF PathSet, Under
<1>2. \A i \in Len(old) + 1..Len(p) : p[i] \in Names
  BY <1>1, ElementOfSeq DEF PathSet
<1>3. rest \in Seq(Names) /\ Len(rest) = Len(p) - Len(old)
  <2>1. rest \in Seq(Names)
    BY <1>1, <1>2, SubSeqProperties
  <2>2. Len(rest) = IF Len(old) + 1 <= Len(p) THEN Len(p) - (Len(old) + 1) + 1 ELSE 0
    BY <1>1, <1>2, SubSeqProperties
  <2> QED
    BY <1>1, <2>1, <2>2
<1>4. \A i \in 1..Len(p) - (Len(old) + 1) + 1 : rest[i] = p[Len(old) + 1 + i - 1]
  BY <1>1, <1>2, SubSeqProperties
<1> HIDE DEF rest
<1>5. /\ q \in Seq(Names) /\ Len(q) = Len(new) + Len(rest)
      /\ \A i \in 1..Len(new) + Len(rest) : q[i] = IF i <= Len(new) THEN new[i] ELSE rest[i - Len(new)]
  BY <1>3, ConcatProperties DEF PathSet
<1> HIDE DEF q
<1>6. ASSUME NEW i \in 1..Len(q)
      PROVE  q[i] = IF i <= Len(new) THEN new[i] ELSE p[i - Len(new) + Len(old)]
  <2>1. CASE i <= Len(new)
    BY <1>1, <1>3, <1>5, <2>1
  <2>2. CASE ~(i <= Len(new))
    <3>1. q[i] = rest[i - Len(new)] /\ i - Len(new) \in 1..Len(p) - (Len(old) + 1) + 1
      BY <1>1, <1>3, <1>5, <2>2
    <3>2. rest[i - Len(new)] = p[Len(old) + 1 + (i - Len(new)) - 1]
      BY <1>4, <3>1
    <3>3. Len(old) + 1 + (i - Len(new)) - 1 = i - Len(new) + Len(old)
      BY <1>1, <1>5, <1>3
    <3> QED
      BY <2>2, <3>1, <3>2, <3>3
  <2> QED
    BY <2>1, <2>2
<1>7. N!Rebase(p, old, new) = q
  BY DEF N!Rebase, q, rest
<1> QED
  BY <1>1, <1>3, <1>5, <1>6, <1>7 DEF PathSet

\* A path is below a directory when it begins with its names.
LEMMA UnderMeans ==
    ASSUME NEW p \in PathSet, NEW q \in PathSet
    PROVE  Under(p, q) <=> Len(q) <= Len(p) /\ \A i \in 1..Len(q) : p[i] = q[i]
<1>1. Len(p) \in Nat /\ Len(q) \in Nat
  BY LenProperties DEF PathSet
<1>2. CASE Len(q) <= Len(p)
  <2> DEFINE a == Upto(p, Len(q))
  <2>1. a \in PathSet /\ Len(a) = Len(q) /\ \A i \in 1..Len(q) : a[i] = p[i]
    BY <1>1, <1>2, UptoIsPath
  <2> HIDE DEF a
  <2>2. (\A i \in 1..Len(q) : a[i] = q[i]) => a = q
    BY <2>1, SeqEqual DEF PathSet
  <2>3. a = q <=> \A i \in 1..Len(q) : p[i] = q[i]
    BY <2>1, <2>2
  <2> QED
    BY <1>2, <2>3 DEF Under, a
<1>3. CASE ~(Len(q) <= Len(p))
  BY <1>3 DEF Under
<1> QED
  BY <1>2, <1>3

\* To move a path there and back again is to leave it.
LEMMA RebaseBack ==
    ASSUME NEW p \in PathSet, NEW old \in PathSet, NEW new \in PathSet, Under(p, old)
    PROVE  /\ Under(N!Rebase(p, old, new), new)
           /\ N!Rebase(N!Rebase(p, old, new), new, old) = p
<1> DEFINE q == N!Rebase(p, old, new)
           r == N!Rebase(q, new, old)
<1>1. /\ q \in PathSet /\ Len(q) = Len(new) + Len(p) - Len(old)
      /\ \A i \in 1..Len(q) : q[i] = IF i <= Len(new) THEN new[i] ELSE p[i - Len(new) + Len(old)]
      /\ Len(old) <= Len(p)
  BY RebaseIsPath
<1>2. Len(p) \in Nat /\ Len(old) \in Nat /\ Len(new) \in Nat
  BY LenProperties DEF PathSet
<1> HIDE DEF q
<1>3. Under(q, new)
  <2>1. Len(new) <= Len(q) /\ \A i \in 1..Len(new) : q[i] = new[i]
    BY <1>1, <1>2
  <2> QED
    BY <1>1, <2>1, UnderMeans
<1>4. /\ r \in PathSet /\ Len(r) = Len(old) + Len(q) - Len(new)
      /\ \A i \in 1..Len(r) : r[i] = IF i <= Len(old) THEN old[i] ELSE q[i - Len(old) + Len(new)]
  BY <1>1, <1>3, RebaseIsPath
<1> HIDE DEF r
<1>5. Len(r) = Len(p)
  BY <1>1, <1>2, <1>4
<1>6. ASSUME NEW i \in 1..Len(p) PROVE r[i] = p[i]
  <2>1. CASE i <= Len(old)
    <3>1. p[i] = old[i]
      BY <1>2, <2>1, UnderMeans
    <3> QED
      BY <1>4, <1>5, <2>1, <3>1
  <2>2. CASE ~(i <= Len(old))
    <3>1. r[i] = q[i - Len(old) + Len(new)]
      BY <1>4, <1>5, <2>2
    <3>2. i - Len(old) + Len(new) \in 1..Len(q) /\ ~(i - Len(old) + Len(new) <= Len(new))
          /\ i - Len(old) + Len(new) - Len(new) + Len(old) = i
      BY <1>1, <1>2, <2>2
    <3> QED
      BY <1>1, <3>1, <3>2
  <2> QED
    BY <2>1, <2>2
<1>7. r = p
  BY <1>4, <1>5, <1>6, SeqEqual DEF PathSet
<1> QED
  BY <1>3, <1>7 DEF q, r

\* An ancestor below a directory has the directory above it, and so has the
\* path.
LEMMA UnderUpto ==
    ASSUME NEW p \in PathSet, NEW q \in PathSet, NEW k \in 0..Len(p)
    PROVE  /\ Under(Upto(p, k), q) => Under(p, q)
           /\ Under(p, q) /\ Len(q) <= k => Under(Upto(p, k), q)
<1> DEFINE a == Upto(p, k)
<1>1. a \in PathSet /\ Len(a) = k /\ \A i \in 1..k : a[i] = p[i]
  BY UptoIsPath
<1>2. Len(p) \in Nat /\ Len(q) \in Nat
  BY LenProperties DEF PathSet
<1> HIDE DEF a
<1>3. Under(a, q) <=> Len(q) <= Len(a) /\ \A i \in 1..Len(q) : a[i] = q[i]
  BY <1>1, UnderMeans
<1>4. Under(p, q) <=> Len(q) <= Len(p) /\ \A i \in 1..Len(q) : p[i] = q[i]
  BY UnderMeans
<1>5. Under(a, q) => Under(p, q)
  BY <1>1, <1>2, <1>3, <1>4
<1>6. Under(p, q) /\ Len(q) <= k => Under(a, q)
  BY <1>1, <1>2, <1>3, <1>4
<1> QED
  BY <1>5, <1>6 DEF a

\* Of the ancestors of a path moved, those below the directory moved were
\* moved likewise, and the others are the new directory's.
LEMMA UptoRebase ==
    ASSUME NEW p \in PathSet, NEW old \in PathSet, NEW new \in PathSet, Under(p, old),
           NEW k \in 0..Len(N!Rebase(p, old, new))
    PROVE  /\ k <= Len(new) => Upto(N!Rebase(p, old, new), k) = Upto(new, k)
           /\ k >= Len(new) =>
                LET j == k - Len(new) + Len(old)
                IN  /\ j \in 0..Len(p) /\ Under(Upto(p, j), old)
                    /\ Upto(N!Rebase(p, old, new), k) = N!Rebase(Upto(p, j), old, new)
<1> DEFINE q == N!Rebase(p, old, new)
           j == k - Len(new) + Len(old)
<1>1. /\ q \in PathSet /\ Len(q) = Len(new) + Len(p) - Len(old)
      /\ \A i \in 1..Len(q) : q[i] = IF i <= Len(new) THEN new[i] ELSE p[i - Len(new) + Len(old)]
      /\ Len(old) <= Len(p)
  BY RebaseIsPath
<1>2. Len(p) \in Nat /\ Len(old) \in Nat /\ Len(new) \in Nat
  BY LenProperties DEF PathSet
<1>3. k \in 0..Len(q)
  OBVIOUS
<1> HIDE DEF q
<1>4. Upto(q, k) \in PathSet /\ Len(Upto(q, k)) = k /\ \A i \in 1..k : Upto(q, k)[i] = q[i]
  BY <1>1, <1>3, UptoIsPath
<1>5. ASSUME k <= Len(new) PROVE Upto(q, k) = Upto(new, k)
  <2>1. Upto(new, k) \in PathSet /\ Len(Upto(new, k)) = k /\ \A i \in 1..k : Upto(new, k)[i] = new[i]
    BY <1>2, <1>3, <1>5, UptoIsPath
  <2>2. \A i \in 1..k : Upto(q, k)[i] = Upto(new, k)[i]
    BY <1>1, <1>2, <1>3, <1>4, <1>5, <2>1
  <2> QED
    BY <1>4, <2>1, <2>2, SeqEqual DEF PathSet
<1>6. ASSUME k >= Len(new)
      PROVE  j \in 0..Len(p) /\ Under(Upto(p, j), old) /\ Upto(q, k) = N!Rebase(Upto(p, j), old, new)
  <2>1. j \in 0..Len(p) /\ Len(old) <= j
    BY <1>1, <1>2, <1>3, <1>6
  <2> HIDE DEF j
  <2>2. Upto(p, j) \in PathSet /\ Len(Upto(p, j)) = j /\ \A i \in 1..j : Upto(p, j)[i] = p[i]
    BY <2>1, UptoIsPath
  <2>3. Under(Upto(p, j), old)
    BY <2>1, UnderUpto
  <2>4. PICK a \in PathSet :
          /\ a = Upto(p, j) /\ Len(a) = j /\ Under(a, old)
          /\ \A i \in 1..j : a[i] = p[i]
    BY <2>2, <2>3
  <2> DEFINE b == N!Rebase(a, old, new)
  <2>0. /\ N!Rebase(a, old, new) \in PathSet
        /\ Len(N!Rebase(a, old, new)) = Len(new) + Len(a) - Len(old)
        /\ \A i \in 1..Len(N!Rebase(a, old, new)) :
             N!Rebase(a, old, new)[i] = IF i <= Len(new) THEN new[i] ELSE a[i - Len(new) + Len(old)]
    BY <2>4, RebaseIsPath
  <2> HIDE DEF b
  <2>5. /\ b \in PathSet /\ Len(b) = Len(new) + Len(a) - Len(old)
        /\ \A i \in 1..Len(b) : b[i] = IF i <= Len(new) THEN new[i] ELSE a[i - Len(new) + Len(old)]
    BY <2>0 DEF b
  <2>6. Len(b) = k
    BY <1>2, <2>4, <2>5, <1>3 DEF j
  <2>7. ASSUME NEW i \in 1..k PROVE Upto(q, k)[i] = b[i]
    <3>0. i \in 1..Len(q) /\ i \in 1..Len(b)
      BY <1>1, <1>2, <1>3, <2>6
    <3>1. CASE i <= Len(new)
      <4>1. q[i] = new[i] /\ b[i] = new[i]
        BY <1>1, <2>5, <3>0, <3>1
      <4> QED
        BY <1>4, <4>1
    <3>2. CASE ~(i <= Len(new))
      <4>1. i - Len(new) + Len(old) \in 1..j
        BY <1>2, <1>3, <3>2 DEF j
      <4>2. b[i] = p[i - Len(new) + Len(old)]
        BY <2>4, <2>5, <2>6, <3>2, <4>1
      <4>3. q[i] = p[i - Len(new) + Len(old)]
        BY <1>1, <3>0, <3>2
      <4> QED
        BY <1>4, <4>2, <4>3
    <3> QED
      BY <3>1, <3>2
  <2>8. Upto(q, k) = b
    BY <1>4, <2>5, <2>6, <2>7, SeqEqual DEF PathSet
  <2> QED
    BY <2>1, <2>3, <2>4, <2>8 DEF b
<1> QED
  BY <1>5, <1>6 DEF q, j

----------------------------------------------------------------------------
(* The tree.  F holds the paths files may be at, D those of directories.   *)

Closed(F, D) ==
    /\ F \subseteq PathSet \ {Root} /\ D \subseteq PathSet /\ Root \in D
    /\ FilePaths \subseteq F /\ \A f \in Files : Derived[f] \in F
    /\ DirPaths \subseteq D \ {Root} /\ MovePaths \subseteq D \ {Root}
    /\ \A p \in FilePaths : TrashPath \o p \in F
    /\ \A p \in F \cup D : \A k \in 0..Len(p) - 1 : Upto(p, k) \in D
    /\ \A old, new \in MovePaths :
         /\ \A p \in F : Under(p, old) => N!Rebase(p, old, new) \in F
         /\ \A p \in D : Under(p, old) => N!Rebase(p, old, new) \in D
         /\ \A p \in F : Rebased(p, old, new) \in F
         /\ \A p \in D : Rebased(p, old, new) \in D

EntriesIn(tree, F, D) ==
    \A p \in DOMAIN tree : (tree[p] = N!Dir => p \in D) /\ (tree[p] # N!Dir => p \in F)

\* Whatever is in the tree is in directories of the tree.
Hierarchy(tree) ==
    /\ Root \in DOMAIN tree /\ tree[Root] = N!Dir
    /\ \A p \in DOMAIN tree :
         \A k \in 0..Len(p) - 1 : Upto(p, k) \in DOMAIN tree /\ tree[Upto(p, k)] = N!Dir

\* mkdir_p adds the directories that are missing, and changes nothing else.
LEMMA WithDirsIs ==
    ASSUME NEW p
    PROVE  LET t == N!WithDirs(p)
           IN  /\ DOMAIN ns \subseteq DOMAIN t
               /\ \A q \in DOMAIN ns : t[q] = ns[q]
               /\ \A q \in DOMAIN t \ DOMAIN ns :
                    t[q] = N!Dir /\ \E k \in 1..Len(p) : q = Upto(p, k)
               /\ \A k \in 1..Len(p) : Upto(p, k) \in DOMAIN t
<1> DEFINE t == N!WithDirs(p)
           A == {Upto(p, k) : k \in 1..Len(p)}
<1>1. t = [q \in DOMAIN ns \cup (A \ DOMAIN ns) |-> IF q \in DOMAIN ns THEN ns[q] ELSE N!Dir]
  BY DEF N!WithDirs, N!Absent, N!Exists, N!Upto, Upto
<1> HIDE DEF t
<1>2. \A q \in A : \E k \in 1..Len(p) : q = Upto(p, k)
  OBVIOUS
<1>3. \A k \in 1..Len(p) : Upto(p, k) \in A
  OBVIOUS
<1> HIDE DEF A
<1> QED
  BY <1>1, <1>2, <1>3 DEF t

\* ... so no file comes or goes.
LEMMA WithDirsIds ==
    ASSUME NEW p
    PROVE  IdsIn(N!WithDirs(p)) = IdsIn(ns)
<1> DEFINE t == N!WithDirs(p)
<1>1. /\ DOMAIN ns \subseteq DOMAIN t
      /\ \A q \in DOMAIN ns : t[q] = ns[q]
      /\ \A q \in DOMAIN t \ DOMAIN ns : t[q] = N!Dir
  BY WithDirsIs
<1> HIDE DEF t
<1>2. IdsIn(t) \subseteq IdsIn(ns)
  BY <1>1 DEF IdsIn
<1>3. IdsIn(ns) \subseteq IdsIn(t)
  BY <1>1 DEF IdsIn
<1> QED
  BY <1>2, <1>3 DEF t

\* The directories above a path of the right kind are of the right kind.
LEMMA AboveIsIn ==
    ASSUME NEW F, NEW D, Closed(F, D), NEW p \in F \cup D, p # Root
    PROVE  /\ p \in PathSet /\ Parent(p) \in PathSet /\ Parent(p) \in D
           /\ Len(p) \in Nat \ {0} /\ Len(Parent(p)) = Len(p) - 1
           /\ \A k \in 0..Len(Parent(p)) : Upto(Parent(p), k) = Upto(p, k) /\ Upto(p, k) \in D
<1>1. p \in PathSet
  BY DEF Closed
<1>2. /\ Len(p) \in Nat \ {0}
      /\ Parent(p) = Upto(p, Len(p) - 1) /\ Parent(p) \in PathSet /\ Len(Parent(p)) = Len(p) - 1
      /\ \A k \in 0..Len(p) - 1 : Upto(Parent(p), k) = Upto(p, k)
  BY <1>1, ParentIsPath
<1>3. \A k \in 0..Len(p) - 1 : Upto(p, k) \in D
  BY DEF Closed
<1> QED
  BY <1>1, <1>2, <1>3

\* Every path begins at the root.
LEMMA UptoNone == ASSUME NEW p \in PathSet PROVE Upto(p, 0) = Root
<1>1. Len(p) \in Nat
  BY LenProperties DEF PathSet
<1>2. Upto(p, 0) \in PathSet /\ Len(Upto(p, 0)) = 0
  BY <1>1, UptoIsPath
<1> QED
  BY <1>2, EmptySeq DEF PathSet, Root

\* mkdir_p leaves a hierarchy behind, when no file is where a directory should
\* go.
LEMMA WithDirsTree ==
    ASSUME NEW F, NEW D, Closed(F, D), EntriesIn(ns, F, D),
           NEW p \in PathSet, \A k \in 0..Len(p) : Upto(p, k) \in D
    PROVE  /\ EntriesIn(N!WithDirs(p), F, D)
           /\ Hierarchy(ns) /\ F \cap D = {} => Hierarchy(N!WithDirs(p))
<1> DEFINE t == N!WithDirs(p)
<1>1. /\ DOMAIN ns \subseteq DOMAIN t
      /\ \A q \in DOMAIN ns : t[q] = ns[q]
      /\ \A q \in DOMAIN t \ DOMAIN ns : t[q] = N!Dir /\ \E k \in 1..Len(p) : q = Upto(p, k)
      /\ \A k \in 1..Len(p) : Upto(p, k) \in DOMAIN t
  BY WithDirsIs
<1>2. Len(p) \in Nat
  BY LenProperties DEF PathSet
<1> HIDE DEF t
<1>3. EntriesIn(t, F, D)
  BY <1>1, <1>2 DEF EntriesIn
<1>4. ASSUME Hierarchy(ns), F \cap D = {} PROVE Hierarchy(t)
  <2>1. Root \in DOMAIN t /\ t[Root] = N!Dir
    BY <1>1, <1>4 DEF Hierarchy
  <2>2. ASSUME NEW q \in DOMAIN t, NEW k \in 0..Len(q) - 1
        PROVE  Upto(q, k) \in DOMAIN t /\ t[Upto(q, k)] = N!Dir
    <3>1. CASE q \in DOMAIN ns
      <4>1. Upto(q, k) \in DOMAIN ns /\ ns[Upto(q, k)] = N!Dir
        BY <1>4, <3>1 DEF Hierarchy
      <4> QED
        BY <1>1, <4>1
    <3>2. CASE q \notin DOMAIN ns
      <4>1. PICK m \in 1..Len(p) : q = Upto(p, m)
        BY <1>1, <3>2
      <4>2. Len(q) = m /\ m \in 0..Len(p)
        BY <1>2, <4>1, UptoIsPath
      <4>3. k \in 0..m /\ k \in 0..Len(p)
        BY <1>2, <4>2
      <4>4. Upto(q, k) = Upto(p, k)
        BY <4>1, <4>2, <4>3, UptoUpto
      <4>5. CASE k = 0
        <5>1. Upto(p, k) = Root
          BY <4>5, UptoNone
        <5> QED
          BY <2>1, <4>4, <5>1
      <4>6. CASE k # 0
        <5>1. Upto(p, k) \in DOMAIN t
          BY <1>1, <1>2, <4>3, <4>6
        <5>2. Upto(p, k) \in D
          BY <4>3
        <5>3. t[Upto(p, k)] = N!Dir
          BY <1>3, <1>4, <5>1, <5>2 DEF EntriesIn
        <5> QED
          BY <4>4, <5>1, <5>3
      <4> QED
        BY <4>5, <4>6
    <3> QED
      BY <3>1, <3>2
  <2> QED
    BY <2>1, <2>2 DEF Hierarchy
<1> QED
  BY <1>3, <1>4 DEF t

\* An entry put where its directories are keeps the hierarchy.
LEMMA PutTree ==
    ASSUME NEW F, NEW D, Closed(F, D), NEW t, EntriesIn(t, F, D), NEW p \in F \cup D, p # Root,
           NEW u, DOMAIN u = DOMAIN t \cup {p}, \A q \in DOMAIN t \ {p} : u[q] = t[q],
           (u[p] = N!Dir => p \in D) /\ (u[p] # N!Dir => p \in F)
    PROVE  /\ EntriesIn(u, F, D)
           /\ /\ Hierarchy(t) /\ F \cap D = {}
              /\ \A k \in 0..Len(p) - 1 : Upto(p, k) \in DOMAIN t /\ t[Upto(p, k)] = N!Dir
              => Hierarchy(u)
<1> DEFINE e == u[p]
<1>1. /\ DOMAIN u = DOMAIN t \cup {p} /\ u[p] = e
      /\ \A q \in DOMAIN t \ {p} : u[q] = t[q]
  OBVIOUS
<1>2. EntriesIn(u, F, D)
  BY <1>1 DEF EntriesIn
<1>3. ASSUME Hierarchy(t), F \cap D = {},
             \A k \in 0..Len(p) - 1 : Upto(p, k) \in DOMAIN t /\ t[Upto(p, k)] = N!Dir
      PROVE  Hierarchy(u)
  <2>1. ASSUME NEW a \in DOMAIN t, t[a] = N!Dir PROVE a \in DOMAIN u /\ u[a] = N!Dir
    <3>1. CASE a # p
      BY <1>1, <2>1, <3>1
    <3>2. CASE a = p
      <4>1. p \in D
        BY <2>1, <3>2 DEF EntriesIn
      <4>2. e = N!Dir
        BY <1>3, <4>1
      <4> QED
        BY <1>1, <3>2, <4>2
    <3> QED
      BY <3>1, <3>2
  <2>2. ASSUME NEW q \in DOMAIN u, NEW k \in 0..Len(q) - 1
        PROVE  Upto(q, k) \in DOMAIN t /\ t[Upto(q, k)] = N!Dir
    BY <1>1, <1>3 DEF Hierarchy
  <2> QED
    BY <1>3, <2>1, <2>2 DEF Hierarchy
<1> QED
  BY <1>2, <1>3

\* A file, or an empty directory, can be taken away.
LEMMA RemoveTree ==
    ASSUME NEW F, NEW D, Closed(F, D), NEW t, EntriesIn(t, F, D), NEW x \in DOMAIN t
    PROVE  LET u == [q \in DOMAIN t \ {x} |-> t[q]]
           IN  /\ EntriesIn(u, F, D)
               /\ /\ Hierarchy(t) /\ x # Root
                  /\ t[x] # N!Dir \/ \A q \in DOMAIN t : Under(q, x) => q = x
                  => Hierarchy(u)
<1> DEFINE u == [q \in DOMAIN t \ {x} |-> t[q]]
<1>1. DOMAIN u = DOMAIN t \ {x} /\ \A q \in DOMAIN t \ {x} : u[q] = t[q]
  OBVIOUS
<1> HIDE DEF u
<1>2. EntriesIn(u, F, D)
  BY <1>1 DEF EntriesIn
<1>3. ASSUME Hierarchy(t), x # Root, t[x] # N!Dir \/ \A q \in DOMAIN t : Under(q, x) => q = x
      PROVE  Hierarchy(u)
  <2>1. ASSUME NEW q \in DOMAIN u, NEW k \in 0..Len(q) - 1
        PROVE  Upto(q, k) \in DOMAIN u /\ u[Upto(q, k)] = N!Dir
    <3>1. Upto(q, k) \in DOMAIN t /\ t[Upto(q, k)] = N!Dir
      BY <1>1, <1>3 DEF Hierarchy
    <3>2. Upto(q, k) # x
      <4>1. q \in PathSet
        BY <1>1 DEF EntriesIn, Closed
      <4>2. Len(q) \in Nat /\ k \in 0..Len(q)
        BY <4>1, LenProperties DEF PathSet
      <4>3. Len(Upto(q, k)) = k
        BY <4>1, <4>2, UptoIsPath
      <4>4. Upto(q, k) = x => Under(q, x)
        BY <4>2, <4>3 DEF Under
      <4> QED
        BY <1>1, <1>3, <3>1, <4>4
    <3> QED
      BY <1>1, <3>1, <3>2
  <2> QED
    BY <1>1, <1>3, <2>1 DEF Hierarchy
<1> QED
  BY <1>2, <1>3 DEF u

\* After mkdir_p of its parent, all the directories above a path are there.
LEMMA AboveIsThere ==
    ASSUME NEW F, NEW D, Closed(F, D), EntriesIn(ns, F, D), Hierarchy(ns), F \cap D = {},
           NEW p \in F \cup D, p # Root, NEW k \in 0..Len(p) - 1
    PROVE  /\ Upto(p, k) \in DOMAIN N!WithDirs(Parent(p))
           /\ N!WithDirs(Parent(p))[Upto(p, k)] = N!Dir
<1> DEFINE t == N!WithDirs(Parent(p))
<1>1. /\ Parent(p) \in PathSet /\ Len(p) \in Nat \ {0} /\ Len(Parent(p)) = Len(p) - 1 /\ p \in PathSet
      /\ \A j \in 0..Len(Parent(p)) : Upto(Parent(p), j) = Upto(p, j) /\ Upto(p, j) \in D
  BY AboveIsIn
<1>2. \A j \in 0..Len(Parent(p)) : Upto(Parent(p), j) \in D
  BY <1>1
<1>3. EntriesIn(t, F, D) /\ Hierarchy(t)
  BY <1>1, <1>2, WithDirsTree
<1>4. \A j \in 1..Len(Parent(p)) : Upto(Parent(p), j) \in DOMAIN t
  BY WithDirsIs
<1> HIDE DEF t
<1>5. k \in 0..Len(Parent(p)) /\ Upto(Parent(p), k) = Upto(p, k) /\ Upto(p, k) \in D
  BY <1>1
<1>6. Upto(p, k) \in DOMAIN t
  <2>1. CASE k = 0
    <3>1. Upto(p, k) = Root
      BY <1>1, <2>1, UptoNone
    <3> QED
      BY <1>3, <3>1 DEF Hierarchy
  <2>2. CASE k # 0
    BY <1>1, <1>4, <1>5, <2>2
  <2> QED
    BY <2>1, <2>2
<1>7. t[Upto(p, k)] = N!Dir
  BY <1>3, <1>5, <1>6 DEF EntriesIn
<1> QED
  BY <1>6, <1>7 DEF t

\* add_file and mkdir: an entry at a path, below directories made for it.
LEMMA WithEntryTree ==
    ASSUME NEW F, NEW D, Closed(F, D), EntriesIn(ns, F, D),
           NEW p \in F \cup D, p # Root,
           NEW e, (e = N!Dir => p \in D) /\ (e # N!Dir => p \in F)
    PROVE  /\ EntriesIn(N!WithEntry(p, e), F, D)
           /\ Hierarchy(ns) /\ F \cap D = {} => Hierarchy(N!WithEntry(p, e))
<1> DEFINE t == N!WithDirs(Parent(p))
           u == [q \in DOMAIN t \cup {p} |-> IF q = p THEN e ELSE t[q]]
<1>1. /\ Parent(p) \in PathSet /\ Len(p) \in Nat \ {0} /\ Len(Parent(p)) = Len(p) - 1
      /\ \A j \in 0..Len(Parent(p)) : Upto(Parent(p), j) = Upto(p, j) /\ Upto(p, j) \in D
  BY AboveIsIn
<1>2. \A j \in 0..Len(Parent(p)) : Upto(Parent(p), j) \in D
  BY <1>1
<1>3. EntriesIn(t, F, D) /\ (Hierarchy(ns) /\ F \cap D = {} => Hierarchy(t))
  BY <1>1, <1>2, WithDirsTree
<1>4. Hierarchy(ns) /\ F \cap D = {} =>
        \A k \in 0..Len(p) - 1 : Upto(p, k) \in DOMAIN t /\ t[Upto(p, k)] = N!Dir
  BY AboveIsThere
<1>5. N!WithEntry(p, e) = u
  BY DEF N!WithEntry, N!Parent, Parent
<1> HIDE DEF t
<1>6. DOMAIN u = DOMAIN t \cup {p} /\ u[p] = e /\ \A q \in DOMAIN t \ {p} : u[q] = t[q]
  OBVIOUS
<1> HIDE DEF u
<1>7. EntriesIn(u, F, D)
  BY <1>3, <1>6, PutTree
<1>8. Hierarchy(ns) /\ F \cap D = {} => Hierarchy(u)
  BY <1>3, <1>4, <1>6, PutTree
<1> QED
  BY <1>5, <1>7, <1>8

\* A file renamed, to where nothing is and its directory is there, leaves a
\* hierarchy with the same files.
LEMMA RenamedFileTree ==
    ASSUME NEW F, NEW D, Closed(F, D), NEW t, EntriesIn(t, F, D),
           NEW old, NEW new \in F, CanRename(t, old, new)
    PROVE  /\ EntriesIn(RenamedFile(t, old, new), F, D)
           /\ Hierarchy(t) /\ F \cap D = {} => Hierarchy(RenamedFile(t, old, new))
           /\ IdsIn(RenamedFile(t, old, new)) = IdsIn(t)
<1> DEFINE r == [q \in DOMAIN t \ {old} |-> t[q]]
           u == [q \in DOMAIN r \cup {new} |-> IF q = new THEN t[old] ELSE r[q]]
<1>1. /\ old \in DOMAIN t /\ t[old] # N!Dir /\ new \notin DOMAIN t
      /\ Parent(new) \in DOMAIN t /\ t[Parent(new)] = N!Dir
  BY DEF CanRename
<1>2. RenamedFile(t, old, new) = u
  BY DEF RenamedFile, Insert, Remove
<1>3. DOMAIN r = DOMAIN t \ {old} /\ \A q \in DOMAIN r : r[q] = t[q]
  OBVIOUS
<1>0. /\ DOMAIN u = DOMAIN r \cup {new} /\ u[new] = t[old]
      /\ \A q \in DOMAIN r \ {new} : u[q] = r[q]
  OBVIOUS
<1>4. EntriesIn(r, F, D)
  BY <1>1, RemoveTree
<1>5. new # Root /\ new \in F \cup D
  BY DEF Closed
<1>6. (t[old] = N!Dir => new \in D) /\ (t[old] # N!Dir => new \in F)
  BY <1>1
<1>7. ASSUME Hierarchy(t), F \cap D = {} PROVE Hierarchy(r)
  <2>1. old # Root
    BY <1>1, <1>7 DEF Hierarchy
  <2> QED
    BY <1>1, <1>7, <2>1, RemoveTree
<1>8. ASSUME Hierarchy(t), NEW k \in 0..Len(new) - 1
      PROVE  Upto(new, k) \in DOMAIN r /\ r[Upto(new, k)] = N!Dir
  <2>1. /\ Len(new) \in Nat \ {0} /\ Parent(new) = Upto(new, Len(new) - 1)
        /\ Len(Parent(new)) = Len(new) - 1
        /\ \A j \in 0..Len(new) - 1 : Upto(Parent(new), j) = Upto(new, j)
    BY <1>5, ParentIsPath DEF Closed
  <2>2. Upto(new, k) \in DOMAIN t /\ t[Upto(new, k)] = N!Dir
    <3>1. CASE k = Len(new) - 1
      BY <1>1, <2>1, <3>1
    <3>2. CASE k # Len(new) - 1
      <4>1. k \in 0..Len(Parent(new)) - 1
        BY <2>1, <3>2
      <4>2. Upto(Parent(new), k) \in DOMAIN t /\ t[Upto(Parent(new), k)] = N!Dir
        BY <1>1, <1>8, <4>1 DEF Hierarchy
      <4> QED
        BY <2>1, <4>2
    <3> QED
      BY <3>1, <3>2
  <2> QED
    BY <1>1, <1>3, <2>2
<1>9. IdsIn(u) = IdsIn(t)
  <2>1. DOMAIN u = (DOMAIN t \ {old}) \cup {new} /\ u[new] = t[old]
        /\ \A q \in DOMAIN t \ {old} : u[q] = t[q]
    BY <1>1, <1>3
  <2> HIDE DEF u
  <2>2. IdsIn(u) \subseteq IdsIn(t)
    BY <1>1, <2>1 DEF IdsIn
  <2>3. IdsIn(t) \subseteq IdsIn(u)
    BY <1>1, <2>1 DEF IdsIn
  <2> QED
    BY <2>2, <2>3
<1>10. EntriesIn(u, F, D)
  <2> HIDE DEF r, u
  <2> QED
    BY <1>0, <1>4, <1>5, <1>6, PutTree
<1>11. ASSUME Hierarchy(t), F \cap D = {} PROVE Hierarchy(u)
  <2>1. Hierarchy(r) /\ \A k \in 0..Len(new) - 1 : Upto(new, k) \in DOMAIN r /\ r[Upto(new, k)] = N!Dir
    BY <1>7, <1>8, <1>11
  <2> HIDE DEF r, u
  <2> QED
    BY <1>0, <1>4, <1>5, <1>6, <1>11, <2>1, PutTree
<1> QED
  BY <1>2, <1>9, <1>10, <1>11

\* What a directory moved takes with it: every path below it, and no other.
LEMMA MovedIs ==
    ASSUME NEW F, NEW D, Closed(F, D), EntriesIn(ns, F, D),
           NEW old \in MovePaths, NEW new \in MovePaths
    PROVE  LET B == {q \in DOMAIN ns : Under(q, old)}
               T == {N!Rebase(q, old, new) : q \in B}
               m == N!Moved(old, new)
           IN  /\ DOMAIN m = (DOMAIN ns \ B) \cup T
               /\ \A q \in B : m[N!Rebase(q, old, new)] = ns[q] /\ Under(N!Rebase(q, old, new), new)
               /\ \A q \in (DOMAIN ns \ B) \ T : m[q] = ns[q]
<1> DEFINE B == {q \in DOMAIN ns : Under(q, old)}
           T == {N!Rebase(q, old, new) : q \in B}
           m == [q \in (DOMAIN ns \ B) \cup T |-> IF q \in T THEN ns[N!Rebase(q, new, old)] ELSE ns[q]]
<1>1. N!Moved(old, new) = m
  BY DEF N!Moved, N!Below, N!Under, Under, N!Upto, Upto
<1>2. ASSUME NEW q \in B
      PROVE  /\ N!Rebase(q, old, new) \in T /\ Under(N!Rebase(q, old, new), new)
             /\ N!Rebase(N!Rebase(q, old, new), new, old) = q
  <2>1. q \in PathSet /\ old \in PathSet /\ new \in PathSet /\ Under(q, old)
    BY DEF EntriesIn, Closed
  <2> QED
    BY <2>1, RebaseBack
<1>3. \A q \in B : m[N!Rebase(q, old, new)] = ns[q]
  <2> HIDE DEF B, T
  <2> QED
    BY <1>2
<1>4. \A q \in (DOMAIN ns \ B) \ T : m[q] = ns[q]
  OBVIOUS
<1> QED
  BY <1>1, <1>2, <1>3, <1>4

\* rename_directory leaves a hierarchy with the same files: nothing is below
\* a path where nothing is, so nothing is overwritten.
LEMMA MovedTree ==
    ASSUME NEW F, NEW D, Closed(F, D), EntriesIn(ns, F, D),
           NEW old \in MovePaths, NEW new \in MovePaths, N!CanMove(old, new), ~Under(new, old)
    PROVE  /\ EntriesIn(N!Moved(old, new), F, D)
           /\ IdsIn(N!Moved(old, new)) \subseteq IdsIn(ns)
           /\ Hierarchy(ns) => /\ Hierarchy(N!Moved(old, new))
                               /\ IdsIn(ns) \subseteq IdsIn(N!Moved(old, new))
<1> DEFINE B == {q \in DOMAIN ns : Under(q, old)}
           T == {N!Rebase(q, old, new) : q \in B}
           m == N!Moved(old, new)
<1>1. /\ DOMAIN m = (DOMAIN ns \ B) \cup T
      /\ \A q \in B : m[N!Rebase(q, old, new)] = ns[q] /\ Under(N!Rebase(q, old, new), new)
      /\ \A q \in (DOMAIN ns \ B) \ T : m[q] = ns[q]
  BY MovedIs
<1> HIDE DEF m
<1>2. \A q \in T : \E b \in B : q = N!Rebase(b, old, new)
  OBVIOUS
<1>3. \A b \in B : N!Rebase(b, old, new) \in T
  OBVIOUS
<1>4. \A q \in DOMAIN ns : q \in B <=> Under(q, old)
  OBVIOUS
<1>5. B \subseteq DOMAIN ns
  OBVIOUS
<1> HIDE DEF B, T
<1>6. /\ old \in PathSet /\ new \in PathSet /\ old # Root /\ new # Root
      /\ \A q \in DOMAIN ns : q \in PathSet
  BY DEF Closed, EntriesIn
<1>7. new \notin DOMAIN ns /\ Parent(new) \in DOMAIN ns /\ ns[Parent(new)] = N!Dir
  BY DEF N!CanMove, N!Exists, N!IsDirectory, N!Parent, Parent
<1>8. EntriesIn(m, F, D)
  <2>1. ASSUME NEW b \in B
        PROVE  LET q == N!Rebase(b, old, new)
               IN  (m[q] = N!Dir => q \in D) /\ (m[q] # N!Dir => q \in F)
    <3>1. (ns[b] = N!Dir => b \in D) /\ (ns[b] # N!Dir => b \in F) /\ Under(b, old)
      BY <1>4, <1>5 DEF EntriesIn
    <3>2. (b \in D => N!Rebase(b, old, new) \in D) /\ (b \in F => N!Rebase(b, old, new) \in F)
      BY <3>1 DEF Closed
    <3> QED
      BY <1>1, <3>1, <3>2
  <2>2. ASSUME NEW q \in DOMAIN m PROVE (m[q] = N!Dir => q \in D) /\ (m[q] # N!Dir => q \in F)
    <3>1. CASE q \in T
      BY <1>2, <2>1, <3>1
    <3>2. CASE q \notin T
      <4>1. q \in DOMAIN ns /\ m[q] = ns[q]
        BY <1>1, <3>2
      <4> QED
        BY <4>1 DEF EntriesIn
    <3> QED
      BY <3>1, <3>2
  <2> QED
    BY <2>2 DEF EntriesIn
<1>9. IdsIn(m) \subseteq IdsIn(ns)
  <2>1. ASSUME NEW q \in DOMAIN m PROVE \E b \in DOMAIN ns : m[q] = ns[b]
    <3>1. CASE q \in T
      BY <1>1, <1>2, <1>5, <3>1
    <3>2. CASE q \notin T
      BY <1>1, <3>2
    <3> QED
      BY <3>1, <3>2
  <2> QED
    BY <2>1 DEF IdsIn
<1>10. ASSUME Hierarchy(ns) PROVE Hierarchy(m) /\ IdsIn(ns) \subseteq IdsIn(m)
  <2>1. ASSUME NEW q \in DOMAIN ns PROVE ~Under(q, new)
    <3>1. SUFFICES ASSUME Under(q, new) PROVE FALSE
      OBVIOUS
    <3>2. Len(q) \in Nat /\ Len(new) \in Nat /\ Len(new) <= Len(q) /\ Upto(q, Len(new)) = new
      BY <1>6, <3>1, LenProperties DEF PathSet, Under
    <3>3. CASE Len(new) < Len(q)
      <4>1. Len(new) \in 0..Len(q) - 1
        BY <3>2, <3>3
      <4> QED
        BY <1>7, <1>10, <3>2, <4>1 DEF Hierarchy
    <3>4. CASE Len(new) = Len(q)
      <4>1. \A i \in 1..Len(new) : q[i] = new[i]
        BY <1>6, <3>1, UnderMeans
      <4>2. q = new
        BY <1>6, <3>4, <4>1, SeqEqual DEF PathSet
      <4> QED
        BY <1>7, <4>2
    <3> QED
      BY <3>2, <3>3, <3>4
  <2>2. T \cap DOMAIN ns = {}
    BY <1>1, <1>2, <2>1
  <2>3. \A q \in DOMAIN ns \ B : q \in DOMAIN m /\ m[q] = ns[q]
    BY <1>1, <2>2
  <2>4. IdsIn(ns) \subseteq IdsIn(m)
    <3>1. ASSUME NEW q \in DOMAIN ns PROVE \E r \in DOMAIN m : m[r] = ns[q]
      <4>1. CASE q \in B
        BY <1>1, <1>3, <4>1
      <4>2. CASE q \notin B
        BY <2>3, <4>2
      <4> QED
        BY <4>1, <4>2
    <3> QED
      BY <3>1 DEF IdsIn
  <2>5. Root \in DOMAIN m /\ m[Root] = N!Dir
    <3>1. ~Under(Root, old)
      <4>1. Len(old) \in Nat \ {0} /\ Len(Root) = 0
        BY <1>6, EmptySeq DEF PathSet, Root
      <4> QED
        BY <4>1 DEF Under
    <3> QED
      BY <1>4, <1>10, <2>3, <3>1 DEF Hierarchy
  <2>6. ASSUME NEW q \in T, NEW k \in 0..Len(q) - 1
        PROVE  Upto(q, k) \in DOMAIN m /\ m[Upto(q, k)] = N!Dir
    <3>1. PICK b \in B : q = N!Rebase(b, old, new)
      BY <1>2
    <3>2. b \in PathSet /\ Under(b, old) /\ b \in DOMAIN ns
      BY <1>4, <1>5, <1>6
    <3>3. q \in PathSet /\ Len(q) = Len(new) + Len(b) - Len(old) /\ Len(old) <= Len(b)
      BY <1>6, <3>1, <3>2, RebaseIsPath
    <3>4. Len(q) \in Nat /\ Len(new) \in Nat /\ Len(b) \in Nat /\ Len(old) \in Nat
      BY <1>6, <3>2, <3>3, LenProperties DEF PathSet
    <3>5. k \in 0..Len(N!Rebase(b, old, new))
      BY <3>1, <3>4
    <3>6. CASE k >= Len(new)
      <4>1. PICK j \in 0..Len(b) : /\ j = k - Len(new) + Len(old) /\ Under(Upto(b, j), old)
                                   /\ Upto(q, k) = N!Rebase(Upto(b, j), old, new)
        BY <1>6, <3>1, <3>2, <3>5, <3>6, UptoRebase
      <4>2. j \in 0..Len(b) - 1
        BY <3>3, <3>4, <4>1
      <4>3. Upto(b, j) \in DOMAIN ns /\ ns[Upto(b, j)] = N!Dir
        BY <1>10, <3>2, <4>2 DEF Hierarchy
      <4>4. Upto(b, j) \in B
        BY <1>4, <4>1, <4>3
      <4> QED
        BY <1>1, <1>3, <4>1, <4>3, <4>4
    <3>7. CASE k < Len(new)
      <4>1. Upto(q, k) = Upto(new, k)
        BY <1>6, <3>1, <3>2, <3>4, <3>5, <3>7, UptoRebase
      <4>2. /\ Parent(new) = Upto(new, Len(new) - 1) /\ Len(Parent(new)) = Len(new) - 1
            /\ \A j \in 0..Len(new) - 1 : Upto(Parent(new), j) = Upto(new, j)
        BY <1>6, ParentIsPath
      <4>3. Upto(new, k) \in DOMAIN ns /\ ns[Upto(new, k)] = N!Dir
        <5>1. CASE k = Len(new) - 1
          BY <1>7, <4>2, <5>1
        <5>2. CASE k # Len(new) - 1
          <6>1. k \in 0..Len(Parent(new)) - 1 /\ k \in 0..Len(new) - 1
            BY <3>4, <3>7, <4>2, <5>2
          <6> QED
            BY <1>7, <1>10, <4>2, <6>1 DEF Hierarchy
        <5> QED
          BY <5>1, <5>2
      <4>4. ~Under(Upto(new, k), old)
        <5>1. k \in 0..Len(new)
          BY <3>4, <3>7
        <5> QED
          BY <1>6, <5>1, UnderUpto
      <4>5. Upto(new, k) \notin B
        BY <1>4, <4>3, <4>4
      <4> QED
        BY <2>3, <4>1, <4>3, <4>5
    <3> QED
      BY <3>4, <3>6, <3>7
  <2>7. ASSUME NEW q \in DOMAIN ns \ B, NEW k \in 0..Len(q) - 1
        PROVE  Upto(q, k) \in DOMAIN m /\ m[Upto(q, k)] = N!Dir
    <3>1. Upto(q, k) \in DOMAIN ns /\ ns[Upto(q, k)] = N!Dir
      BY <1>10 DEF Hierarchy
    <3>2. ~Under(Upto(q, k), old)
      <4>1. q \in PathSet /\ ~Under(q, old)
        BY <1>4, <1>6
      <4>2. k \in 0..Len(q)
        BY <4>1, LenProperties DEF PathSet
      <4> QED
        BY <1>6, <4>1, <4>2, UnderUpto
    <3>3. Upto(q, k) \notin B
      BY <1>4, <3>1, <3>2
    <3> QED
      BY <2>3, <3>1, <3>3
  <2>8. \A q \in DOMAIN m : \A k \in 0..Len(q) - 1 : Upto(q, k) \in DOMAIN m /\ m[Upto(q, k)] = N!Dir
    BY <1>1, <2>6, <2>7
  <2> QED
    BY <2>4, <2>5, <2>8 DEF Hierarchy
<1> QED
  BY <1>8, <1>9, <1>10 DEF m

\* The tree that a process starts with is the root.
LEMMA EmptyTreeIs ==
    ASSUME NEW F, NEW D, Closed(F, D)
    PROVE  EntriesIn(EmptyTree, F, D) /\ Hierarchy(EmptyTree) /\ IdsIn(EmptyTree) = {}
<1>1. DOMAIN EmptyTree = {Root} /\ EmptyTree[Root] = N!Dir
  BY DEF EmptyTree
<1>2. Len(Root) = 0 /\ 0..0 - 1 = {}
  BY EmptySeq DEF Root
<1>3. EntriesIn(EmptyTree, F, D)
  BY <1>1 DEF EntriesIn, Closed
<1>4. \A k \in 0..Len(Root) - 1 : FALSE
  BY <1>2
<1>5. Hierarchy(EmptyTree)
  BY <1>1, <1>4 DEF Hierarchy
<1>6. IdsIn(EmptyTree) = {}
  BY <1>1 DEF IdsIn
<1> QED
  BY <1>3, <1>5, <1>6

\* restore_directories brings a directory back below those it needs, which
\* are in the tree or were restored just before.
LEMMA RestoredTree ==
    ASSUME NEW F, NEW D, Closed(F, D), EntriesIn(ns, F, D), directories \subseteq D
    PROVE  LET t == [p \in DOMAIN ns \cup Restorable |-> IF N!Exists(p) THEN ns[p] ELSE N!Dir]
           IN  /\ EntriesIn(t, F, D)
               /\ IdsIn(t) = IdsIn(ns)
               /\ Hierarchy(ns) => Hierarchy(t)
<1> DEFINE t == [p \in DOMAIN ns \cup Restorable |-> IF N!Exists(p) THEN ns[p] ELSE N!Dir]
<1>1. /\ DOMAIN t = DOMAIN ns \cup Restorable
      /\ \A p \in DOMAIN ns : t[p] = ns[p]
      /\ \A p \in DOMAIN t \ DOMAIN ns : t[p] = N!Dir
  BY DEF N!Exists
<1>2. /\ Restorable \subseteq D
      /\ \A d \in Restorable : \A k \in 1..Len(d) - 1 :
           \/ Upto(d, k) \in DOMAIN ns /\ ns[Upto(d, k)] = N!Dir
           \/ Upto(d, k) \in directories \ DOMAIN ns
  BY DEF Restorable, N!IsDirectory, N!Exists
<1>3. ASSUME NEW d \in Restorable, NEW k \in 1..Len(d) - 1, Upto(d, k) \in directories \ DOMAIN ns
      PROVE  Upto(d, k) \in Restorable
  <2>1. d \in PathSet /\ Len(d) \in Nat /\ k \in 0..Len(d)
    BY <1>2, LenProperties DEF Closed, PathSet
  <2>2. Len(Upto(d, k)) = k
    BY <2>1, UptoIsPath
  <2>3. \A j \in 1..k - 1 : Upto(Upto(d, k), j) = Upto(d, j) /\ j \in 1..Len(d) - 1
    BY <2>1, UptoUpto
  <2>4. \A j \in 1..k - 1 : \/ Upto(d, j) \in DOMAIN ns /\ ns[Upto(d, j)] = N!Dir
                            \/ Upto(d, j) \in directories \ DOMAIN ns
    BY <1>2, <2>3
  <2>5. \A j \in 1..Len(Upto(d, k)) - 1 :
           \/ N!IsDirectory(Upto(Upto(d, k), j))
           \/ Upto(Upto(d, k), j) \in directories \ DOMAIN ns
    BY <2>2, <2>3, <2>4 DEF N!IsDirectory, N!Exists
  <2> QED
    BY <1>3, <2>5 DEF Restorable
<1> HIDE DEF t
<1>4. EntriesIn(t, F, D)
  BY <1>1, <1>2 DEF EntriesIn
<1>5. IdsIn(t) = IdsIn(ns)
  <2>1. IdsIn(t) \subseteq IdsIn(ns)
    BY <1>1 DEF IdsIn
  <2>2. IdsIn(ns) \subseteq IdsIn(t)
    BY <1>1 DEF IdsIn
  <2> QED
    BY <2>1, <2>2
<1>6. ASSUME Hierarchy(ns) PROVE Hierarchy(t)
  <2>1. Root \in DOMAIN t /\ t[Root] = N!Dir
    BY <1>1, <1>6 DEF Hierarchy
  <2>2. ASSUME NEW p \in DOMAIN t, NEW k \in 0..Len(p) - 1
        PROVE  Upto(p, k) \in DOMAIN t /\ t[Upto(p, k)] = N!Dir
    <3>1. CASE p \in DOMAIN ns
      <4>1. Upto(p, k) \in DOMAIN ns /\ ns[Upto(p, k)] = N!Dir
        BY <1>6, <3>1 DEF Hierarchy
      <4> QED
        BY <1>1, <4>1
    <3>2. CASE p \notin DOMAIN ns
      <4>1. p \in Restorable /\ p \in PathSet /\ Len(p) \in Nat
        BY <1>1, <1>2, <3>2, LenProperties DEF Closed, PathSet
      <4>2. CASE k = 0
        BY <2>1, <4>1, <4>2, UptoNone
      <4>3. CASE k # 0
        <5>1. k \in 1..Len(p) - 1
          BY <4>1, <4>3
        <5>2. CASE Upto(p, k) \in DOMAIN ns /\ ns[Upto(p, k)] = N!Dir
          BY <1>1, <5>2
        <5>3. CASE Upto(p, k) \in directories \ DOMAIN ns
          <6>1. Upto(p, k) \in Restorable
            BY <1>3, <4>1, <5>1, <5>3
          <6> QED
            BY <1>1, <5>3, <6>1
        <5> QED
          BY <1>2, <4>1, <5>1, <5>2, <5>3
      <4> QED
        BY <4>2, <4>3
    <3> QED
      BY <3>1, <3>2
  <2> QED
    BY <2>1, <2>2 DEF Hierarchy
<1> QED
  BY <1>4, <1>5, <1>6 DEF t

----------------------------------------------------------------------------
(* The database.                                                           *)

IsRow(r) == r = [key |-> r.key, path |-> r.path, trashed |-> r.trashed,
                 original |-> r.original, trashed_at |-> r.trashed_at]

RowsIn(F) ==
    \A i \in DOMAIN rows :
      IsRow(rows[i]) /\ rows[i].path \in F /\ (rows[i].trashed => rows[i].original \in F)

\* get_file_by_real_path returns a row with the key asked for.
LEMMA RowIdIs ==
    ASSUME NEW key, HasRow(key)
    PROVE  RowId(key) \in DOMAIN rows /\ rows[RowId(key)].key = key
BY DEF HasRow, RowId

\* A row with its path changed.
LEMMA RowMoved ==
    ASSUME NEW r, IsRow(r), NEW path, NEW s, s = [r EXCEPT !.path = path]
    PROVE  /\ IsRow(s) /\ s.key = r.key
           /\ s.path = path /\ s.trashed = r.trashed /\ s.original = r.original
           /\ path = r.path => s = r
<1> DEFINE k == r.key  b == r.trashed  o == r.original  a == r.trashed_at  p == r.path
<1>1. r = [key |-> k, path |-> p, trashed |-> b, original |-> o, trashed_at |-> a]
  BY DEF IsRow
<1> HIDE DEF k, b, o, a, p
<1>2. s = [key |-> k, path |-> path, trashed |-> b, original |-> o, trashed_at |-> a]
  BY <1>1
<1>3. r.key = k /\ r.trashed = b /\ r.original = o /\ r.path = p
  BY <1>1
<1>4. s.key = k /\ s.path = path /\ s.trashed = b /\ s.original = o /\ s.trashed_at = a
  BY <1>2
<1> QED
  BY <1>1, <1>2, <1>3, <1>4 DEF IsRow

\* A row put in the trash, or taken out of it.
Marked(r, mark, from, at) == [r EXCEPT !.trashed = mark, !.original = from, !.trashed_at = at]

\* mark_trashed and unmark_trashed set the trash columns and leave the path.
LEMMA RowMarked ==
    ASSUME NEW r, IsRow(r), NEW mark, NEW from, NEW at
    PROVE  /\ IsRow(Marked(r, mark, from, at))
           /\ Marked(r, mark, from, at).key = r.key /\ Marked(r, mark, from, at).path = r.path
           /\ Marked(r, mark, from, at).trashed = mark /\ Marked(r, mark, from, at).original = from
<1> DEFINE k == r.key  b == r.trashed  o == r.original  a == r.trashed_at  p == r.path
           u == [key |-> k, path |-> p, trashed |-> mark, original |-> from, trashed_at |-> at]
           v == Marked(r, mark, from, at)
           Columns == {"key", "path", "trashed", "original", "trashed_at"}
<1>1. r = [key |-> k, path |-> p, trashed |-> b, original |-> o, trashed_at |-> a]
  BY DEF IsRow
<1> HIDE DEF k, b, o, a, p
<1>2. u.key = k /\ u.path = p /\ u.trashed = mark /\ u.original = from /\ u.trashed_at = at
  OBVIOUS
<1>3. IsRow(u)
  BY <1>2 DEF IsRow
<1>4. DOMAIN r = Columns /\ r["key"] = k /\ r["path"] = p
  BY <1>1
<1>5. /\ v["trashed"] = mark /\ v["original"] = from /\ v["trashed_at"] = at
      /\ v["key"] = k /\ v["path"] = p
  BY <1>4 DEF Marked
<1>6. v = [c \in Columns |-> v[c]]
  BY <1>4 DEF Marked
<1>7. u = [c \in Columns |-> u[c]]
  OBVIOUS
<1> HIDE DEF v
<1>8. v = u
  BY <1>2, <1>5, <1>6, <1>7
<1>9. r.key = k /\ r.path = p
  BY <1>1
<1> HIDE DEF u
<1> QED
  BY <1>2, <1>3, <1>8, <1>9 DEF v

\* An insert, or the update of a row's path.
LEMMA UpsertKeepsRows ==
    ASSUME NEW F, RowsIn(F), NEW key, NEW path \in F, Upsert(key, path)
    PROVE  RowsIn(F)'
<1>1. CASE HasRow(key)
  <2>1. rows' = [rows EXCEPT ![RowId(key)].path = path]
    BY <1>1 DEF Upsert
  <2>2. /\ DOMAIN rows' = DOMAIN rows
        /\ \A i \in DOMAIN rows :
             rows'[i] = IF i = RowId(key) THEN [rows[i] EXCEPT !.path = path] ELSE rows[i]
    BY <1>1, <2>1, RowIdIs
  <2>3. ASSUME NEW i \in DOMAIN rows
        PROVE  /\ IsRow(rows'[i]) /\ rows'[i].path \in F
               /\ (rows'[i].trashed => rows'[i].original \in F)
    <3>1. IsRow(rows[i]) /\ rows[i].path \in F /\ (rows[i].trashed => rows[i].original \in F)
      BY DEF RowsIn
    <3>2. CASE i = RowId(key)
      <4>1. rows'[i] = [rows[i] EXCEPT !.path = path]
        BY <2>2, <3>2
      <4> QED
        BY <3>1, <4>1, RowMoved
    <3>3. CASE i # RowId(key)
      BY <2>2, <3>1, <3>3
    <3> QED
      BY <3>2, <3>3
  <2> QED
    BY <2>2, <2>3 DEF RowsIn
<1>2. CASE ~HasRow(key)
  <2>1. /\ DOMAIN rows' = DOMAIN rows \cup {NextId}
        /\ rows'[NextId] = NewRow(key, path)
        /\ \A i \in DOMAIN rows : i # NextId => rows'[i] = rows[i]
    BY <1>2 DEF Upsert, Insert
  <2>2. IsRow(NewRow(key, path)) /\ NewRow(key, path).path = path /\ NewRow(key, path).trashed = FALSE
    BY DEF NewRow, IsRow
  <2> QED
    BY <2>1, <2>2 DEF RowsIn
<1> QED
  BY <1>1, <1>2

\* update_virtual_path, mark_trashed and unmark_trashed.
LEMMA UpdatesKeepRows ==
    ASSUME NEW F, RowsIn(F), NEW id, NEW path \in F, NEW time,
           UpdateVirtualPath(id, path) \/ MarkTrashed(id, path, time) \/ UnmarkTrashed(id)
    PROVE  RowsIn(F)'
<1>1. CASE id \notin DOMAIN rows
  BY <1>1 DEF UpdateVirtualPath, MarkTrashed, UnmarkTrashed, RowsIn
<1>2. CASE id \in DOMAIN rows
  <2>1. IsRow(rows[id]) /\ rows[id].path \in F /\ (rows[id].trashed => rows[id].original \in F)
    BY <1>2 DEF RowsIn
  <2>2. PICK r : /\ rows' = [rows EXCEPT ![id] = r]
                 /\ IsRow(r) /\ r.path \in F /\ (r.trashed => r.original \in F)
    <3>1. CASE UpdateVirtualPath(id, path)
      <4>1. rows' = [rows EXCEPT ![id] = [rows[id] EXCEPT !.path = path]]
        BY <1>2, <3>1 DEF UpdateVirtualPath
      <4>2. PICK r : r = [rows[id] EXCEPT !.path = path]
        OBVIOUS
      <4>3. IsRow(r) /\ r.path \in F /\ (r.trashed => r.original \in F)
        BY <2>1, <4>2, RowMoved
      <4> QED
        BY <4>1, <4>2, <4>3
    <3>2. CASE MarkTrashed(id, path, time)
      <4>1. PICK mark : mark = TRUE
        OBVIOUS
      <4>2. PICK r : r = Marked(rows[id], mark, path, time)
        OBVIOUS
      <4>3. rows' = [rows EXCEPT ![id] = r]
        BY <1>2, <3>2, <4>1, <4>2 DEF MarkTrashed, Marked
      <4>4. IsRow(r) /\ r.path = rows[id].path /\ r.trashed = mark /\ r.original = path
        BY <2>1, <4>2, RowMarked
      <4> QED
        BY <2>1, <4>1, <4>3, <4>4
    <3>3. CASE UnmarkTrashed(id)
      <4>1. PICK mark : mark = FALSE
        OBVIOUS
      <4>2. PICK r : r = Marked(rows[id], mark, Root, 0)
        OBVIOUS
      <4>3. rows' = [rows EXCEPT ![id] = r]
        BY <1>2, <3>3, <4>1, <4>2 DEF UnmarkTrashed, Marked
      <4>4. IsRow(r) /\ r.path = rows[id].path /\ r.trashed = mark /\ r.original = Root
        BY <2>1, <4>2, RowMarked
      <4> QED
        BY <2>1, <4>1, <4>3, <4>4
    <3> QED
      BY <3>1, <3>2, <3>3
  <2>3. DOMAIN rows' = DOMAIN rows /\ \A i \in DOMAIN rows : rows'[i] = IF i = id THEN r ELSE rows[i]
    BY <2>2
  <2> QED
    BY <2>2, <2>3 DEF RowsIn
<1> QED
  BY <1>1, <1>2

\* The statement of rename_directory that rewrites the paths below.
LEMMA RenameKeepsRows ==
    ASSUME NEW F, NEW D, Closed(F, D), RowsIn(F), NEW old \in MovePaths, NEW new \in MovePaths,
           RenameRows(old, new)
    PROVE  RowsIn(F)'
<1>1. /\ DOMAIN rows' = DOMAIN rows
      /\ \A i \in DOMAIN rows :
           rows'[i] = [rows[i] EXCEPT !.path = Rebased(rows[i].path, old, new)]
  BY DEF RenameRows
<1>2. ASSUME NEW i \in DOMAIN rows
      PROVE  IsRow(rows'[i]) /\ rows'[i].path \in F /\ (rows'[i].trashed => rows'[i].original \in F)
  <2>1. IsRow(rows[i]) /\ rows[i].path \in F /\ (rows[i].trashed => rows[i].original \in F)
    BY DEF RowsIn
  <2>2. Rebased(rows[i].path, old, new) \in F
    BY <2>1 DEF Closed
  <2> QED
    BY <1>1, <2>1, <2>2, RowMoved
<1> QED
  BY <1>1, <1>2 DEF RowsIn

----------------------------------------------------------------------------
(* The steps of the tree.                                                  *)

\* unlink and restore: mkdir_p of the new parent, and the rename if it can be.
LEMMA RelocationTree ==
    ASSUME NEW F, NEW D, Closed(F, D), EntriesIn(ns, F, D), NEW old, NEW new \in F,
           Relocates(old, new) \/ RelocationFails(old, new)
    PROVE  /\ EntriesIn(ns', F, D) /\ IdsIn(ns') = IdsIn(ns)
           /\ Hierarchy(ns) /\ F \cap D = {} => Hierarchy(ns')
<1> DEFINE t == N!WithDirs(Parent(new))
<1>1. /\ Parent(new) \in PathSet /\ Len(new) \in Nat \ {0} /\ Len(Parent(new)) = Len(new) - 1
      /\ \A j \in 0..Len(Parent(new)) : Upto(Parent(new), j) = Upto(new, j) /\ Upto(new, j) \in D
  BY AboveIsIn DEF Closed
<1>2. \A j \in 0..Len(Parent(new)) : Upto(Parent(new), j) \in D
  BY <1>1
<1>3. EntriesIn(t, F, D) /\ (Hierarchy(ns) /\ F \cap D = {} => Hierarchy(t))
  BY <1>1, <1>2, WithDirsTree
<1>4. IdsIn(t) = IdsIn(ns)
  BY WithDirsIds
<1>5. (CanRename(t, old, new) /\ ns' = RenamedFile(t, old, new)) \/ ns' = t
  BY DEF Relocates, RelocationFails
<1> HIDE DEF t
<1>6. CASE CanRename(t, old, new) /\ ns' = RenamedFile(t, old, new)
  BY <1>3, <1>4, <1>6, RenamedFileTree
<1>7. CASE ns' = t
  BY <1>3, <1>4, <1>7
<1> QED
  BY <1>5, <1>6, <1>7

\* add_file: the file's id comes, and none of an id that is elsewhere goes.
LEMMA AddFileTree ==
    ASSUME NEW F, NEW D, Closed(F, D), EntriesIn(ns, F, D), NEW p \in F, NEW id, N!AddFile(p, id)
    PROVE  /\ EntriesIn(ns', F, D) /\ IdsIn(ns') \subseteq IdsIn(ns) \cup {id}
           /\ Hierarchy(ns) /\ F \cap D = {} => Hierarchy(ns')
<1> DEFINE e == N!File(id)
           t == N!WithDirs(Parent(p))
<1>1. e # N!Dir /\ e.id = id
  BY DEF N!File, N!Dir
<1>2. ns' = N!WithEntry(p, e)
  BY DEF N!AddFile
<1>3. DOMAIN ns' = DOMAIN t \cup {p} /\ \A q \in DOMAIN ns' : ns'[q] = IF q = p THEN e ELSE t[q]
  BY <1>2 DEF N!WithEntry, N!Parent, Parent
<1>4. IdsIn(t) = IdsIn(ns)
  BY WithDirsIds
<1>5. p # Root
  BY DEF Closed
<1> HIDE DEF e, t
<1>6. EntriesIn(ns', F, D) /\ (Hierarchy(ns) /\ F \cap D = {} => Hierarchy(ns'))
  BY <1>1, <1>2, <1>5, WithEntryTree
<1>7. IdsIn(ns') \subseteq IdsIn(t) \cup {id}
  BY <1>1, <1>3 DEF IdsIn
<1> QED
  BY <1>4, <1>6, <1>7

\* mkdir: a directory where nothing is.
LEMMA MakeDirTree ==
    ASSUME NEW F, NEW D, Closed(F, D), EntriesIn(ns, F, D), NEW p \in DirPaths, N!MakeDir(p)
    PROVE  /\ EntriesIn(ns', F, D) /\ IdsIn(ns') = IdsIn(ns)
           /\ Hierarchy(ns) /\ F \cap D = {} => Hierarchy(ns')
<1> DEFINE t == N!WithDirs(Parent(p))
<1>1. ns' = N!WithEntry(p, N!Dir) /\ p \notin DOMAIN ns
  BY DEF N!MakeDir, N!Exists
<1>2. /\ DOMAIN ns' = DOMAIN t \cup {p}
      /\ \A q \in DOMAIN ns' : ns'[q] = IF q = p THEN N!Dir ELSE t[q]
  BY <1>1 DEF N!WithEntry, N!Parent, Parent
<1>3. IdsIn(t) = IdsIn(ns)
  BY WithDirsIds
<1>4. \A q \in DOMAIN t \ DOMAIN ns : t[q] = N!Dir
  BY WithDirsIs
<1>5. p # Root /\ p \in D
  BY DEF Closed
<1> HIDE DEF t
<1>6. EntriesIn(ns', F, D) /\ (Hierarchy(ns) /\ F \cap D = {} => Hierarchy(ns'))
  BY <1>1, <1>5, WithEntryTree
<1>7. IdsIn(ns') \subseteq IdsIn(t)
  BY <1>2 DEF IdsIn
<1>8. IdsIn(t) \subseteq IdsIn(ns')
  BY <1>1, <1>2, <1>4 DEF IdsIn
<1> QED
  BY <1>3, <1>6, <1>7, <1>8

\* rmdir: an empty directory.
LEMMA DeleteDirTree ==
    ASSUME NEW F, NEW D, Closed(F, D), EntriesIn(ns, F, D), NEW p \in DirPaths, N!DeleteDir(p)
    PROVE  /\ EntriesIn(ns', F, D) /\ IdsIn(ns') = IdsIn(ns)
           /\ Hierarchy(ns) => Hierarchy(ns')
<1>1. p \in DOMAIN ns /\ ns[p] = N!Dir /\ ns' = [q \in DOMAIN ns \ {p} |-> ns[q]]
  BY DEF N!DeleteDir, N!IsDirectory, N!Exists, N!Without
<1>2. \A q \in DOMAIN ns : Under(q, p) => q = p
  BY DEF N!DeleteDir, N!IsEmpty, N!Below, N!Under, N!Upto, Under, Upto
<1>3. p # Root
  BY DEF Closed
<1>4. EntriesIn(ns', F, D) /\ (Hierarchy(ns) => Hierarchy(ns'))
  BY <1>1, <1>2, <1>3, RemoveTree
<1>5. DOMAIN ns' = DOMAIN ns \ {p} /\ \A q \in DOMAIN ns' : ns'[q] = ns[q]
  BY <1>1
<1>6. IdsIn(ns') \subseteq IdsIn(ns)
  BY <1>5 DEF IdsIn
<1>7. IdsIn(ns) \subseteq IdsIn(ns')
  BY <1>1, <1>5 DEF IdsIn
<1> QED
  BY <1>4, <1>6, <1>7

----------------------------------------------------------------------------
(* What every part of the state may hold.                                  *)

FuseIn(F) ==
    /\ fuse.pc \in {"unlink", "path", "mark", "rename", "unmark"} =>
         /\ fuse = [pc |-> fuse.pc, id |-> fuse.id, old |-> fuse.old, new |-> fuse.new]
         /\ fuse.old \in F /\ fuse.new \in F
    /\ fuse.pc = "directories" => fuse.old \in MovePaths /\ fuse.new \in MovePaths

ScanIn ==
    /\ scan.pc = "upsert" => scan.todo \subseteq Files
    /\ scan.pc \in {"insert", "register"} =>
         /\ scan = [pc |-> scan.pc, todo |-> scan.todo, file |-> scan.file, id |-> scan.id]
         /\ scan.todo \subseteq Files /\ scan.file \in Files

ItemsIn(left, F) == \A item \in left : item.from \in F /\ item.to \in F

RestoreIn(F) ==
    /\ restore.pc = "next" =>
         restore = [pc |-> restore.pc, left |-> restore.left] /\ ItemsIn(restore.left, F)
    /\ restore.pc \in {"path", "unmark"} =>
         /\ restore = [pc |-> restore.pc, left |-> restore.left, item |-> restore.item]
         /\ ItemsIn(restore.left, F) /\ restore.item.to \in F

SecondIn(F) == second.pc = "upsert" => second.path \in F

Shape(F, D) ==
    /\ EntriesIn(ns, F, D)
    /\ RowsIn(F) /\ directories \subseteq D
    /\ FuseIn(F) /\ ScanIn /\ RestoreIn(F) /\ SecondIn(F)
    /\ todo \subseteq Files /\ origin \subseteq Files

\* The database is empty, and so is everything else.
LEMMA ShapeInit == ASSUME NEW F, NEW D, Closed(F, D), Init PROVE Shape(F, D)
<1>1. EntriesIn(ns, F, D)
  BY EmptyTreeIs DEF Init
<1>2. RowsIn(F) /\ directories \subseteq D
  BY DEF Init, RowsIn, EmptyMap
<1>3. FuseIn(F) /\ ScanIn /\ RestoreIn(F) /\ SecondIn(F)
  BY DEF Init, Idle, FuseIn, ScanIn, RestoreIn, SecondIn
<1>4. todo \subseteq Files /\ origin \subseteq Files
  BY LibraryAssumption DEF Init
<1> QED
  BY <1>1, <1>2, <1>3, <1>4 DEF Shape

\* The start, the end and the crash of the daemon.
LEMMA ShapeMount ==
    ASSUME NEW F, NEW D, Closed(F, D), Shape(F, D),
           Start \/ (\E f \in Files : ScanFile(f)) \/ FinishStart \/ Unmount \/ Crash
    PROVE  Shape(F, D)'
<1> USE DEF Shape
<1>1. CASE Start
  BY <1>1 DEF Start, tables, FuseIn, ScanIn, RestoreIn, SecondIn, RowsIn
<1>2. ASSUME NEW f \in Files, ScanFile(f) PROVE Shape(F, D)'
  <2> DEFINE path == StoredPath(Key(f, TRUE), Derived[f])
  <2>1. path \in F
    <3>1. CASE HasRow(Key(f, TRUE))
      BY <3>1, RowIdIs DEF StoredPath, RowsIn
    <3>2. CASE ~HasRow(Key(f, TRUE))
      BY <3>2 DEF StoredPath, Closed
    <3> QED
      BY <3>1, <3>2
  <2>2. PICK id : Place(f, id, path)
    BY <1>2 DEF ScanFile
  <2>3. Upsert(Key(f, TRUE), path) \/ UNCHANGED rows
    BY <1>2 DEF ScanFile
  <2>4. todo' \subseteq Files /\ UNCHANGED <<fuse, scan, restore, directories, second, origin>>
    BY <1>2 DEF ScanFile
  <2> HIDE DEF path
  <2>5. EntriesIn(ns', F, D)
    BY <2>1, <2>2, AddFileTree DEF Place
  <2>6. RowsIn(F)'
    <3>1. CASE Upsert(Key(f, TRUE), path)
      BY <2>1, <3>1, UpsertKeepsRows
    <3>2. CASE UNCHANGED rows
      BY <3>2 DEF RowsIn
    <3> QED
      BY <2>3, <3>1, <3>2
  <2> QED
    BY <2>4, <2>5, <2>6 DEF FuseIn, ScanIn, RestoreIn, SecondIn
<1>3. CASE FinishStart
  <2>1. EntriesIn(ns', F, D)
    BY <1>3, RestoredTree DEF FinishStart
  <2> QED
    BY <1>3, <2>1 DEF FinishStart, tables, FuseIn, ScanIn, RestoreIn, SecondIn, RowsIn
<1>4. CASE GoDown
  <2>1. EntriesIn(ns', F, D)
    BY <1>4, EmptyTreeIs DEF GoDown
  <2>2. FuseIn(F)' /\ ScanIn' /\ RestoreIn(F)' /\ todo' \subseteq Files
    BY <1>4 DEF GoDown, Idle, FuseIn, ScanIn, RestoreIn
  <2> QED
    BY <1>4, <2>1, <2>2 DEF GoDown, tables, SecondIn, RowsIn
<1> QED
  BY <1>1, <1>2, <1>3, <1>4 DEF Unmount, Crash

\* mkdir, rmdir and the rename of a directory.
LEMMA ShapeDirectories ==
    ASSUME NEW F, NEW D, Closed(F, D), Shape(F, D),
           \/ \E p \in DirPaths : Mkdir(p) \/ Rmdir(p)
           \/ \E old, new \in MovePaths : RenameDir(old, new)
           \/ RmdirDb \/ RenameDirDb
    PROVE  Shape(F, D)'
<1> USE DEF Shape
<1>1. ASSUME NEW p \in DirPaths, Mkdir(p) PROVE Shape(F, D)'
  <2>1. EntriesIn(ns', F, D)
    BY <1>1, MakeDirTree DEF Mkdir
  <2>2. directories' \subseteq D /\ UNCHANGED rows
    BY <1>1 DEF Mkdir, Try, InsertDirectory, tables, Closed
  <2>3. UNCHANGED <<fuse, scan, restore, second, todo, origin>>
    BY <1>1 DEF Mkdir, FuseOnly
  <2> QED
    BY <2>1, <2>2, <2>3 DEF FuseIn, ScanIn, RestoreIn, SecondIn, RowsIn
<1>2. ASSUME NEW p \in DirPaths, Rmdir(p) PROVE Shape(F, D)'
  <2>1. EntriesIn(ns', F, D)
    BY <1>2, DeleteDirTree DEF Rmdir
  <2>2. FuseIn(F)'
    BY <1>2 DEF Rmdir, FuseIn
  <2>3. UNCHANGED <<rows, directories, scan, restore, second, todo, origin>>
    BY <1>2 DEF Rmdir, FuseOnly, tables
  <2> QED
    BY <2>1, <2>2, <2>3 DEF ScanIn, RestoreIn, SecondIn, RowsIn
<1>3. ASSUME NEW old \in MovePaths, NEW new \in MovePaths, RenameDir(old, new) PROVE Shape(F, D)'
  <2>1. EntriesIn(ns', F, D)
    <3>1. N!CanMove(old, new) /\ ~Under(new, old) /\ ns' = N!Moved(old, new)
      BY <1>3 DEF RenameDir, N!MoveDir, N!Under, Under, N!Upto, Upto
    <3> QED
      BY <3>1, MovedTree
  <2>2. RowsIn(F)'
    <3>1. RenameRows(old, new) \/ UNCHANGED rows
      BY <1>3 DEF RenameDir, Try, tables
    <3>2. CASE UNCHANGED rows
      BY <3>2 DEF RowsIn
    <3> QED
      BY <3>1, <3>2, RenameKeepsRows
  <2>3. FuseIn(F)'
    BY <1>3 DEF RenameDir, FuseIn
  <2>4. UNCHANGED <<directories, scan, restore, second, todo, origin>>
    BY <1>3 DEF RenameDir, FuseOnly, Try, tables
  <2> QED
    BY <2>1, <2>2, <2>3, <2>4 DEF ScanIn, RestoreIn, SecondIn
<1>4. CASE RmdirDb
  <2>1. directories' \subseteq D /\ UNCHANGED rows
    BY <1>4 DEF RmdirDb, Try, DeleteDirectory, tables
  <2>2. FuseIn(F)'
    BY <1>4 DEF RmdirDb, FuseIn, Idle
  <2>3. UNCHANGED <<ns, scan, restore, second, todo, origin>>
    BY <1>4 DEF RmdirDb, FuseOnly
  <2> QED
    BY <2>1, <2>2, <2>3 DEF ScanIn, RestoreIn, SecondIn, RowsIn
<1>5. CASE RenameDirDb
  <2> DEFINE old == fuse.old  new == fuse.new
             moved == {p \in directories : BelowPath(p, old)}
             targets == {Rebased(p, old, new) : p \in moved}
  <2>1. old \in MovePaths /\ new \in MovePaths
    BY <1>5 DEF RenameDirDb, FuseIn
  <2>2. RenameDirectories(old, new) \/ UNCHANGED directories
    BY <1>5 DEF RenameDirDb, Try, tables
  <2> HIDE DEF old, new
  <2>3. targets \subseteq D
    <3>1. ASSUME NEW p \in moved PROVE Rebased(p, old, new) \in D
      <4>1. p \in D
        OBVIOUS
      <4> QED
        BY <2>1, <4>1 DEF Closed
    <3> QED
      BY <3>1
  <2>4. directories' = directories \/ directories' = (directories \ moved) \cup targets
    BY <2>2 DEF RenameDirectories
  <2> HIDE DEF moved, targets
  <2>5. directories' \subseteq D
    BY <2>3, <2>4
  <2>6. FuseIn(F)'
    BY <1>5 DEF RenameDirDb, FuseIn, Idle
  <2>7. UNCHANGED <<ns, rows, scan, restore, second, todo, origin>>
    BY <1>5 DEF RenameDirDb, FuseOnly, Try, tables
  <2> QED
    BY <2>5, <2>6, <2>7 DEF ScanIn, RestoreIn, SecondIn, RowsIn
<1> QED
  BY <1>1, <1>2, <1>3, <1>4, <1>5

\* unlink and the rename of a file.
LEMMA ShapeFiles ==
    ASSUME NEW F, NEW D, Closed(F, D), Shape(F, D),
           \/ \E p \in FilePaths : Unlink(p)
           \/ \E old, new \in FilePaths : ReadId("rename", old, new)
           \/ UnlinkTree \/ UnlinkPath \/ UnlinkMark \/ RenameFile \/ RenameUnmark
    PROVE  Shape(F, D)'
<1> USE DEF Shape
<1>1. ASSUME NEW old \in F, NEW new \in F, NEW pc \in {"unlink", "rename"}, ReadId(pc, old, new)
      PROVE  Shape(F, D)'
  <2>1. FuseIn(F)'
    <3>1. PICK id : fuse' = [pc |-> pc, id |-> id, old |-> old, new |-> new]
      BY <1>1 DEF ReadId
    <3> QED
      BY <3>1 DEF FuseIn
  <2>2. UNCHANGED <<ns, rows, directories, scan, restore, second, todo, origin>>
    BY <1>1 DEF ReadId, FuseOnly, tables
  <2> QED
    BY <2>1, <2>2 DEF ScanIn, RestoreIn, SecondIn, RowsIn
<1>2. ASSUME NEW p \in FilePaths, Unlink(p) PROVE Shape(F, D)'
  <2>1. p \in F /\ TrashPath \o p \in F
    BY DEF Closed
  <2> QED
    BY <1>1, <1>2, <2>1 DEF Unlink
<1>3. ASSUME NEW old \in FilePaths, NEW new \in FilePaths, ReadId("rename", old, new)
      PROVE  Shape(F, D)'
  <2>1. old \in F /\ new \in F
    BY DEF Closed
  <2> QED
    BY <1>1, <1>3, <2>1
<1>4. CASE UnlinkTree
  <2>1. /\ fuse = [pc |-> fuse.pc, id |-> fuse.id, old |-> fuse.old, new |-> fuse.new]
        /\ fuse.old \in F /\ fuse.new \in F
    BY <1>4 DEF UnlinkTree, FuseIn
  <2>2. EntriesIn(ns', F, D)
    BY <1>4, <2>1, RelocationTree DEF UnlinkTree
  <2>3. fuse' = [fuse EXCEPT !.pc = "path"] \/ fuse' = Idle
    BY <1>4 DEF UnlinkTree
  <2>4. FuseIn(F)'
    <3>1. CASE fuse' = Idle
      BY <3>1 DEF FuseIn, Idle
    <3>2. CASE fuse' = [fuse EXCEPT !.pc = "path"]
      <4>1. fuse' = [pc |-> "path", id |-> fuse.id, old |-> fuse.old, new |-> fuse.new]
        BY <2>1, <3>2
      <4> QED
        BY <2>1, <4>1 DEF FuseIn
    <3> QED
      BY <2>3, <3>1, <3>2
  <2>5. UNCHANGED <<rows, directories, scan, restore, second, todo, origin>>
    BY <1>4 DEF UnlinkTree, FuseOnly, tables
  <2> QED
    BY <2>2, <2>4, <2>5 DEF ScanIn, RestoreIn, SecondIn, RowsIn
<1>5. CASE UnlinkPath
  <2>1. /\ fuse = [pc |-> fuse.pc, id |-> fuse.id, old |-> fuse.old, new |-> fuse.new]
        /\ fuse.old \in F /\ fuse.new \in F
    BY <1>5 DEF UnlinkPath, FuseIn
  <2>2. UpdateVirtualPath(fuse.id, fuse.new) \/ UNCHANGED rows
    BY <1>5 DEF UnlinkPath, Try, tables
  <2>3. RowsIn(F)'
    <3>1. CASE UNCHANGED rows
      BY <3>1 DEF RowsIn
    <3> QED
      BY <2>1, <2>2, <3>1, UpdatesKeepRows
  <2>4. FuseIn(F)'
    <3>1. fuse' = [pc |-> "mark", id |-> fuse.id, old |-> fuse.old, new |-> fuse.new]
      BY <1>5, <2>1 DEF UnlinkPath
    <3> QED
      BY <2>1, <3>1 DEF FuseIn
  <2>5. UNCHANGED <<ns, directories, scan, restore, second, todo, origin>>
    BY <1>5 DEF UnlinkPath, FuseOnly, Try, tables
  <2> QED
    BY <2>3, <2>4, <2>5 DEF ScanIn, RestoreIn, SecondIn
<1>6. CASE UnlinkMark
  <2>1. fuse.old \in F
    BY <1>6 DEF UnlinkMark, FuseIn
  <2>2. MarkTrashed(fuse.id, fuse.old, now) \/ UNCHANGED rows
    BY <1>6 DEF UnlinkMark, Try, tables
  <2>3. RowsIn(F)'
    <3>1. CASE UNCHANGED rows
      BY <3>1 DEF RowsIn
    <3> QED
      BY <2>1, <2>2, <3>1, UpdatesKeepRows
  <2>4. FuseIn(F)'
    BY <1>6 DEF UnlinkMark, FuseIn, Idle
  <2>5. UNCHANGED <<ns, directories, scan, restore, second, todo, origin>>
    BY <1>6 DEF UnlinkMark, FuseOnly, Try, tables
  <2> QED
    BY <2>3, <2>4, <2>5 DEF ScanIn, RestoreIn, SecondIn
<1>7. CASE RenameFile
  <2>1. /\ fuse = [pc |-> fuse.pc, id |-> fuse.id, old |-> fuse.old, new |-> fuse.new]
        /\ fuse.old \in F /\ fuse.new \in F
    BY <1>7 DEF RenameFile, FuseIn
  <2>2. EntriesIn(ns', F, D)
    BY <1>7, <2>1, RenamedFileTree DEF RenameFile
  <2>3. UpdateVirtualPath(fuse.id, fuse.new) \/ UNCHANGED rows
    BY <1>7 DEF RenameFile, Try, tables
  <2>4. RowsIn(F)'
    <3>1. CASE UNCHANGED rows
      BY <3>1 DEF RowsIn
    <3> QED
      BY <2>1, <2>3, <3>1, UpdatesKeepRows
  <2>5. fuse' = [fuse EXCEPT !.pc = "unmark"] \/ fuse' = Idle
    BY <1>7 DEF RenameFile
  <2>6. FuseIn(F)'
    <3>1. CASE fuse' = Idle
      BY <3>1 DEF FuseIn, Idle
    <3>2. CASE fuse' = [fuse EXCEPT !.pc = "unmark"]
      <4>1. fuse' = [pc |-> "unmark", id |-> fuse.id, old |-> fuse.old, new |-> fuse.new]
        BY <2>1, <3>2
      <4> QED
        BY <2>1, <4>1 DEF FuseIn
    <3> QED
      BY <2>5, <3>1, <3>2
  <2>7. UNCHANGED <<directories, scan, restore, second, todo, origin>>
    BY <1>7 DEF RenameFile, FuseOnly, Try, tables
  <2> QED
    BY <2>2, <2>4, <2>6, <2>7 DEF ScanIn, RestoreIn, SecondIn
<1>8. CASE RenameUnmark
  <2>1. UnmarkTrashed(fuse.id) \/ UNCHANGED rows
    BY <1>8 DEF RenameUnmark, Try, tables
  <2>2. RowsIn(F)'
    <3>1. CASE UNCHANGED rows
      BY <3>1 DEF RowsIn
    <3>2. fuse.new \in F
      BY <1>8 DEF RenameUnmark, FuseIn
    <3> QED
      BY <2>1, <3>1, <3>2, UpdatesKeepRows
  <2>3. FuseIn(F)'
    BY <1>8 DEF RenameUnmark, FuseIn, Idle
  <2>4. UNCHANGED <<ns, directories, scan, restore, second, todo, origin>>
    BY <1>8 DEF RenameUnmark, FuseOnly, Try, tables
  <2> QED
    BY <2>2, <2>3, <2>4 DEF ScanIn, RestoreIn, SecondIn
<1> QED
  BY <1>2, <1>3, <1>4, <1>5, <1>6, <1>7, <1>8

\* The gRPC scan.
LEMMA ShapeRescan ==
    ASSUME NEW F, NEW D, Closed(F, D), Shape(F, D),
           Rescan \/ RescanUpsert \/ RescanInsert \/ RescanRegister \/ RescanDone
    PROVE  Shape(F, D)'
<1> USE DEF Shape
<1>0. UNCHANGED <<fuse, restore, directories, second, todo, origin>>
  BY DEF Rescan, RescanUpsert, RescanInsert, RescanRegister, RescanDone, ScanOnly
<1>1. CASE Rescan
  <2>1. ScanIn'
    BY <1>1 DEF Rescan, ScanIn
  <2>2. UNCHANGED <<ns, rows>>
    BY <1>1 DEF Rescan
  <2> QED
    BY <1>0, <2>1, <2>2 DEF FuseIn, RestoreIn, SecondIn, RowsIn
<1>2. CASE RescanUpsert
  <2>1. PICK f \in scan.todo :
          \/ /\ Upsert(Key(f, FALSE), Derived[f])
             /\ scan' = [pc |-> "insert", todo |-> scan.todo \ {f}, file |-> f,
                         id |-> UpsertedId(Key(f, FALSE), last_rowid)]
          \/ scan' = Idle /\ UNCHANGED rows
    BY <1>2 DEF RescanUpsert
  <2>2. scan.todo \subseteq Files /\ Derived[f] \in F
    BY <1>2 DEF RescanUpsert, ScanIn, Closed
  <2>3. RowsIn(F)'
    <3>1. CASE UNCHANGED rows
      BY <3>1 DEF RowsIn
    <3> QED
      BY <2>1, <2>2, <3>1, UpsertKeepsRows
  <2>4. ScanIn'
    <3>1. CASE scan' = Idle
      BY <3>1 DEF ScanIn, Idle
    <3>2. ASSUME NEW id, scan' = [pc |-> "insert", todo |-> scan.todo \ {f}, file |-> f, id |-> id]
          PROVE  ScanIn'
      BY <2>2, <3>2 DEF ScanIn
    <3> QED
      BY <2>1, <3>1, <3>2
  <2>5. UNCHANGED ns
    BY <1>2 DEF RescanUpsert
  <2> QED
    BY <1>0, <2>3, <2>4, <2>5 DEF FuseIn, RestoreIn, SecondIn
<1>3. CASE RescanInsert
  <2>1. /\ scan = [pc |-> scan.pc, todo |-> scan.todo, file |-> scan.file, id |-> scan.id]
        /\ scan.todo \subseteq Files /\ scan.file \in Files
    BY <1>3 DEF RescanInsert, ScanIn
  <2>2. EntriesIn(ns', F, D)
    <3>1. Derived[scan.file] \in F
      BY <2>1 DEF Closed
    <3> QED
      BY <1>3, <3>1, AddFileTree DEF RescanInsert
  <2>3. scan' = [pc |-> "register", todo |-> scan.todo, file |-> scan.file, id |-> scan.id]
    BY <1>3, <2>1 DEF RescanInsert
  <2>4. ScanIn'
    BY <2>1, <2>3 DEF ScanIn
  <2>5. UNCHANGED rows
    BY <1>3 DEF RescanInsert
  <2> QED
    BY <1>0, <2>2, <2>4, <2>5 DEF FuseIn, RestoreIn, SecondIn, RowsIn
<1>4. CASE RescanRegister \/ RescanDone
  <2>1. ScanIn'
    BY <1>4 DEF RescanRegister, RescanDone, ScanIn, Idle
  <2>2. UNCHANGED <<ns, rows>>
    BY <1>4 DEF RescanRegister, RescanDone
  <2> QED
    BY <1>0, <2>1, <2>2 DEF FuseIn, RestoreIn, SecondIn, RowsIn
<1> QED
  BY <1>1, <1>2, <1>3, <1>4

\* The restore.
LEMMA ShapeRestore ==
    ASSUME NEW F, NEW D, Closed(F, D), Shape(F, D),
           CliRestore \/ Sighup \/ RestoreTree \/ RestorePath \/ RestoreUnmark \/ RestoreDone
    PROVE  Shape(F, D)'
<1> USE DEF Shape
<1>0. UNCHANGED <<fuse, scan, directories, second, todo, origin>>
  BY DEF CliRestore, Sighup, RestoreTree, RestorePath, RestoreUnmark, RestoreDone, RestoreOnly,
         Try, tables
<1>1. CASE CliRestore
  BY <1>0, <1>1 DEF CliRestore, tables, FuseIn, ScanIn, RestoreIn, SecondIn, RowsIn
<1>2. CASE Sighup
  <2> DEFINE hits == {j \in Trashed : \E p \in pending : Under(rows[j].original, p)}
             left == {[id |-> i, from |-> rows[i].path, to |-> rows[i].original] : i \in hits}
  <2>1. restore' = [pc |-> "next", left |-> left] \/ restore' = Idle
    BY <1>2 DEF Sighup
  <2>2. ItemsIn(left, F)
    <3>1. \A i \in hits : i \in DOMAIN rows /\ rows[i].trashed
      BY DEF Trashed
    <3>2. \A i \in hits : rows[i].path \in F /\ rows[i].original \in F
      BY <3>1 DEF RowsIn
    <3> HIDE DEF hits
    <3> QED
      BY <3>2 DEF ItemsIn
  <2> HIDE DEF left
  <2>3. RestoreIn(F)'
    BY <2>1, <2>2 DEF RestoreIn, Idle
  <2>4. UNCHANGED <<ns, rows>>
    BY <1>2 DEF Sighup
  <2> QED
    BY <1>0, <2>3, <2>4 DEF FuseIn, ScanIn, SecondIn, RowsIn
<1>3. CASE RestoreTree
  <2>1. restore = [pc |-> restore.pc, left |-> restore.left] /\ ItemsIn(restore.left, F)
    BY <1>3 DEF RestoreTree, RestoreIn
  <2>2. PICK item \in restore.left :
          \/ /\ Relocates(item.from, item.to)
             /\ restore' = [pc |-> "path", left |-> restore.left \ {item}, item |-> item]
          \/ /\ RelocationFails(item.from, item.to)
             /\ restore' = [restore EXCEPT !.left = @ \ {item}]
    BY <1>3 DEF RestoreTree
  <2>3. item.to \in F /\ ItemsIn(restore.left \ {item}, F)
    BY <2>1 DEF ItemsIn
  <2>4. EntriesIn(ns', F, D)
    BY <2>2, <2>3, RelocationTree
  <2>5. RestoreIn(F)'
    <3>1. CASE restore' = [pc |-> "path", left |-> restore.left \ {item}, item |-> item]
      BY <2>3, <3>1 DEF RestoreIn
    <3>2. CASE restore' = [restore EXCEPT !.left = @ \ {item}]
      <4>1. restore.pc = "next"
        BY <1>3 DEF RestoreTree
      <4>2. restore' = [pc |-> "next", left |-> restore.left \ {item}]
        BY <2>1, <3>2, <4>1
      <4> QED
        BY <2>3, <4>2 DEF RestoreIn
    <3> QED
      BY <2>2, <3>1, <3>2
  <2>6. UNCHANGED rows
    BY <1>3 DEF RestoreTree
  <2> QED
    BY <1>0, <2>4, <2>5, <2>6 DEF FuseIn, ScanIn, SecondIn, RowsIn
<1>4. CASE RestorePath
  <2>1. /\ restore = [pc |-> restore.pc, left |-> restore.left, item |-> restore.item]
        /\ ItemsIn(restore.left, F) /\ restore.item.to \in F
    BY <1>4 DEF RestorePath, RestoreIn
  <2>2. UpdateVirtualPath(restore.item.id, restore.item.to) \/ UNCHANGED rows
    BY <1>4 DEF RestorePath, Try, tables
  <2>3. RowsIn(F)'
    <3>1. CASE UNCHANGED rows
      BY <3>1 DEF RowsIn
    <3> QED
      BY <2>1, <2>2, <3>1, UpdatesKeepRows
  <2>4. restore' = [pc |-> "unmark", left |-> restore.left, item |-> restore.item]
    BY <1>4, <2>1 DEF RestorePath
  <2>5. RestoreIn(F)'
    BY <2>1, <2>4 DEF RestoreIn
  <2>6. UNCHANGED ns
    BY <1>4 DEF RestorePath
  <2> QED
    BY <1>0, <2>3, <2>5, <2>6 DEF FuseIn, ScanIn, SecondIn
<1>5. CASE RestoreUnmark
  <2>1. ItemsIn(restore.left, F) /\ restore.item.to \in F
    BY <1>5 DEF RestoreUnmark, RestoreIn
  <2>2. UnmarkTrashed(restore.item.id) \/ UNCHANGED rows
    BY <1>5 DEF RestoreUnmark, Try, tables
  <2>3. RowsIn(F)'
    <3>1. CASE UNCHANGED rows
      BY <3>1 DEF RowsIn
    <3> QED
      BY <2>1, <2>2, <3>1, UpdatesKeepRows
  <2>4. RestoreIn(F)'
    BY <1>5, <2>1 DEF RestoreUnmark, RestoreIn
  <2>5. UNCHANGED ns
    BY <1>5 DEF RestoreUnmark
  <2> QED
    BY <1>0, <2>3, <2>4, <2>5 DEF FuseIn, ScanIn, SecondIn
<1>6. CASE RestoreDone
  <2>1. RestoreIn(F)'
    BY <1>6 DEF RestoreDone, RestoreIn, Idle
  <2> QED
    BY <1>0, <1>6, <2>1 DEF RestoreDone, FuseIn, ScanIn, SecondIn, RowsIn
<1> QED
  BY <1>1, <1>2, <1>3, <1>4, <1>5, <1>6

\* The other processes, the origin and the clock.
LEMMA ShapeOthers ==
    ASSUME NEW F, NEW D, Closed(F, D), Shape(F, D),
           CliPurge \/ PurgeDelete \/ (\E f \in Files : SecondRead(f)) \/ SecondUpsert \/ NewFile \/ Tick
    PROVE  Shape(F, D)'
<1> USE DEF Shape
<1>0. UNCHANGED <<ns, directories, fuse, scan, restore, todo>>
  BY DEF CliPurge, PurgeDelete, SecondRead, SecondUpsert, NewFile, Tick, memory, tables
<1>1. CASE CliPurge \/ Tick
  BY <1>0, <1>1 DEF CliPurge, Tick, tables, FuseIn, ScanIn, RestoreIn, SecondIn, RowsIn
<1>2. CASE NewFile
  BY <1>0, <1>2 DEF NewFile, tables, FuseIn, ScanIn, RestoreIn, SecondIn, RowsIn
<1>3. CASE PurgeDelete
  <2>1. PICK i : rows' = Remove(rows, {i})
    BY <1>3 DEF PurgeDelete, DeleteRow
  <2>2. RowsIn(F)'
    BY <2>1 DEF Remove, RowsIn
  <2> QED
    BY <1>0, <1>3, <2>2 DEF PurgeDelete, FuseIn, ScanIn, RestoreIn, SecondIn
<1>4. ASSUME NEW f \in Files, SecondRead(f) PROVE Shape(F, D)'
  <2>1. StoredPath(Key(f, TRUE), Derived[f]) \in F
    BY RowIdIs DEF StoredPath, RowsIn, Closed
  <2>2. SecondIn(F)'
    BY <1>4, <2>1 DEF SecondRead, SecondIn
  <2> QED
    BY <1>0, <1>4, <2>2 DEF SecondRead, tables, FuseIn, ScanIn, RestoreIn, RowsIn
<1>5. CASE SecondUpsert
  <2>1. second.path \in F
    BY <1>5 DEF SecondUpsert, SecondIn
  <2>2. RowsIn(F)'
    BY <1>5, <2>1, UpsertKeepsRows DEF SecondUpsert
  <2>3. SecondIn(F)'
    BY <1>5 DEF SecondUpsert, SecondIn, Idle
  <2> QED
    BY <1>0, <1>5, <2>2, <2>3 DEF SecondUpsert, FuseIn, ScanIn, RestoreIn
<1> QED
  BY <1>1, <1>2, <1>3, <1>4, <1>5

\* All steps.
LEMMA ShapeNext ==
    ASSUME NEW F, NEW D, Closed(F, D), Shape(F, D), [Next]_vars
    PROVE  Shape(F, D)'
<1>1. CASE Next
  BY <1>1, ShapeMount, ShapeDirectories, ShapeFiles, ShapeRescan, ShapeRestore, ShapeOthers
  DEF Next, Fuse
<1>2. CASE UNCHANGED vars
  BY <1>2 DEF vars, memory, tables, Shape, FuseIn, ScanIn, RestoreIn, SecondIn, RowsIn
<1> QED
  BY <1>1, <1>2

----------------------------------------------------------------------------
(* Which paths there are.                                                  *)

\* The characters of a path are finitely many.
LEMMA CharsFinite == ASSUME NEW p \in PathSet PROVE IsFiniteSet(Chars(p))
<1> DEFINE Column(i) == {i} \X (1..Len(p[i]))
           f == [i \in DOMAIN p |-> Column(i)]
           S == {Column(i) : i \in DOMAIN p}
<1>1. DOMAIN p = 1..Len(p) /\ Len(p) \in Nat /\ \A i \in DOMAIN p : Len(p[i]) \in Nat
  BY LenProperties, ElementOfSeq DEF PathSet, Names
<1>2. IsFiniteSet(DOMAIN p)
  BY <1>1, FS_Interval
<1>3. f \in Surjection(DOMAIN p, S)
  BY DEF Surjection
<1>4. IsFiniteSet(S)
  BY <1>2, <1>3, FS_Surjection
<1>5. ASSUME NEW i \in DOMAIN p PROVE IsFiniteSet(Column(i))
  <2>1. IsFiniteSet({i})
    BY FS_Singleton
  <2>2. IsFiniteSet(1..Len(p[i]))
    BY <1>1, FS_Interval
  <2> QED
    BY <2>1, <2>2, FS_Product
<1>6. IsFiniteSet(UNION S)
  BY <1>4, <1>5, FS_UNION
<1> QED
  BY <1>6 DEF Chars

LEMMA BeforeIsInt ==
    ASSUME NEW p \in PathSet, NEW i \in Nat PROVE Before(p, i) \in Int
<1>1. IsFiniteSet({c \in Chars(p) : c[1] < i})
  BY CharsFinite, FS_Subset
<1> QED
  BY <1>1, FS_CardinalityType DEF Before

LEMMA ExcessIsNat == ASSUME NEW old \in PathSet PROVE Excess(old) \in Nat
<1>1. IsFiniteSet({c \in Chars(old) : old[c[1]][c[2]] \in Wide})
  BY CharsFinite, FS_Subset
<1> QED
  BY <1>1, FS_CardinalityType DEF Excess

\* What substr leaves of a path is the end of a path.
LEMMA CutIsPath == ASSUME NEW p \in PathSet, NEW n \in Nat PROVE Cut(p, n) \in PathSet
<1>1. CASE CutIn(p, n) = {}
  BY <1>1, EmptySeq DEF Cut, Root, PathSet
<1>2. CASE CutIn(p, n) # {}
  <2>1. PICK i \in CutIn(p, n) : i = CHOOSE j \in CutIn(p, n) : TRUE
    BY <1>2
  <2>2. PICK gone : gone = IF Before(p, i) < n THEN n - Before(p, i) ELSE 0
    OBVIOUS
  <2>3. DOMAIN p = 1..Len(p) /\ Len(p) \in Nat /\ p \in Seq(Names)
    BY LenProperties DEF PathSet
  <2>4. i \in 1..Len(p) /\ n < Before(p, i) + Len(p[i])
    BY <2>1, <2>3 DEF CutIn
  <2>5. p[i] \in Seq(Fragments) /\ p[i] # <<>> /\ Len(p[i]) \in Nat \ {0}
    BY <2>3, <2>4, ElementOfSeq, LenProperties, EmptySeq DEF Names
  <2>6. gone \in Nat /\ gone < Len(p[i])
    <3>1. Before(p, i) \in Int
      BY <2>3, <2>4, BeforeIsInt
    <3> QED
      BY <2>2, <2>4, <2>5, <3>1
  <2>7. SubSeq(p[i], gone + 1, Len(p[i])) \in Names
    <3> DEFINE q == SubSeq(p[i], gone + 1, Len(p[i]))
    <3>1. \A k \in gone + 1..Len(p[i]) : p[i][k] \in Fragments
      BY <2>5, <2>6, ElementOfSeq
    <3>2. q \in Seq(Fragments) /\ Len(q) = Len(p[i]) - gone
      BY <2>5, <2>6, <3>1, SubSeqProperties
    <3> HIDE DEF q
    <3>3. q # <<>>
      BY <2>5, <2>6, <3>2, EmptySeq
    <3> QED
      BY <3>2, <3>3 DEF Names, q
  <2>8. SubSeq(p, i + 1, Len(p)) \in Seq(Names)
    <3>1. \A k \in i + 1..Len(p) : p[k] \in Names
      BY <2>3, <2>4, ElementOfSeq
    <3> QED
      BY <2>3, <2>4, <3>1, SubSeqProperties
  <2>9. <<SubSeq(p[i], gone + 1, Len(p[i]))>> \in Seq(Names)
    BY <2>7
  <2>10. Cut(p, n) = <<SubSeq(p[i], gone + 1, Len(p[i]))>> \o SubSeq(p, i + 1, Len(p))
    BY <1>2, <2>1, <2>2 DEF Cut
  <2> QED
    BY <2>8, <2>9, <2>10, ConcatProperties DEF PathSet
<1> QED
  BY <1>1, <1>2

\* A renamed path is a path, and not the root.
LEMMA RebasedIsPath ==
    ASSUME NEW p \in PathSet, NEW old \in PathSet, NEW new \in PathSet \ {Root}
    PROVE  Rebased(p, old, new) \in PathSet /\ (p # Root => Rebased(p, old, new) # Root)
<1>1. CASE ~BelowPath(p, old)
  BY <1>1 DEF Rebased
<1>2. CASE BelowPath(p, old)
  <2>1. Len(p) \in Nat /\ Len(old) \in Nat /\ p \in Seq(Names)
    BY LenProperties DEF PathSet
  <2>2. Rest(p, old) \in PathSet
    <3>1. \A k \in Len(old) + 1..Len(p) : p[k] \in Names
      BY <2>1, ElementOfSeq
    <3> QED
      BY <2>1, <3>1, SubSeqProperties DEF Rest, PathSet
  <2>3. ASSUME NEW q \in PathSet PROVE new \o q \in PathSet /\ new \o q # Root
    <3>1. new \in Seq(Names) /\ Len(new) \in Nat \ {0} /\ q \in Seq(Names) /\ Len(q) \in Nat
      BY LenProperties, EmptySeq DEF PathSet, Root
    <3>2. new \o q \in Seq(Names) /\ Len(new \o q) = Len(new) + Len(q)
      BY <3>1, ConcatProperties
    <3>3. Len(Root) = 0
      BY EmptySeq DEF Root
    <3> QED
      BY <3>1, <3>2, <3>3 DEF PathSet
  <2>4. Cut(Rest(p, old), Excess(old)) \in PathSet
    BY <2>2, CutIsPath, ExcessIsNat
  <2> QED
    BY <1>2, <2>2, <2>3, <2>4 DEF Rebased
<1> QED
  BY <1>1, <1>2

\* Any paths will do, files and directories together.
LEMMA AnyPathsClosed == Closed(PathSet \ {Root}, PathSet)
<1>1. Root \in PathSet /\ Len(Root) = 0
  BY EmptySeq DEF Root, PathSet
<1>2. ASSUME NEW p \in FilePaths PROVE TrashPath \o p \in PathSet \ {Root}
  <2>1. p \in Seq(Names) /\ Len(p) \in Nat
    BY LibraryAssumption, LenProperties DEF PathSet
  <2>2. TrashPath \in Seq(Names) /\ Len(TrashPath) = 1
    BY LibraryAssumption DEF TrashPath
  <2>3. TrashPath \o p \in Seq(Names) /\ Len(TrashPath \o p) = 1 + Len(p)
    BY <2>1, <2>2, ConcatProperties
  <2> QED
    BY <1>1, <2>1, <2>3 DEF PathSet
<1>3. ASSUME NEW p \in PathSet, NEW k \in 0..Len(p) - 1 PROVE Upto(p, k) \in PathSet
  <2>1. k \in 0..Len(p)
    BY LenProperties DEF PathSet
  <2> QED
    BY <2>1, UptoIsPath
<1>4. ASSUME NEW old \in MovePaths, NEW new \in MovePaths, NEW p \in PathSet, Under(p, old)
      PROVE  N!Rebase(p, old, new) \in PathSet \ {Root}
  <2>1. old \in PathSet /\ new \in PathSet /\ new # Root
    BY LibraryAssumption
  <2>2. /\ N!Rebase(p, old, new) \in PathSet
        /\ Len(N!Rebase(p, old, new)) = Len(new) + Len(p) - Len(old)
        /\ Len(old) <= Len(p)
    BY <1>4, <2>1, RebaseIsPath
  <2>3. Len(new) \in Nat \ {0} /\ Len(p) \in Nat /\ Len(old) \in Nat
    BY <2>1, LenProperties, EmptySeq DEF PathSet, Root
  <2> QED
    BY <1>1, <2>2, <2>3
<1>5. ASSUME NEW old \in MovePaths, NEW new \in MovePaths, NEW p \in PathSet
      PROVE  Rebased(p, old, new) \in PathSet /\ (p # Root => Rebased(p, old, new) # Root)
  BY LibraryAssumption, RebasedIsPath
<1> QED
  BY <1>1, <1>2, <1>3, <1>4, <1>5, LibraryAssumption DEF Closed

\* The paths of files, and of directories, when the names of files are told
\* from those of directories, as by an extension.
FilesAt(FileNames) ==
    {p \in PathSet \ {Root} :
        NameOf(p) \in FileNames /\ \A k \in 1..Len(p) - 1 : p[k] \notin FileNames}
DirsAt(FileNames) == {p \in PathSet : \A k \in 1..Len(p) : p[k] \notin FileNames}

NamesApart(FileNames) ==
    /\ FilePaths \subseteq FilesAt(FileNames)
    /\ \A f \in Files : Derived[f] \in FilesAt(FileNames)
    /\ DirPaths \cup MovePaths \subseteq DirsAt(FileNames)
    /\ TrashName \notin FileNames

\* The directories that are renamed have no wide characters in their paths, so
\* the database moves what is below them as the tree does.
PlainMoves == \A m \in MovePaths : Excess(m) = 0

LEMMA PlainlyRebased ==
    ASSUME PlainMoves, NEW p, NEW old \in MovePaths, NEW new
    PROVE  /\ BelowPath(p, old) => Rebased(p, old, new) = N!Rebase(p, old, new)
           /\ ~BelowPath(p, old) => Rebased(p, old, new) = p
BY DEF PlainMoves, Rebased, Rest, N!Rebase

\* Then no path is of both kinds, and no request changes the kind of a path.
LEMMA PathsApart ==
    ASSUME NEW FileNames, NamesApart(FileNames), PlainMoves
    PROVE  /\ Closed(FilesAt(FileNames), DirsAt(FileNames))
           /\ FilesAt(FileNames) \cap DirsAt(FileNames) = {}
<1> DEFINE F == FilesAt(FileNames)  D == DirsAt(FileNames)
<1>1. Root \in PathSet /\ Len(Root) = 0
  BY EmptySeq DEF Root, PathSet
<1>2. \A p \in PathSet : Len(p) \in Nat /\ (p # Root => Len(p) \in Nat \ {0})
  BY LenProperties, EmptySeq DEF PathSet, Root
<1>3. F \cap D = {}
  BY <1>2 DEF FilesAt, DirsAt, NameOf
<1>4. ASSUME NEW p \in FilePaths PROVE TrashPath \o p \in F
  <2>1. /\ p \in Seq(Names) /\ Len(p) \in Nat \ {0} /\ p[Len(p)] \in FileNames
        /\ \A k \in 1..Len(p) - 1 : p[k] \notin FileNames
    BY <1>2 DEF NamesApart, FilesAt, PathSet, NameOf
  <2>2. TrashPath \in Seq(Names) /\ Len(TrashPath) = 1 /\ TrashPath[1] = TrashName
    BY LibraryAssumption DEF TrashPath
  <2> DEFINE q == TrashPath \o p
  <2>3. /\ q \in Seq(Names) /\ Len(q) = 1 + Len(p)
        /\ \A k \in 1..1 + Len(p) : q[k] = IF k <= 1 THEN TrashPath[k] ELSE p[k - 1]
    <3>1. /\ q \in Seq(Names) /\ Len(q) = Len(TrashPath) + Len(p)
          /\ \A k \in 1..Len(TrashPath) + Len(p) :
               q[k] = IF k <= Len(TrashPath) THEN TrashPath[k] ELSE p[k - Len(TrashPath)]
      BY <2>1, <2>2, ConcatProperties
    <3> HIDE DEF q
    <3> QED
      BY <2>2, <3>1
  <2> HIDE DEF q
  <2>4. q[Len(q)] \in FileNames
    BY <2>1, <2>3
  <2>5. ASSUME NEW k \in 1..Len(q) - 1 PROVE q[k] \notin FileNames
    <3>1. CASE k = 1
      BY <2>1, <2>2, <2>3, <3>1 DEF NamesApart
    <3>2. CASE k # 1
      <4>1. k - 1 \in 1..Len(p) - 1 /\ k \in 1..1 + Len(p) /\ ~(k <= 1)
        BY <2>1, <2>3, <3>2
      <4>2. q[k] = p[k - 1]
        BY <2>3, <4>1
      <4> QED
        BY <2>1, <4>1, <4>2
    <3> QED
      BY <3>1, <3>2
  <2>6. q \in PathSet /\ q # Root
    BY <1>1, <2>1, <2>3 DEF PathSet
  <2> QED
    BY <2>4, <2>5, <2>6 DEF FilesAt, NameOf, q
<1>5. ASSUME NEW p \in F \cup D, NEW k \in 0..Len(p) - 1 PROVE Upto(p, k) \in D
  <2>1. p \in PathSet /\ Len(p) \in Nat /\ \A i \in 1..Len(p) - 1 : p[i] \notin FileNames
    BY <1>2 DEF FilesAt, DirsAt
  <2>2. k \in 0..Len(p)
    BY <2>1
  <2>3. Upto(p, k) \in PathSet /\ Len(Upto(p, k)) = k /\ \A i \in 1..k : Upto(p, k)[i] = p[i]
    BY <2>1, <2>2, UptoIsPath
  <2>4. \A i \in 1..k : Upto(p, k)[i] \notin FileNames
    BY <2>1, <2>2, <2>3
  <2> QED
    BY <2>3, <2>4 DEF DirsAt
<1>6. ASSUME NEW old \in MovePaths, NEW new \in MovePaths, NEW p \in F \cup D, Under(p, old)
      PROVE  LET q == N!Rebase(p, old, new) IN (p \in F => q \in F) /\ (p \in D => q \in D)
  <2>1. /\ old \in PathSet /\ \A k \in 1..Len(old) : old[k] \notin FileNames
        /\ new \in PathSet /\ \A k \in 1..Len(new) : new[k] \notin FileNames
        /\ p \in PathSet
    BY DEF NamesApart, FilesAt, DirsAt
  <2> DEFINE q == N!Rebase(p, old, new)
  <2>2. /\ q \in PathSet /\ Len(q) = Len(new) + Len(p) - Len(old)
        /\ \A i \in 1..Len(q) : q[i] = IF i <= Len(new) THEN new[i] ELSE p[i - Len(new) + Len(old)]
        /\ Len(old) <= Len(p)
    BY <1>6, <2>1, RebaseIsPath
  <2>3. Len(new) \in Nat /\ Len(p) \in Nat /\ Len(old) \in Nat
    BY <1>2, <2>1
  <2> HIDE DEF q
  <2>4. ASSUME p \in F PROVE q \in F
    <3>1. Len(p) \in Nat \ {0} /\ p[Len(p)] \in FileNames /\ \A k \in 1..Len(p) - 1 : p[k] \notin FileNames
      BY <1>2, <2>4 DEF FilesAt, NameOf
    <3>2. Len(old) # Len(p)
      <4>1. SUFFICES ASSUME Len(old) = Len(p) PROVE FALSE
        OBVIOUS
      <4>2. p[Len(p)] = old[Len(p)]
        BY <1>6, <2>1, <3>1, <4>1, UnderMeans
      <4> QED
        BY <2>1, <3>1, <4>1, <4>2
    <3>3. q[Len(q)] \in FileNames /\ Len(q) \in Nat \ {0}
      <4>1. Len(q) \in 1..Len(q) /\ ~(Len(q) <= Len(new)) /\ Len(q) - Len(new) + Len(old) = Len(p)
        BY <2>2, <2>3, <3>2
      <4>2. q[Len(q)] = p[Len(p)]
        BY <2>2, <4>1
      <4> QED
        BY <2>2, <2>3, <3>1, <4>1, <4>2
    <3>4. ASSUME NEW i \in 1..Len(q) - 1 PROVE q[i] \notin FileNames
      <4>1. CASE i <= Len(new)
        BY <2>1, <2>2, <2>3, <4>1
      <4>2. CASE ~(i <= Len(new))
        <5>1. i - Len(new) + Len(old) \in 1..Len(p) - 1 /\ i \in 1..Len(q)
          BY <2>2, <2>3, <4>2
        <5>2. q[i] = p[i - Len(new) + Len(old)]
          BY <2>2, <4>2, <5>1
        <5> QED
          BY <3>1, <5>1, <5>2
      <4> QED
        BY <4>1, <4>2
    <3> QED
      BY <1>1, <2>2, <3>3, <3>4 DEF FilesAt, NameOf
  <2>5. ASSUME p \in D PROVE q \in D
    <3>1. \A k \in 1..Len(p) : p[k] \notin FileNames
      BY <2>5 DEF DirsAt
    <3>2. ASSUME NEW i \in 1..Len(q) PROVE q[i] \notin FileNames
      <4>1. CASE i <= Len(new)
        BY <2>1, <2>2, <2>3, <4>1
      <4>2. CASE ~(i <= Len(new))
        <5>1. i - Len(new) + Len(old) \in 1..Len(p)
          BY <2>2, <2>3, <4>2
        <5> QED
          BY <2>2, <3>1, <4>2, <5>1
      <4> QED
        BY <4>1, <4>2
    <3> QED
      BY <2>2, <3>2 DEF DirsAt
  <2> QED
    BY <2>4, <2>5 DEF q
<1>7. Root \in D /\ D \subseteq PathSet /\ F \subseteq PathSet \ {Root}
  BY <1>1 DEF DirsAt, FilesAt
<1> QED
  <2>1. ASSUME NEW old \in MovePaths, NEW new \in MovePaths, NEW p \in F \cup D
        PROVE  LET q == Rebased(p, old, new) IN (p \in F => q \in F) /\ (p \in D => q \in D)
    BY <1>6, <2>1, PlainlyRebased DEF BelowPath
  <2> QED
    BY <1>3, <1>4, <1>5, <1>6, <1>7, <2>1, LibraryAssumption DEF Closed, NamesApart

----------------------------------------------------------------------------
(* The fetcher knows the files of the tree.                                *)

AnyShape == Shape(PathSet \ {Root}, PathSet)

Registered ==
    \A i \in IdsIn(ns) : i \in DOMAIN served \/ (scan.pc = "register" /\ scan.id = i)

\* A step after which the tree has no other files, and the fetcher and the
\* scan know those they knew.
KeepsRegistered ==
    /\ IdsIn(ns') \subseteq IdsIn(ns) /\ DOMAIN served \subseteq DOMAIN served'
    /\ scan' = scan \/ scan.pc # "register"

\* Every file that comes into the tree is registered with it, or by the step
\* of the scan that comes next; no file leaves the fetcher.
LEMMA RegisteredNext ==
    ASSUME AnyShape, Registered, [Next]_vars
    PROVE  Registered'
<1> DEFINE F == PathSet \ {Root}  D == PathSet
<1>1. Closed(F, D) /\ EntriesIn(ns, F, D) /\ directories \subseteq D
  BY AnyPathsClosed DEF AnyShape, Shape
<1>2. FuseIn(F) /\ ScanIn /\ RestoreIn(F)
  BY DEF AnyShape, Shape
<1>3. RowsIn(F) /\ origin \subseteq Files
  BY DEF AnyShape, Shape
<1> HIDE DEF F, D
<1>4. ASSUME KeepsRegistered PROVE Registered'
  BY <1>4 DEF KeepsRegistered, Registered
<1>5. ASSUME NEW f \in Files, ScanFile(f) PROVE Registered'
  <2> DEFINE path == StoredPath(Key(f, TRUE), Derived[f])
  <2>1. path \in F
    BY <1>1, <1>3, RowIdIs DEF StoredPath, RowsIn, Closed
  <2>2. PICK id : Place(f, id, path)
    BY <1>5 DEF ScanFile
  <2> HIDE DEF path
  <2>3. IdsIn(ns') \subseteq IdsIn(ns) \cup {id}
    BY <1>1, <2>1, <2>2, AddFileTree DEF Place
  <2>4. DOMAIN served' = DOMAIN served \cup {id}
    BY <2>2 DEF Place, Insert
  <2>5. scan' = scan
    BY <1>5 DEF ScanFile
  <2> QED
    BY <2>3, <2>4, <2>5 DEF Registered
<1>6. CASE FinishStart
  <2>1. IdsIn(ns') = IdsIn(ns)
    BY <1>1, <1>6, RestoredTree DEF FinishStart
  <2> QED
    BY <1>4, <1>6, <2>1 DEF FinishStart, KeepsRegistered
<1>7. CASE GoDown
  <2>1. IdsIn(ns') = {}
    BY <1>1, <1>7, EmptyTreeIs DEF GoDown
  <2> QED
    BY <2>1 DEF Registered
<1>8. ASSUME NEW p \in DirPaths, Mkdir(p) \/ Rmdir(p) PROVE Registered'
  <2>1. IdsIn(ns') = IdsIn(ns)
    BY <1>1, <1>8, MakeDirTree, DeleteDirTree DEF Mkdir, Rmdir
  <2> QED
    BY <1>4, <1>8, <2>1 DEF Mkdir, Rmdir, FuseOnly, KeepsRegistered
<1>9. ASSUME NEW old \in MovePaths, NEW new \in MovePaths, RenameDir(old, new) PROVE Registered'
  <2>1. N!CanMove(old, new) /\ ~Under(new, old) /\ ns' = N!Moved(old, new)
    BY <1>9 DEF RenameDir, N!MoveDir, N!Under, Under, N!Upto, Upto
  <2>2. IdsIn(ns') \subseteq IdsIn(ns)
    BY <1>1, <2>1, MovedTree
  <2> QED
    BY <1>4, <1>9, <2>2 DEF RenameDir, FuseOnly, KeepsRegistered
<1>10. CASE UnlinkTree
  <2>1. fuse.old \in F /\ fuse.new \in F
    BY <1>2, <1>10 DEF UnlinkTree, FuseIn
  <2>2. IdsIn(ns') = IdsIn(ns)
    BY <1>1, <1>10, <2>1, RelocationTree DEF UnlinkTree
  <2> QED
    BY <1>4, <1>10, <2>2 DEF UnlinkTree, FuseOnly, KeepsRegistered
<1>11. CASE RenameFile
  <2>1. fuse.old \in F /\ fuse.new \in F
    BY <1>2, <1>11 DEF RenameFile, FuseIn
  <2>2. IdsIn(ns') = IdsIn(ns)
    BY <1>1, <1>11, <2>1, RenamedFileTree DEF RenameFile
  <2> QED
    BY <1>4, <1>11, <2>2 DEF RenameFile, FuseOnly, KeepsRegistered
<1>12. CASE RestoreTree
  <2>1. PICK item \in restore.left : Relocates(item.from, item.to) \/ RelocationFails(item.from, item.to)
    BY <1>12 DEF RestoreTree
  <2>2. item.to \in F
    BY <1>2, <1>12, <2>1 DEF RestoreTree, RestoreIn, ItemsIn
  <2>3. IdsIn(ns') = IdsIn(ns)
    BY <1>1, <2>1, <2>2, RelocationTree
  <2> QED
    BY <1>4, <1>12, <2>3 DEF RestoreTree, RestoreOnly, KeepsRegistered
<1>13. CASE RescanInsert
  <2>1. /\ scan = [pc |-> scan.pc, todo |-> scan.todo, file |-> scan.file, id |-> scan.id]
        /\ scan.file \in Files
    BY <1>2, <1>13 DEF RescanInsert, ScanIn
  <2>2. IdsIn(ns') \subseteq IdsIn(ns) \cup {scan.id}
    <3>1. Derived[scan.file] \in F
      BY <1>1, <2>1 DEF Closed
    <3> QED
      BY <1>1, <1>13, <3>1, AddFileTree DEF RescanInsert
  <2>3. scan' = [pc |-> "register", todo |-> scan.todo, file |-> scan.file, id |-> scan.id]
    BY <1>13, <2>1 DEF RescanInsert
  <2>4. scan'.pc = "register" /\ scan'.id = scan.id
    BY <2>3
  <2>5. served' = served /\ scan.pc = "insert"
    BY <1>13 DEF RescanInsert, ScanOnly
  <2> QED
    BY <2>2, <2>4, <2>5 DEF Registered
<1>14. CASE RescanRegister
  <2>1. DOMAIN served' = DOMAIN served \cup {scan.id} /\ ns' = ns
    BY <1>14 DEF RescanRegister, Insert
  <2> QED
    BY <2>1 DEF Registered
<1>15. CASE Rescan \/ RescanUpsert \/ RescanDone
  <2>1. scan = Idle \/ scan.pc = "upsert"
    BY <1>15 DEF Rescan, RescanUpsert, RescanDone
  <2>2. scan.pc # "register"
    BY <2>1 DEF Idle
  <2> QED
    BY <1>4, <1>15, <2>2 DEF Rescan, RescanUpsert, RescanDone, KeepsRegistered
<1>16. CASE UNCHANGED <<ns, served, scan>>
  BY <1>4, <1>16 DEF KeepsRegistered
<1>17. CASE \/ Start \/ (\E p \in FilePaths : Unlink(p))
            \/ (\E old, new \in FilePaths : ReadId("rename", old, new))
            \/ RmdirDb \/ UnlinkPath \/ UnlinkMark \/ RenameUnmark \/ RenameDirDb
            \/ CliRestore \/ Sighup \/ RestorePath \/ RestoreUnmark \/ RestoreDone
            \/ CliPurge \/ PurgeDelete
            \/ (\E f \in Files : SecondRead(f)) \/ SecondUpsert \/ NewFile \/ Tick
            \/ UNCHANGED vars
  BY <1>16, <1>17 DEF Start, Unlink, ReadId, RmdirDb, UnlinkPath, UnlinkMark, RenameUnmark,
     RenameDirDb, FuseOnly, CliRestore, Sighup, RestorePath, RestoreUnmark, RestoreDone, RestoreOnly,
     CliPurge, PurgeDelete, SecondRead, SecondUpsert, NewFile, Tick, memory, vars
<1> QED
  BY <1>5, <1>6, <1>7, <1>8, <1>9, <1>10, <1>11, <1>12, <1>13, <1>14, <1>15, <1>17
  DEF Next, Fuse, Unmount, Crash

\* The fetcher knows every file in the tree, but for the one that the gRPC
\* scan has inserted and is about to register: whatever ids the database
\* gives out, whatever fails, and whoever else is at work.
THEOREM FilesAreReadable == Spec => []Readable
<1>1. Init => AnyShape /\ Registered
  <2> SUFFICES ASSUME Init PROVE AnyShape /\ Registered
    OBVIOUS
  <2>1. AnyShape
    BY AnyPathsClosed, ShapeInit DEF AnyShape
  <2>2. Registered
    BY AnyPathsClosed, EmptyTreeIs DEF Init, Registered
  <2> QED
    BY <2>1, <2>2
<1>2. AnyShape /\ Registered /\ [Next]_vars => (AnyShape /\ Registered)'
  <2> SUFFICES ASSUME AnyShape, Registered, [Next]_vars PROVE AnyShape' /\ Registered'
    OBVIOUS
  <2>1. AnyShape'
    BY AnyPathsClosed, ShapeNext DEF AnyShape
  <2> QED
    BY <2>1, RegisteredNext
<1>3. AnyShape /\ Registered => Readable
  BY DEF Registered, Readable
<1> QED
  BY <1>1, <1>2, <1>3, PTL DEF Spec

----------------------------------------------------------------------------
(* No file vanishes.                                                       *)

\* The ids a request, a restore or another process leaves in the tree: all
\* that were there.  A file is never moved onto another, and no directory
\* onto a path with something below it.
LEMMA FilesStay ==
    ASSUME NEW F, NEW D, Closed(F, D), Shape(F, D), Hierarchy(ns), F \cap D = {},
           "rescan" \notin Events, scan = Idle, mode = "up", mode' = "up", [Next]_vars
    PROVE  IdsIn(ns) \subseteq IdsIn(ns')
<1>1. EntriesIn(ns, F, D) /\ FuseIn(F) /\ RestoreIn(F)
  BY DEF Shape
<1>2. ~RescanInsert /\ ~FinishStart /\ ~GoDown /\ ~(\E f \in Files : ScanFile(f))
  BY DEF RescanInsert, FinishStart, GoDown, ScanFile, Idle
<1>3. ASSUME NEW p \in DirPaths, Mkdir(p) \/ Rmdir(p) PROVE IdsIn(ns') = IdsIn(ns)
  BY <1>1, <1>3, MakeDirTree, DeleteDirTree DEF Mkdir, Rmdir
<1>4. ASSUME NEW old \in MovePaths, NEW new \in MovePaths, RenameDir(old, new)
      PROVE  IdsIn(ns) \subseteq IdsIn(ns')
  <2>1. N!CanMove(old, new) /\ ~Under(new, old) /\ ns' = N!Moved(old, new)
    BY <1>4 DEF RenameDir, N!MoveDir, N!Under, Under, N!Upto, Upto
  <2> QED
    BY <1>1, <2>1, MovedTree
<1>5. CASE UnlinkTree
  <2>1. fuse.old \in F /\ fuse.new \in F
    BY <1>1, <1>5 DEF UnlinkTree, FuseIn
  <2> QED
    BY <1>1, <1>5, <2>1, RelocationTree DEF UnlinkTree
<1>6. CASE RenameFile
  <2>1. fuse.old \in F /\ fuse.new \in F
    BY <1>1, <1>6 DEF RenameFile, FuseIn
  <2> QED
    BY <1>1, <1>6, <2>1, RenamedFileTree DEF RenameFile
<1>7. CASE RestoreTree
  <2>1. PICK item \in restore.left : Relocates(item.from, item.to) \/ RelocationFails(item.from, item.to)
    BY <1>7 DEF RestoreTree
  <2>2. item.to \in F
    BY <1>1, <1>7, <2>1 DEF RestoreTree, RestoreIn, ItemsIn
  <2> QED
    BY <1>1, <2>1, <2>2, RelocationTree
<1>8. CASE UNCHANGED ns
  BY <1>8
<1>9. CASE \/ Start \/ (\E p \in FilePaths : Unlink(p))
           \/ (\E old, new \in FilePaths : ReadId("rename", old, new))
           \/ RmdirDb \/ UnlinkPath \/ UnlinkMark \/ RenameUnmark \/ RenameDirDb
           \/ Rescan \/ RescanUpsert \/ RescanRegister \/ RescanDone
           \/ CliRestore \/ Sighup \/ RestorePath \/ RestoreUnmark \/ RestoreDone
           \/ CliPurge \/ PurgeDelete
           \/ (\E f \in Files : SecondRead(f)) \/ SecondUpsert \/ NewFile \/ Tick
           \/ UNCHANGED vars
  BY <1>8, <1>9 DEF Start, Unlink, ReadId, RmdirDb, UnlinkPath, UnlinkMark, RenameUnmark,
     RenameDirDb, FuseOnly, Rescan, RescanUpsert, RescanRegister, RescanDone,
     CliRestore, Sighup, RestorePath, RestoreUnmark, RestoreDone, RestoreOnly,
     CliPurge, PurgeDelete, SecondRead, SecondUpsert, NewFile, Tick, memory, vars
<1> QED
  BY <1>2, <1>3, <1>4, <1>5, <1>6, <1>7, <1>9 DEF Next, Fuse, Unmount, Crash

\* Everything in the tree stays below directories of the tree.
LEMMA HierarchyNext ==
    ASSUME NEW F, NEW D, Closed(F, D), Shape(F, D), Hierarchy(ns), F \cap D = {}, [Next]_vars
    PROVE  Hierarchy(ns)'
<1>1. /\ EntriesIn(ns, F, D) /\ FuseIn(F) /\ ScanIn /\ RestoreIn(F) /\ RowsIn(F)
      /\ directories \subseteq D
  BY DEF Shape
<1>2. ASSUME NEW f \in Files, ScanFile(f) PROVE Hierarchy(ns')
  <2> DEFINE path == StoredPath(Key(f, TRUE), Derived[f])
  <2>1. path \in F
    BY <1>1, RowIdIs DEF StoredPath, RowsIn, Closed
  <2>2. PICK id : Place(f, id, path)
    BY <1>2 DEF ScanFile
  <2> HIDE DEF path
  <2> QED
    BY <1>1, <2>1, <2>2, AddFileTree DEF Place
<1>3. CASE RescanInsert
  <2>1. Derived[scan.file] \in F
    BY <1>1, <1>3 DEF RescanInsert, ScanIn, Closed
  <2> QED
    BY <1>1, <1>3, <2>1, AddFileTree DEF RescanInsert
<1>4. CASE FinishStart
  BY <1>1, <1>4, RestoredTree DEF FinishStart
<1>5. CASE GoDown
  BY <1>1, <1>5, EmptyTreeIs DEF GoDown
<1>6. ASSUME NEW p \in DirPaths, Mkdir(p) \/ Rmdir(p) PROVE Hierarchy(ns')
  BY <1>1, <1>6, MakeDirTree, DeleteDirTree DEF Mkdir, Rmdir
<1>7. ASSUME NEW old \in MovePaths, NEW new \in MovePaths, RenameDir(old, new)
      PROVE  Hierarchy(ns')
  <2>1. N!CanMove(old, new) /\ ~Under(new, old) /\ ns' = N!Moved(old, new)
    BY <1>7 DEF RenameDir, N!MoveDir, N!Under, Under, N!Upto, Upto
  <2> QED
    BY <1>1, <2>1, MovedTree
<1>8. CASE UnlinkTree
  <2>1. fuse.old \in F /\ fuse.new \in F
    BY <1>1, <1>8 DEF UnlinkTree, FuseIn
  <2> QED
    BY <1>1, <1>8, <2>1, RelocationTree DEF UnlinkTree
<1>9. CASE RenameFile
  <2>1. fuse.old \in F /\ fuse.new \in F
    BY <1>1, <1>9 DEF RenameFile, FuseIn
  <2> QED
    BY <1>1, <1>9, <2>1, RenamedFileTree DEF RenameFile
<1>10. CASE RestoreTree
  <2>1. PICK item \in restore.left : Relocates(item.from, item.to) \/ RelocationFails(item.from, item.to)
    BY <1>10 DEF RestoreTree
  <2>2. item.to \in F
    BY <1>1, <1>10, <2>1 DEF RestoreTree, RestoreIn, ItemsIn
  <2> QED
    BY <1>1, <2>1, <2>2, RelocationTree
<1>11. CASE UNCHANGED ns
  BY <1>11
<1>12. CASE \/ Start \/ (\E p \in FilePaths : Unlink(p))
            \/ (\E old, new \in FilePaths : ReadId("rename", old, new))
            \/ RmdirDb \/ UnlinkPath \/ UnlinkMark \/ RenameUnmark \/ RenameDirDb
            \/ Rescan \/ RescanUpsert \/ RescanRegister \/ RescanDone
            \/ CliRestore \/ Sighup \/ RestorePath \/ RestoreUnmark \/ RestoreDone
            \/ CliPurge \/ PurgeDelete
            \/ (\E f \in Files : SecondRead(f)) \/ SecondUpsert \/ NewFile \/ Tick
            \/ UNCHANGED vars
  BY <1>11, <1>12 DEF Start, Unlink, ReadId, RmdirDb, UnlinkPath, UnlinkMark, RenameUnmark,
     RenameDirDb, FuseOnly, Rescan, RescanUpsert, RescanRegister, RescanDone,
     CliRestore, Sighup, RestorePath, RestoreUnmark, RestoreDone, RestoreOnly,
     CliPurge, PurgeDelete, SecondRead, SecondUpsert, NewFile, Tick, memory, vars
<1> QED
  BY <1>2, <1>3, <1>4, <1>5, <1>6, <1>7, <1>8, <1>9, <1>10, <1>12
  DEF Next, Fuse, Unmount, Crash

\* The scanner is never started.
LEMMA ScanStaysIdle ==
    ASSUME "rescan" \notin Events, scan = Idle, [Next]_vars
    PROVE  scan' = Idle
<1>1. ~Rescan /\ scan.pc = "idle"
  BY DEF Rescan, Idle
<1>2. ~RescanUpsert /\ ~RescanInsert /\ ~RescanRegister /\ ~RescanDone
  BY <1>1 DEF RescanUpsert, RescanInsert, RescanRegister, RescanDone
<1>3. \/ UNCHANGED scan \/ scan' = Idle
  BY <1>1, <1>2 DEF Next, Fuse, Unmount, Crash, GoDown, Start, ScanFile, FinishStart, Mkdir, Rmdir,
     Unlink, ReadId, RenameDir, RmdirDb, UnlinkTree, UnlinkPath, UnlinkMark, RenameFile, RenameUnmark,
     RenameDirDb, FuseOnly, CliRestore, Sighup, RestoreTree, RestorePath, RestoreUnmark, RestoreDone,
     RestoreOnly, CliPurge, PurgeDelete, SecondRead, SecondUpsert, NewFile, Tick, memory, vars
<1> QED
  BY <1>3

\* No request, no restore, no other process and no crash makes a file vanish
\* from a mounted library, when the names of files are told from those of
\* directories, the directories that are renamed have no wide characters, and
\* the gRPC scanner, which places a file by its tags whatever is there, does
\* not run.
THEOREM FilesDoNotVanish ==
    ASSUME NEW FileNames, NamesApart(FileNames), PlainMoves, "rescan" \notin Events
    PROVE  Spec => NoFileLost
<1> DEFINE F == FilesAt(FileNames)  D == DirsAt(FileNames)
           Inv == Shape(F, D) /\ Hierarchy(ns) /\ scan = Idle
<1>1. Closed(F, D) /\ F \cap D = {}
  BY PathsApart
<1> HIDE DEF F, D
<1>2. Init => Inv
  BY <1>1, ShapeInit, EmptyTreeIs DEF Init
<1>3. Inv /\ [Next]_vars => Inv'
  BY <1>1, ShapeNext, HierarchyNext, ScanStaysIdle
<1>4. Inv /\ [Next]_vars => [mode = "up" /\ mode' = "up" => IdsIn(ns) \subseteq IdsIn(ns')]_vars
  BY <1>1, FilesStay
<1> HIDE DEF Inv
<1> QED
  BY <1>2, <1>3, <1>4, PTL DEF Spec, NoFileLost

----------------------------------------------------------------------------
(* A mount changes nothing of what it finds.                               *)

\* Outside a mounted library none of the daemon's threads is at work.
Paused == mode # "up" => fuse = Idle /\ scan = Idle /\ restore = Idle

Alone == second = Idle /\ purge = Idle

\* While nothing is purged the ids have no gaps.
Dense == \E n \in 0..MaxId : DOMAIN rows = 1..n

\* The next rowid is free.
LEMMA NextIdIs ==
    ASSUME NEW n \in 0..MaxId, DOMAIN rows = 1..n
    PROVE  NextId = n + 1
<1> DEFINE P(i) == (\A j \in DOMAIN rows : j < i) /\ (i = 1 \/ i - 1 \in DOMAIN rows)
<1>1. MaxId \in Nat /\ n \in Nat /\ n + 1 \in 1..MaxId + 1
  BY DatabaseAssumption
<1>2. P(n + 1)
  BY <1>1
<1>3. NextId \in 1..MaxId + 1 /\ P(NextId)
  <2>1. NextId = CHOOSE i \in 1..MaxId + 1 : P(i)
    BY DEF NextId
  <2> HIDE DEF P
  <2> QED
    BY <1>1, <1>2, <2>1
<1>4. NextId \in Nat /\ NextId >= 1
  BY <1>1, <1>3
<1>5. NextId > n
  <2>1. CASE n = 0
    BY <1>4, <2>1
  <2>2. CASE n # 0
    <3>1. n \in DOMAIN rows
      BY <1>1, <2>2
    <3> QED
      BY <1>3, <3>1
  <2> QED
    BY <2>1, <2>2
<1>6. NextId <= n + 1
  <2>1. NextId = 1 \/ NextId - 1 \in 1..n
    BY <1>3
  <2> QED
    BY <1>1, <1>4, <2>1
<1> QED
  BY <1>1, <1>4, <1>5, <1>6

\* An upsert numbers the rows on.
LEMMA UpsertDense ==
    ASSUME Dense, NEW key, NEW path, Upsert(key, path)
    PROVE  Dense' /\ (~HasRow(key) => NextId \notin DOMAIN rows)
<1>1. PICK n \in 0..MaxId : DOMAIN rows = 1..n
  BY DEF Dense
<1>2. NextId = n + 1
  BY <1>1, NextIdIs
<1>3. MaxId \in Nat /\ n \in Nat
  BY DatabaseAssumption
<1>4. CASE HasRow(key)
  <2>1. DOMAIN rows' = DOMAIN rows
    BY <1>4 DEF Upsert
  <2> QED
    BY <1>1, <1>4, <2>1 DEF Dense
<1>5. CASE ~HasRow(key)
  <2>1. n + 1 <= MaxId /\ DOMAIN rows' = 1..n \cup {n + 1}
    BY <1>1, <1>2, <1>5 DEF Upsert, Insert
  <2>2. n + 1 \in 0..MaxId /\ 1..n \cup {n + 1} = 1..n + 1
    BY <1>3, <2>1
  <2>3. n + 1 \notin 1..n
    BY <1>3
  <2> QED
    BY <1>1, <1>2, <2>1, <2>2, <2>3 DEF Dense
<1> QED
  BY <1>4, <1>5

\* No other statement adds or removes a row.
LEMMA DenseNext ==
    ASSUME Dense, Alone, [Next]_vars
    PROVE  Dense'
<1>1. ASSUME NEW key, NEW path, Upsert(key, path) PROVE Dense'
  BY <1>1, UpsertDense
<1>2. CASE DOMAIN rows' = DOMAIN rows
  BY <1>2 DEF Dense
<1>3. ASSUME NEW id, NEW path, NEW time,
             UpdateVirtualPath(id, path) \/ MarkTrashed(id, path, time) \/ UnmarkTrashed(id)
      PROVE  DOMAIN rows' = DOMAIN rows
  BY <1>3 DEF UpdateVirtualPath, MarkTrashed, UnmarkTrashed
<1>4. ASSUME NEW old, NEW new, RenameRows(old, new) PROVE DOMAIN rows' = DOMAIN rows
  BY <1>4 DEF RenameRows
<1>5. ~PurgeDelete /\ ~SecondUpsert
  BY DEF Alone, PurgeDelete, SecondUpsert, Idle
<1>6. CASE (\E f \in Files : ScanFile(f)) \/ RescanUpsert
  BY <1>1, <1>2, <1>6 DEF ScanFile, RescanUpsert
<1>7. CASE \/ \E old, new \in MovePaths : RenameDir(old, new)
           \/ UnlinkPath \/ UnlinkMark \/ RenameFile \/ RenameUnmark \/ RestorePath \/ RestoreUnmark
  BY <1>2, <1>3, <1>4, <1>7 DEF RenameDir, UnlinkPath, UnlinkMark, RenameFile, RenameUnmark,
     RestorePath, RestoreUnmark, Try, tables
<1>8. CASE \/ Start \/ FinishStart \/ GoDown
           \/ (\E p \in DirPaths : Mkdir(p) \/ Rmdir(p)) \/ (\E p \in FilePaths : Unlink(p))
           \/ (\E old, new \in FilePaths : ReadId("rename", old, new))
           \/ RmdirDb \/ UnlinkTree \/ RenameDirDb
           \/ Rescan \/ RescanInsert \/ RescanRegister \/ RescanDone
           \/ CliRestore \/ Sighup \/ RestoreTree \/ RestoreDone \/ CliPurge
           \/ (\E f \in Files : SecondRead(f)) \/ NewFile \/ Tick \/ UNCHANGED vars
  <2>1. rows' = rows
    BY <1>8 DEF Start, FinishStart, GoDown, Mkdir, Rmdir, Unlink, ReadId, RmdirDb, UnlinkTree,
       RenameDirDb, Rescan, RescanInsert, RescanRegister, RescanDone, CliRestore, Sighup, RestoreTree,
       RestoreDone, CliPurge, SecondRead, NewFile, Tick, Try, tables, vars
  <2> QED
    BY <1>2, <2>1
<1> QED
  BY <1>5, <1>6, <1>7, <1>8 DEF Next, Fuse, Unmount, Crash

\* The threads of the daemon begin when it is up and end with it.
LEMMA PausedNext ==
    ASSUME Paused, [Next]_vars
    PROVE  Paused'
<1>1. CASE mode = "up" /\ mode' = "up"
  BY <1>1 DEF Paused
<1>2. CASE GoDown
  BY <1>2 DEF GoDown, Paused
<1>3. CASE mode # "up"
  <2>1. /\ fuse = Idle /\ scan = Idle /\ restore = Idle
        /\ fuse.pc = "idle" /\ scan.pc = "idle" /\ restore.pc = "idle"
    BY <1>3 DEF Paused, Idle
  <2>2. CASE Start \/ (\E f \in Files : ScanFile(f)) \/ FinishStart
    BY <2>1, <2>2 DEF Start, ScanFile, FinishStart, Paused
  <2>3. CASE CliPurge \/ PurgeDelete \/ (\E f \in Files : SecondRead(f)) \/ SecondUpsert
             \/ NewFile \/ Tick \/ UNCHANGED vars
    BY <2>1, <2>3 DEF CliPurge, PurgeDelete, SecondRead, SecondUpsert, NewFile, Tick, memory, vars, Paused
  <2>4. ~Fuse
    BY <1>3, <2>1 DEF Fuse, Mkdir, Rmdir, Unlink, ReadId, RenameDir, Request, RmdirDb, UnlinkTree,
       UnlinkPath, UnlinkMark, RenameFile, RenameUnmark, RenameDirDb
  <2>5. /\ ~Rescan /\ ~RescanUpsert /\ ~RescanInsert /\ ~RescanRegister /\ ~RescanDone
        /\ ~CliRestore /\ ~Sighup /\ ~RestoreTree /\ ~RestorePath /\ ~RestoreUnmark /\ ~RestoreDone
    BY <1>3, <2>1 DEF Rescan, RescanUpsert, RescanInsert, RescanRegister, RescanDone, CliRestore,
       Sighup, RestoreTree, RestorePath, RestoreUnmark, RestoreDone
  <2> QED
    BY <1>2, <2>2, <2>3, <2>4, <2>5 DEF Next, Unmount, Crash
<1>4. CASE mode = "up" /\ mode' # "up"
  <2>1. ~Start /\ ~(\E f \in Files : ScanFile(f)) /\ ~FinishStart
    BY <1>4 DEF Start, ScanFile, FinishStart
  <2>2. mode' = mode \/ GoDown
    BY <2>1 DEF Next, Fuse, Unmount, Crash, Mkdir, Rmdir, Unlink, ReadId, RenameDir, RmdirDb,
       UnlinkTree, UnlinkPath, UnlinkMark, RenameFile, RenameUnmark, RenameDirDb, FuseOnly,
       Rescan, RescanUpsert, RescanInsert, RescanRegister, RescanDone, ScanOnly,
       CliRestore, Sighup, RestoreTree, RestorePath, RestoreUnmark, RestoreDone,
       RestoreOnly, CliPurge, PurgeDelete, SecondRead, SecondUpsert, NewFile, Tick, memory, vars
  <2> QED
    BY <1>2, <1>4, <2>2
<1> QED
  BY <1>1, <1>3, <1>4

\* "trash empty" and a second mount are the only other writers.
LEMMA AloneNext ==
    ASSUME "purge" \notin Events, "second_daemon" \notin Events, Alone, [Next]_vars
    PROVE  Alone'
<1>1. second.pc = "idle" /\ purge.pc = "idle"
  BY DEF Alone, Idle
<1>2. ~CliPurge /\ ~PurgeDelete /\ ~SecondUpsert /\ ~(\E f \in Files : SecondRead(f))
  BY <1>1 DEF CliPurge, PurgeDelete, SecondUpsert, SecondRead
<1>3. UNCHANGED <<second, purge>>
  BY <1>2 DEF Next, Fuse, Unmount, Crash, GoDown, Start, ScanFile, FinishStart, Mkdir, Rmdir,
     Unlink, ReadId, RenameDir, RmdirDb, UnlinkTree, UnlinkPath, UnlinkMark, RenameFile, RenameUnmark,
     RenameDirDb, FuseOnly, Rescan, RescanUpsert, RescanInsert, RescanRegister, RescanDone, ScanOnly,
     CliRestore, Sighup, RestoreTree, RestorePath, RestoreUnmark, RestoreDone, RestoreOnly,
     NewFile, Tick, memory, vars
<1> QED
  BY <1>3 DEF Alone

\* What the scan writes back is what it has read.
LEMMA ScanWritesBack ==
    ASSUME NEW F, RowsIn(F), Dense, NEW f \in Files, ScanFile(f), NEW i \in DOMAIN rows
    PROVE  i \in DOMAIN rows' /\ rows'[i] = rows[i]
<1> DEFINE key == Key(f, TRUE)
           path == StoredPath(key, Derived[f])
<1>1. Upsert(key, path) \/ UNCHANGED rows
  BY DEF ScanFile
<1>2. CASE UNCHANGED rows
  BY <1>2
<1>3. CASE Upsert(key, path) /\ HasRow(key)
  <2>1. RowId(key) \in DOMAIN rows /\ path = rows[RowId(key)].path
    BY <1>3, RowIdIs DEF StoredPath
  <2>2. rows' = [rows EXCEPT ![RowId(key)] = [rows[RowId(key)] EXCEPT !.path = path]]
    BY <1>3 DEF Upsert
  <2>3. IsRow(rows[RowId(key)])
    BY <2>1 DEF RowsIn
  <2> HIDE DEF key, path
  <2>4. PICK r : r = [rows[RowId(key)] EXCEPT !.path = path]
    OBVIOUS
  <2>5. r = rows[RowId(key)]
    BY <2>1, <2>3, <2>4, RowMoved
  <2> QED
    BY <2>1, <2>2, <2>4, <2>5
<1>4. CASE Upsert(key, path) /\ ~HasRow(key)
  <2>1. NextId \notin DOMAIN rows
    BY <1>4, UpsertDense
  <2>2. rows' = Insert(rows, NextId, NewRow(key, path))
    BY <1>4 DEF Upsert
  <2> QED
    BY <2>1, <2>2 DEF Insert
<1> QED
  BY <1>1, <1>2, <1>3, <1>4

----------------------------------------------------------------------------
(* What a remount would rebuild is what is there.                          *)

\* Nothing but requests, remounts and crashes of the mounted daemon; or
\* restores that the daemon does not see.  And the directories that are
\* renamed have no wide characters.
Undisturbed ==
    /\ PlainMoves
    /\ Events \subseteq {"crash", "restore"}
    /\ "restore" \in Events => ~RestoreFileKnown
    /\ \A f, g \in Present : Derived[f] = Derived[g] => f = g

\* The files a starting daemon has still to come to.
Missing == IF mode = "up" THEN {} ELSE IF mode = "starting" THEN todo ELSE Present

\* The rows whose files are in the tree, and where: unlink moves a file before
\* its row.
Come == {i \in DOMAIN rows : rows[i].key.file \notin Missing}
At == [i \in Come |-> IF fuse.pc = "path" /\ fuse.id = i THEN fuse.new ELSE rows[i].path]

\* The files of a tree are those numbered, each where it should be.
Holds(tree, at) ==
    /\ \A i \in DOMAIN at : at[i] \in DOMAIN tree /\ tree[at[i]] = N!File(i)
    /\ \A p \in DOMAIN tree :
         tree[p] # N!Dir => \E i \in DOMAIN at : tree[p] = N!File(i) /\ at[i] = p

RowsApart ==
    \A i, j \in DOMAIN rows :
      rows[i].key = rows[j].key \/ rows[i].path = rows[j].path => i = j

RowsOfOrigin == \A i \in DOMAIN rows : \E f \in Present : rows[i].key = Key(f, TRUE)

\* Either all files have rows and the connection has inserted none, or those
\* that are still to come have none: then upserts return the ids of their rows.
Numbered ==
    \/ mode = "up"
    \/ last_rowid = 0 /\ \A f \in Present : HasRow(Key(f, TRUE))
    \/ /\ \A f \in Missing : ~HasRow(Key(f, TRUE))
       /\ \A i \in DOMAIN rows : rows[i].path = Derived[rows[i].key.file]

RequestOK ==
    /\ fuse.pc \in {"unlink", "rename"} => fuse.old \in DOMAIN ns /\ ns[fuse.old] = N!File(fuse.id)
    /\ fuse.pc = "path" => fuse.id \in DOMAIN rows

Kept ==
    /\ RowsApart /\ RowsOfOrigin /\ Numbered /\ RequestOK
    /\ Holds(ns, At)
    /\ \A i \in Come : i \in DOMAIN served /\ served[i] = rows[i].key.file
    /\ \A f \in Present \ Missing : HasRow(Key(f, TRUE))

Restful ==
    /\ scan = Idle /\ restore = Idle /\ second = Idle /\ purge = Idle
    /\ origin = Present /\ todo \subseteq Present
    /\ mode # "up" => fuse = Idle
    /\ mode = "down" => last_rowid = 0
    /\ sighup => ~RestoreFileKnown

----------------------------------------------------------------------------
(* Trees that hold the same files.                                         *)

SameFiles(t, u) ==
    /\ \A q \in DOMAIN t : t[q] # N!Dir => q \in DOMAIN u /\ u[q] = t[q]
    /\ \A q \in DOMAIN u : u[q] # N!Dir => q \in DOMAIN t /\ u[q] = t[q]

LEMMA FileIs ==
    ASSUME NEW i
    PROVE  N!File(i).id = i /\ N!File(i) # N!Dir /\ \A j : N!File(i) = N!File(j) => i = j
<1>1. N!File(i).id = i /\ \A j : N!File(j).id = j
  BY DEF N!File
<1>2. N!File(i).kind = "file" /\ N!Dir.kind = "dir"
  BY DEF N!File, N!Dir
<1> QED
  BY <1>1, <1>2

LEMMA SamePlaces ==
    ASSUME NEW t, NEW at, Holds(t, at),
           NEW b, DOMAIN b = DOMAIN at, \A i \in DOMAIN at : b[i] = at[i]
    PROVE  Holds(t, b)
BY DEF Holds

LEMMA SameFilesHold ==
    ASSUME NEW t, NEW u, NEW at, Holds(t, at), SameFiles(t, u)
    PROVE  Holds(u, at)
<1>1. ASSUME NEW i \in DOMAIN at PROVE at[i] \in DOMAIN u /\ u[at[i]] = N!File(i)
  BY FileIs DEF Holds, SameFiles
<1>2. ASSUME NEW p \in DOMAIN u, u[p] # N!Dir
      PROVE  \E i \in DOMAIN at : u[p] = N!File(i) /\ at[i] = p
  BY <1>2 DEF Holds, SameFiles
<1> QED
  BY <1>1, <1>2 DEF Holds

\* mkdir_p, mkdir, rmdir and restore_directories touch no file.
LEMMA WithDirsSame == ASSUME NEW p PROVE SameFiles(ns, N!WithDirs(p))
<1> DEFINE t == N!WithDirs(p)
<1>1. /\ DOMAIN ns \subseteq DOMAIN t
      /\ \A q \in DOMAIN ns : t[q] = ns[q]
      /\ \A q \in DOMAIN t \ DOMAIN ns : t[q] = N!Dir
  BY WithDirsIs
<1> HIDE DEF t
<1> QED
  BY <1>1 DEF SameFiles, t

LEMMA MakeDirSame == ASSUME NEW p, N!MakeDir(p) PROVE SameFiles(ns, ns')
<1> DEFINE t == N!WithDirs(Parent(p))
<1>1. ns' = N!WithEntry(p, N!Dir) /\ p \notin DOMAIN ns
  BY DEF N!MakeDir, N!Exists
<1>2. /\ DOMAIN ns' = DOMAIN t \cup {p}
      /\ \A q \in DOMAIN ns' : ns'[q] = IF q = p THEN N!Dir ELSE t[q]
  BY <1>1 DEF N!WithEntry, N!Parent, Parent
<1>3. /\ DOMAIN ns \subseteq DOMAIN t
      /\ \A q \in DOMAIN ns : t[q] = ns[q]
      /\ \A q \in DOMAIN t \ DOMAIN ns : t[q] = N!Dir
  BY WithDirsIs
<1> HIDE DEF t
<1> QED
  BY <1>1, <1>2, <1>3 DEF SameFiles

LEMMA DeleteDirSame == ASSUME NEW p, N!DeleteDir(p) PROVE SameFiles(ns, ns')
<1>1. p \in DOMAIN ns /\ ns[p] = N!Dir /\ ns' = [q \in DOMAIN ns \ {p} |-> ns[q]]
  BY DEF N!DeleteDir, N!IsDirectory, N!Exists, N!Without
<1>2. DOMAIN ns' = DOMAIN ns \ {p} /\ \A q \in DOMAIN ns' : ns'[q] = ns[q]
  BY <1>1
<1> QED
  BY <1>1, <1>2 DEF SameFiles

\* A file is moved to where nothing is.
LEMMA RenamedHolds ==
    ASSUME NEW t, NEW at, Holds(t, at), NEW old, NEW new, CanRename(t, old, new),
           NEW id, t[old] = N!File(id),
           NEW b, DOMAIN b = DOMAIN at,
           \A i \in DOMAIN at : b[i] = IF i = id THEN new ELSE at[i]
    PROVE  Holds(RenamedFile(t, old, new), b)
<1> DEFINE u == RenamedFile(t, old, new)
<1>1. old \in DOMAIN t /\ t[old] # N!Dir /\ new \notin DOMAIN t
  BY DEF CanRename
<1>2. /\ DOMAIN u = (DOMAIN t \ {old}) \cup {new} /\ u[new] = t[old]
      /\ \A q \in DOMAIN t \ {old} : u[q] = t[q]
  BY <1>1 DEF RenamedFile, Insert, Remove
<1> HIDE DEF u
<1>3. PICK j \in DOMAIN at : t[old] = N!File(j) /\ at[j] = old
  BY <1>1 DEF Holds
<1>4. id = j
  BY <1>3, FileIs
<1>5. ASSUME NEW i \in DOMAIN b PROVE b[i] \in DOMAIN u /\ u[b[i]] = N!File(i)
  <2>1. CASE i = id
    BY <1>2, <2>1
  <2>2. CASE i # id
    <3>1. at[i] \in DOMAIN t /\ t[at[i]] = N!File(i) /\ b[i] = at[i]
      BY <2>2 DEF Holds
    <3>2. at[i] # old
      BY <2>2, <3>1, FileIs
    <3> QED
      BY <1>2, <3>1, <3>2
  <2> QED
    BY <2>1, <2>2
<1>6. ASSUME NEW p \in DOMAIN u, u[p] # N!Dir
      PROVE  \E i \in DOMAIN b : u[p] = N!File(i) /\ b[i] = p
  <2>1. CASE p = new
    BY <1>2, <1>3, <1>4, <2>1
  <2>2. CASE p # new
    <3>1. p \in DOMAIN t /\ p # old /\ u[p] = t[p]
      BY <1>2, <2>2
    <3>2. PICK i \in DOMAIN at : t[p] = N!File(i) /\ at[i] = p
      BY <1>6, <3>1 DEF Holds
    <3>3. i # id
      BY <1>3, <1>4, <3>1, <3>2
    <3> QED
      BY <3>1, <3>2, <3>3
  <2> QED
    BY <2>1, <2>2
<1> QED
  BY <1>5, <1>6 DEF Holds, u

\* A file comes, to where no other is.
LEMMA AddedHolds ==
    ASSUME NEW at, Holds(ns, at), NEW p, NEW id, N!AddFile(p, id),
           p \in DOMAIN ns => ns[p] # N!Dir, \A i \in DOMAIN at : at[i] # p, id \notin DOMAIN at,
           NEW b, DOMAIN b = DOMAIN at \cup {id}, b[id] = p, \A i \in DOMAIN at : b[i] = at[i]
    PROVE  Holds(ns', b)
<1> DEFINE t == N!WithDirs(Parent(p))
           e == N!File(id)
<1>1. /\ DOMAIN ns' = DOMAIN t \cup {p}
      /\ \A q \in DOMAIN ns' : ns'[q] = IF q = p THEN e ELSE t[q]
  BY DEF N!AddFile, N!WithEntry, N!Parent, Parent
<1>2. SameFiles(ns, t)
  BY WithDirsSame
<1>3. Holds(t, at)
  BY <1>2, SameFilesHold
<1> HIDE DEF t
<1>4. ASSUME NEW i \in DOMAIN b PROVE b[i] \in DOMAIN ns' /\ ns'[b[i]] = N!File(i)
  <2>1. CASE i = id
    BY <1>1, <2>1
  <2>2. CASE i # id
    BY <1>1, <1>3, <2>2 DEF Holds
  <2> QED
    BY <2>1, <2>2
<1>5. ASSUME NEW q \in DOMAIN ns', ns'[q] # N!Dir
      PROVE  \E i \in DOMAIN b : ns'[q] = N!File(i) /\ b[i] = q
  <2>1. CASE q = p
    BY <1>1, <2>1
  <2>2. CASE q # p
    <3>1. q \in DOMAIN t /\ ns'[q] = t[q]
      BY <1>1, <2>2
    <3>2. PICK i \in DOMAIN at : t[q] = N!File(i) /\ at[i] = q
      BY <1>3, <1>5, <3>1 DEF Holds
    <3> QED
      BY <3>1, <3>2
  <2> QED
    BY <2>1, <2>2
<1> QED
  BY <1>4, <1>5 DEF Holds

\* Nothing is below a path where nothing is.
LEMMA NothingBelow ==
    ASSUME NEW F, NEW D, Closed(F, D), EntriesIn(ns, F, D), Hierarchy(ns),
           NEW new \in PathSet, new \notin DOMAIN ns, NEW q \in DOMAIN ns
    PROVE  ~Under(q, new)
<1>1. SUFFICES ASSUME Under(q, new) PROVE FALSE
  OBVIOUS
<1>2. q \in PathSet
  BY DEF Closed, EntriesIn
<1>3. Len(q) \in Nat /\ Len(new) \in Nat /\ Len(new) <= Len(q) /\ Upto(q, Len(new)) = new
  BY <1>1, <1>2, LenProperties DEF PathSet, Under
<1>4. CASE Len(new) < Len(q)
  <2>1. Len(new) \in 0..Len(q) - 1
    BY <1>3, <1>4
  <2> QED
    BY <1>3, <2>1 DEF Hierarchy
<1>5. CASE Len(new) = Len(q)
  <2>1. \A i \in 1..Len(new) : q[i] = new[i]
    BY <1>1, <1>2, UnderMeans
  <2>2. q = new
    BY <1>2, <1>5, <2>1, SeqEqual DEF PathSet
  <2> QED
    BY <2>2
<1> QED
  BY <1>3, <1>4, <1>5

\* rename_directory moves the files as the statement of the database does.
LEMMA MovedHolds ==
    ASSUME PlainMoves, NEW F, NEW D, Closed(F, D), EntriesIn(ns, F, D), Hierarchy(ns),
           NEW old \in MovePaths, NEW new \in MovePaths,
           N!IsDirectory(old), N!CanMove(old, new),
           NEW at, Holds(ns, at),
           NEW b, DOMAIN b = DOMAIN at, \A i \in DOMAIN at : b[i] = Rebased(at[i], old, new)
    PROVE  Holds(N!Moved(old, new), b)
<1> DEFINE B == {q \in DOMAIN ns : Under(q, old)}
           T == {N!Rebase(q, old, new) : q \in B}
           m == N!Moved(old, new)
<1>1. /\ DOMAIN m = (DOMAIN ns \ B) \cup T
      /\ \A q \in B : m[N!Rebase(q, old, new)] = ns[q] /\ Under(N!Rebase(q, old, new), new)
      /\ \A q \in (DOMAIN ns \ B) \ T : m[q] = ns[q]
  BY MovedIs
<1> HIDE DEF m
<1>2. \A q \in T : \E b1 \in B : q = N!Rebase(b1, old, new)
  OBVIOUS
<1>3. \A b1 \in B : N!Rebase(b1, old, new) \in T
  OBVIOUS
<1>4. \A q \in DOMAIN ns : q \in B <=> Under(q, old)
  OBVIOUS
<1>5. B \subseteq DOMAIN ns
  OBVIOUS
<1> HIDE DEF B, T
<1>6. ns[old] = N!Dir /\ new \notin DOMAIN ns /\ new \in PathSet
  BY DEF N!IsDirectory, N!CanMove, N!Exists, Closed
<1>7. T \cap DOMAIN ns = {}
  BY <1>1, <1>2, <1>6, NothingBelow
\* A file of the tree is rebased just if it is moved.
<1>8. ASSUME NEW q \in DOMAIN ns, ns[q] # N!Dir
      PROVE  /\ q \in B => Rebased(q, old, new) = N!Rebase(q, old, new)
             /\ q \notin B => Rebased(q, old, new) = q
  <2>1. q # old
    BY <1>6, <1>8
  <2> QED
    BY <1>4, <2>1, PlainlyRebased DEF BelowPath
<1>9. ASSUME NEW i \in DOMAIN b PROVE b[i] \in DOMAIN m /\ m[b[i]] = N!File(i)
  <2>1. at[i] \in DOMAIN ns /\ ns[at[i]] = N!File(i) /\ ns[at[i]] # N!Dir
    BY FileIs DEF Holds
  <2>2. CASE at[i] \in B
    BY <1>1, <1>3, <1>8, <2>1, <2>2
  <2>3. CASE at[i] \notin B
    BY <1>1, <1>7, <1>8, <2>1, <2>3
  <2> QED
    BY <2>2, <2>3
<1>10. ASSUME NEW p \in DOMAIN m, m[p] # N!Dir
       PROVE  \E i \in DOMAIN b : m[p] = N!File(i) /\ b[i] = p
  <2>1. CASE p \in T
    <3>1. PICK q \in B : p = N!Rebase(q, old, new)
      BY <1>2, <2>1
    <3>2. q \in DOMAIN ns /\ ns[q] = m[p] /\ ns[q] # N!Dir
      BY <1>1, <1>5, <1>10, <3>1
    <3>3. PICK i \in DOMAIN at : ns[q] = N!File(i) /\ at[i] = q
      BY <3>2 DEF Holds
    <3>4. b[i] = p
      BY <1>8, <3>1, <3>2, <3>3
    <3> QED
      BY <3>2, <3>3, <3>4
  <2>2. CASE p \notin T
    <3>1. p \in DOMAIN ns /\ p \notin B /\ ns[p] = m[p] /\ ns[p] # N!Dir
      BY <1>1, <1>10, <2>2
    <3>2. PICK i \in DOMAIN at : ns[p] = N!File(i) /\ at[i] = p
      BY <3>1 DEF Holds
    <3>3. b[i] = p
      BY <1>8, <3>1, <3>2
    <3> QED
      BY <3>1, <3>2, <3>3
  <2> QED
    BY <2>1, <2>2
<1> QED
  BY <1>9, <1>10 DEF Holds, m

----------------------------------------------------------------------------
(* The rows.                                                               *)

SameRows ==
    /\ DOMAIN rows' = DOMAIN rows
    /\ \A i \in DOMAIN rows : rows'[i].key = rows[i].key

\* What update_virtual_path does to the rows' paths.
LEMMA PathUpdated ==
    ASSUME NEW F, RowsIn(F), NEW id, NEW path, UpdateVirtualPath(id, path)
    PROVE  /\ SameRows
           /\ \A i \in DOMAIN rows : rows'[i].path = IF i = id THEN path ELSE rows[i].path
<1>1. DOMAIN rows' = DOMAIN rows
  BY DEF UpdateVirtualPath
<1>2. ASSUME NEW i \in DOMAIN rows
      PROVE  /\ rows'[i].key = rows[i].key
             /\ rows'[i].path = IF i = id THEN path ELSE rows[i].path
  <2>1. IsRow(rows[i])
    BY DEF RowsIn
  <2>2. CASE i = id
    <3>1. rows'[i] = [rows[i] EXCEPT !.path = path]
      BY <2>2 DEF UpdateVirtualPath
    <3>2. PICK s : s = [rows[i] EXCEPT !.path = path]
      OBVIOUS
    <3> QED
      BY <2>1, <2>2, <3>1, <3>2, RowMoved
  <2>3. CASE i # id
    BY <2>3 DEF UpdateVirtualPath
  <2> QED
    BY <2>2, <2>3
<1> QED
  BY <1>1, <1>2 DEF SameRows

\* mark_trashed and unmark_trashed leave paths alone.
LEMMA MarksUpdated ==
    ASSUME NEW F, RowsIn(F), NEW id, NEW original, NEW time,
           MarkTrashed(id, original, time) \/ UnmarkTrashed(id)
    PROVE  SameRows /\ \A i \in DOMAIN rows : rows'[i].path = rows[i].path
<1>1. DOMAIN rows' = DOMAIN rows
  BY DEF MarkTrashed, UnmarkTrashed
<1>2. ASSUME NEW i \in DOMAIN rows
      PROVE  rows'[i].key = rows[i].key /\ rows'[i].path = rows[i].path
  <2>1. IsRow(rows[i])
    BY DEF RowsIn
  <2>2. CASE i = id
    <3>1. PICK mark, from, at : rows'[i] = Marked(rows[i], mark, from, at)
      <4>1. CASE MarkTrashed(id, original, time)
        BY <2>2, <4>1 DEF MarkTrashed, Marked
      <4>2. CASE UnmarkTrashed(id)
        BY <2>2, <4>2 DEF UnmarkTrashed, Marked
      <4> QED
        BY <4>1, <4>2
    <3>2. PICK r : r = rows[i]
      OBVIOUS
    <3>3. Marked(r, mark, from, at).key = r.key /\ Marked(r, mark, from, at).path = r.path
      BY <2>1, <3>2, RowMarked
    <3> QED
      BY <3>1, <3>2, <3>3
  <2>3. CASE i # id
    BY <2>3 DEF MarkTrashed, UnmarkTrashed
  <2> QED
    BY <2>2, <2>3
<1> QED
  BY <1>1, <1>2 DEF SameRows

LEMMA RenameUpdated ==
    ASSUME NEW F, RowsIn(F), NEW old, NEW new, RenameRows(old, new)
    PROVE  /\ SameRows
           /\ \A i \in DOMAIN rows : rows'[i].path = Rebased(rows[i].path, old, new)
<1>1. /\ DOMAIN rows' = DOMAIN rows
      /\ \A i \in DOMAIN rows :
           rows'[i] = [rows[i] EXCEPT !.path = Rebased(rows[i].path, old, new)]
  BY DEF RenameRows
<1>2. ASSUME NEW i \in DOMAIN rows
      PROVE  /\ rows'[i].key = rows[i].key
             /\ rows'[i].path = Rebased(rows[i].path, old, new)
  <2>1. IsRow(rows[i])
    BY DEF RowsIn
  <2>2. PICK path : path = Rebased(rows[i].path, old, new)
    OBVIOUS
  <2>3. PICK s : s = [rows[i] EXCEPT !.path = path]
    OBVIOUS
  <2> QED
    BY <1>1, <2>1, <2>2, <2>3, RowMoved
<1> QED
  BY <1>1, <1>2 DEF SameRows

----------------------------------------------------------------------------
(* The steps of a mounted library.                                         *)

PathNow(i) == IF fuse.pc = "path" /\ fuse.id = i THEN fuse.new ELSE rows[i].path

LEMMA AtMounted ==
    ASSUME mode = "up"
    PROVE  /\ DOMAIN At = DOMAIN rows
           /\ \A i \in DOMAIN rows : At[i] = PathNow(i)
BY DEF At, Come, Missing, PathNow

\* The rows stay those of the files of the origin, and each file of the tree
\* is where its row says: then a remount finds what is there.
LEMMA KeptUp ==
    ASSUME Kept, mode = "up", mode' = "up", SameRows, served' = served, RequestOK',
           NEW b, DOMAIN b = DOMAIN rows, \A i \in DOMAIN rows : b[i] = PathNow(i)',
           Holds(ns', b), fuse'.pc # "path" \/ rows' = rows
    PROVE  Kept'
<1>1. /\ Come = DOMAIN rows /\ Come' = DOMAIN rows /\ Missing = {} /\ Missing' = {}
  BY DEF Come, Missing, SameRows
<1>2. /\ DOMAIN rows' = DOMAIN rows /\ \A i \in DOMAIN rows : rows'[i].key = rows[i].key
  BY DEF SameRows
<1>3. /\ RowsApart /\ RowsOfOrigin
      /\ \A i \in Come : i \in DOMAIN served /\ served[i] = rows[i].key.file
      /\ \A f \in Present \ Missing : HasRow(Key(f, TRUE))
  BY DEF Kept
<1>4. RowsApart'
  <2>1. CASE rows' = rows
    BY <1>3, <2>1 DEF RowsApart
  <2>2. CASE fuse'.pc # "path"
    <3>1. \A i \in DOMAIN rows : b[i] = rows'[i].path
      BY <2>2 DEF PathNow
    <3>2. \A i \in DOMAIN rows : (ns')[b[i]] = N!File(i)
      BY DEF Holds
    <3>3. \A i, j \in DOMAIN rows : b[i] = b[j] => i = j
      BY <3>2, FileIs
    <3> QED
      BY <1>2, <1>3, <3>1, <3>3 DEF RowsApart
  <2> QED
    BY <2>1, <2>2
<1>5. RowsOfOrigin'
  BY <1>2, <1>3 DEF RowsOfOrigin
<1>6. Numbered'
  BY DEF Numbered
<1>7. Holds(ns', At')
  <2>1. PICK c : c = At'
    OBVIOUS
  <2>2. DOMAIN c = DOMAIN rows /\ \A i \in DOMAIN rows : c[i] = PathNow(i)'
    BY <1>1, <2>1 DEF At, PathNow
  <2>3. Holds(ns', c)
    BY <2>2, SamePlaces
  <2> QED
    BY <2>1, <2>3
<1>8. \A i \in Come' : i \in DOMAIN served' /\ served'[i] = rows'[i].key.file
  BY <1>1, <1>2, <1>3
<1>9. \A f \in Present \ Missing' : HasRow(Key(f, TRUE))'
  BY <1>1, <1>2, <1>3 DEF HasRow
<1> QED
  BY <1>4, <1>5, <1>6, <1>7, <1>8, <1>9 DEF Kept

\* A step that leaves the files of the tree and the paths of the rows alone.
LEMMA KeptQuietly ==
    ASSUME Kept, mode = "up", mode' = "up", SameRows, served' = served, RequestOK',
           \A i \in DOMAIN rows : PathNow(i)' = PathNow(i),
           SameFiles(ns, ns'), fuse'.pc # "path" \/ rows' = rows
    PROVE  Kept'
<1>1. PICK b : b = At
  OBVIOUS
<1>2. /\ DOMAIN b = DOMAIN rows /\ \A i \in DOMAIN rows : b[i] = PathNow(i)'
      /\ Holds(ns, b)
  BY <1>1, AtMounted DEF Kept
<1>3. Holds(ns', b)
  BY <1>2, SameFilesHold
<1> QED
  BY <1>2, <1>3, KeptUp

LEMMA SameFilesSelf == ASSUME UNCHANGED ns PROVE SameFiles(ns, ns')
BY DEF SameFiles

LEMMA SameRowsSelf == ASSUME UNCHANGED rows PROVE SameRows
BY DEF SameRows

\* The file a request is about is the one it looked up.
LEMMA KeptDirectories ==
    ASSUME Undisturbed, NEW F, NEW D, Closed(F, D), Shape(F, D), Hierarchy(ns), F \cap D = {},
           Restful, Kept, mode = "up",
           \/ \E p \in DirPaths : Mkdir(p) \/ Rmdir(p)
           \/ \E old, new \in MovePaths : RenameDir(old, new)
           \/ RmdirDb \/ RenameDirDb
    PROVE  Kept'
<1>1. EntriesIn(ns, F, D) /\ RowsIn(F) /\ "db_error" \notin Events
  BY DEF Shape, Undisturbed
<1>2. RequestOK /\ Holds(ns, At)
  BY DEF Kept
<1>3. ASSUME NEW p \in DirPaths, Mkdir(p) PROVE Kept'
  <2>1. UNCHANGED <<rows, fuse, mode, served>> /\ N!MakeDir(p)
    BY <1>1, <1>3 DEF Mkdir, Try, tables, FuseOnly
  <2>2. fuse.pc = "idle"
    BY <1>3 DEF Mkdir, Request, Idle
  <2>3. RequestOK'
    BY <2>1, <2>2 DEF RequestOK
  <2>4. SameFiles(ns, ns') /\ SameRows
    BY <2>1, MakeDirSame, SameRowsSelf
  <2>5. \A i \in DOMAIN rows : PathNow(i)' = PathNow(i)
    BY <2>1 DEF PathNow
  <2> QED
    BY <2>1, <2>3, <2>4, <2>5, KeptQuietly
<1>4. ASSUME NEW p \in DirPaths, Rmdir(p) PROVE Kept'
  <2>1. UNCHANGED <<rows, mode, served>> /\ N!DeleteDir(p)
    BY <1>4 DEF Rmdir, tables, FuseOnly
  <2>2. fuse.pc = "idle" /\ fuse'.pc = "rmdir"
    BY <1>4 DEF Rmdir, Request, Idle
  <2>3. RequestOK'
    BY <2>2 DEF RequestOK
  <2>4. SameFiles(ns, ns') /\ SameRows
    BY <2>1, DeleteDirSame, SameRowsSelf
  <2>5. \A i \in DOMAIN rows : PathNow(i)' = PathNow(i)
    BY <2>1, <2>2 DEF PathNow
  <2> QED
    BY <2>1, <2>2, <2>3, <2>4, <2>5, KeptQuietly
<1>5. ASSUME NEW old \in MovePaths, NEW new \in MovePaths, RenameDir(old, new) PROVE Kept'
  <2>1. /\ UNCHANGED <<mode, served>> /\ RenameRows(old, new)
        /\ N!IsDirectory(old) /\ N!CanMove(old, new) /\ ns' = N!Moved(old, new)
    BY <1>1, <1>5 DEF RenameDir, N!MoveDir, Try, FuseOnly
  <2>2. fuse.pc = "idle" /\ fuse'.pc = "directories"
    BY <1>5 DEF RenameDir, Request, Idle
  <2>3. RequestOK'
    BY <2>2 DEF RequestOK
  <2>4. SameRows /\ \A i \in DOMAIN rows : rows'[i].path = Rebased(rows[i].path, old, new)
    BY <1>1, <2>1, RenameUpdated
  <2>5. PICK at : at = At
    OBVIOUS
  <2>6. DOMAIN at = DOMAIN rows /\ \A i \in DOMAIN rows : at[i] = rows[i].path
    BY <2>2, <2>5, AtMounted DEF PathNow
  <2>7. PICK b : b = [i \in DOMAIN rows |-> rows'[i].path]
    OBVIOUS
  <2>8. /\ DOMAIN b = DOMAIN rows
        /\ \A i \in DOMAIN rows : b[i] = PathNow(i)' /\ b[i] = Rebased(at[i], old, new)
    BY <2>2, <2>4, <2>6, <2>7 DEF PathNow
  <2>9. Holds(ns, at)
    BY <1>2, <2>5
  <2>10. Holds(N!Moved(old, new), b)
    BY <1>1, <2>1, <2>6, <2>8, <2>9, MovedHolds DEF Undisturbed
  <2> QED
    BY <2>1, <2>2, <2>3, <2>4, <2>8, <2>10, KeptUp
<1>6. CASE RmdirDb
  <2>1. UNCHANGED <<rows, ns, mode, served>> /\ fuse' = Idle /\ fuse.pc = "rmdir"
    BY <1>1, <1>6 DEF RmdirDb, Try, tables, FuseOnly
  <2>2. fuse'.pc = "idle"
    BY <2>1 DEF Idle
  <2>3. RequestOK'
    BY <2>2 DEF RequestOK
  <2>4. \A i \in DOMAIN rows : PathNow(i)' = PathNow(i)
    BY <2>1, <2>2 DEF PathNow
  <2> QED
    BY <2>1, <2>2, <2>3, <2>4, KeptQuietly, SameFilesSelf, SameRowsSelf
<1>7. CASE RenameDirDb
  <2>1. UNCHANGED <<rows, ns, mode, served>> /\ fuse' = Idle /\ fuse.pc = "directories"
    BY <1>1, <1>7 DEF RenameDirDb, Try, tables, FuseOnly
  <2>2. fuse'.pc = "idle"
    BY <2>1 DEF Idle
  <2>3. RequestOK'
    BY <2>2 DEF RequestOK
  <2>4. \A i \in DOMAIN rows : PathNow(i)' = PathNow(i)
    BY <2>1, <2>2 DEF PathNow
  <2> QED
    BY <2>1, <2>2, <2>3, <2>4, KeptQuietly, SameFilesSelf, SameRowsSelf
<1> QED
  BY <1>3, <1>4, <1>5, <1>6, <1>7

LEMMA FuseGoesOn ==
    ASSUME NEW F, FuseIn(F), fuse.pc \in {"unlink", "path", "mark", "rename", "unmark"},
           NEW pc, fuse' = [fuse EXCEPT !.pc = pc]
    PROVE  fuse'.pc = pc /\ fuse'.id = fuse.id /\ fuse'.old = fuse.old /\ fuse'.new = fuse.new
<1>1. fuse = [pc |-> fuse.pc, id |-> fuse.id, old |-> fuse.old, new |-> fuse.new]
  BY DEF FuseIn
<1>2. PICK k, i, o, n : fuse = [pc |-> k, id |-> i, old |-> o, new |-> n]
  BY <1>1
<1>3. fuse' = [pc |-> pc, id |-> i, old |-> o, new |-> n]
  BY <1>2
<1> QED
  BY <1>2, <1>3

\* unlink and the rename of a file change the tree under the write lock, then
\* the path of the row, with the id they looked up before.
LEMMA KeptFiles ==
    ASSUME Undisturbed, NEW F, NEW D, Closed(F, D), Shape(F, D),
           Restful, Kept, mode = "up",
           \/ \E p \in FilePaths : Unlink(p)
           \/ \E old, new \in FilePaths : ReadId("rename", old, new)
           \/ UnlinkTree \/ UnlinkPath \/ UnlinkMark \/ RenameFile \/ RenameUnmark
    PROVE  Kept'
<1>1. RowsIn(F) /\ FuseIn(F) /\ "db_error" \notin Events
  BY DEF Shape, Undisturbed
<1>2. PICK at : at = At
  OBVIOUS
<1>3. /\ DOMAIN at = DOMAIN rows /\ \A i \in DOMAIN rows : at[i] = PathNow(i)
      /\ Holds(ns, at)
  BY <1>2, AtMounted DEF Kept
<1>4. fuse.pc \in {"unlink", "rename"} =>
         /\ ns[fuse.old] = N!File(fuse.id) /\ fuse.old \in DOMAIN ns /\ fuse.id \in DOMAIN rows
  <2> SUFFICES ASSUME fuse.pc \in {"unlink", "rename"}
               PROVE  ns[fuse.old] = N!File(fuse.id) /\ fuse.old \in DOMAIN ns /\ fuse.id \in DOMAIN rows
    OBVIOUS
  <2>1. ns[fuse.old] = N!File(fuse.id) /\ fuse.old \in DOMAIN ns
    BY DEF Kept, RequestOK
  <2>2. PICK i \in DOMAIN at : ns[fuse.old] = N!File(i)
    BY <1>3, <2>1, FileIs DEF Holds
  <2> QED
    BY <1>3, <2>1, <2>2, FileIs
<1>5. ASSUME NEW pc \in {"unlink", "rename"}, NEW old, NEW new, ReadId(pc, old, new) PROVE Kept'
  <2>1. /\ UNCHANGED <<rows, ns, mode, served>> /\ N!IsFile(old)
        /\ fuse' = [pc |-> pc, id |-> ns[old].id, old |-> old, new |-> new]
    BY <1>5 DEF ReadId, tables, FuseOnly
  <2>2. fuse.pc = "idle"
    BY <1>5 DEF ReadId, Request, Idle
  <2>3. fuse'.pc = pc /\ fuse'.id = ns[old].id /\ fuse'.old = old
    BY <2>1
  <2>4. RequestOK'
    <3>1. old \in DOMAIN ns /\ ns[old] # N!Dir
      BY <2>1 DEF N!IsFile, N!Exists
    <3>2. PICK i \in DOMAIN at : ns[old] = N!File(i)
      BY <1>3, <3>1 DEF Holds
    <3>3. ns[old] = N!File(ns[old].id)
      BY <3>2, FileIs
    <3> QED
      BY <2>1, <2>3, <3>1, <3>3 DEF RequestOK
  <2>5. \A i \in DOMAIN rows : PathNow(i)' = PathNow(i)
    BY <2>1, <2>2, <2>3 DEF PathNow
  <2> QED
    BY <2>1, <2>4, <2>5, KeptQuietly, SameFilesSelf, SameRowsSelf
<1>6. CASE UnlinkTree /\ Relocates(fuse.old, fuse.new) /\ fuse' = [fuse EXCEPT !.pc = "path"]
  <2>1. UNCHANGED <<rows, mode, served>> /\ fuse.pc = "unlink"
    BY <1>6 DEF UnlinkTree, tables, FuseOnly
  <2>2. fuse'.pc = "path" /\ fuse'.id = fuse.id /\ fuse'.new = fuse.new
    <3>1. PICK pc : pc = "path"
      OBVIOUS
    <3> QED
      BY <1>1, <1>6, <2>1, <3>1, FuseGoesOn
  <2>3. RequestOK'
    BY <1>4, <2>1, <2>2 DEF RequestOK
  <2>4. PICK t : t = N!WithDirs(Parent(fuse.new))
    OBVIOUS
  <2>5. SameFiles(ns, t) /\ CanRename(t, fuse.old, fuse.new) /\ ns' = RenamedFile(t, fuse.old, fuse.new)
    BY <1>6, <2>4, WithDirsSame DEF Relocates
  <2>6. t[fuse.old] = N!File(fuse.id) /\ Holds(t, at)
    BY <1>3, <1>4, <2>1, <2>5, SameFilesHold, FileIs DEF SameFiles
  <2>7. PICK b : b = [i \in DOMAIN rows |-> IF i = fuse.id THEN fuse.new ELSE rows[i].path]
    OBVIOUS
  <2>8. /\ DOMAIN b = DOMAIN rows
        /\ \A i \in DOMAIN rows : b[i] = PathNow(i)' /\ b[i] = IF i = fuse.id THEN fuse.new ELSE at[i]
    BY <1>3, <2>1, <2>2, <2>7 DEF PathNow
  <2>9. Holds(ns', b)
    BY <1>3, <2>5, <2>6, <2>8, RenamedHolds
  <2> QED
    BY <2>1, <2>3, <2>8, <2>9, KeptUp, SameRowsSelf
<1>7. CASE UnlinkTree /\ RelocationFails(fuse.old, fuse.new) /\ fuse' = Idle
  <2>1. UNCHANGED <<rows, mode, served>> /\ fuse.pc = "unlink" /\ fuse'.pc = "idle"
    BY <1>7 DEF UnlinkTree, tables, FuseOnly, Idle
  <2>2. RequestOK'
    BY <2>1 DEF RequestOK
  <2>3. SameFiles(ns, ns')
    BY <1>7, WithDirsSame DEF RelocationFails
  <2>4. \A i \in DOMAIN rows : PathNow(i)' = PathNow(i)
    BY <2>1 DEF PathNow
  <2> QED
    BY <2>1, <2>2, <2>3, <2>4, KeptQuietly, SameRowsSelf
<1>8. CASE UnlinkPath
  <2>1. UNCHANGED <<ns, mode, served>> /\ fuse.pc = "path" /\ UpdateVirtualPath(fuse.id, fuse.new)
    BY <1>1, <1>8 DEF UnlinkPath, Try, FuseOnly
  <2>2. fuse'.pc = "mark"
    <3>1. PICK pc : pc = "mark"
      OBVIOUS
    <3> QED
      BY <1>1, <1>8, <2>1, <3>1, FuseGoesOn DEF UnlinkPath
  <2>3. RequestOK'
    BY <2>2 DEF RequestOK
  <2>4. /\ SameRows
        /\ \A i \in DOMAIN rows : rows'[i].path = IF i = fuse.id THEN fuse.new ELSE rows[i].path
    BY <1>1, <2>1, PathUpdated
  <2>5. \A i \in DOMAIN rows : PathNow(i)' = PathNow(i)
    BY <2>1, <2>2, <2>4 DEF PathNow
  <2> QED
    BY <2>1, <2>2, <2>3, <2>4, <2>5, KeptQuietly, SameFilesSelf
<1>9. CASE UnlinkMark \/ RenameUnmark
  <2>1. /\ UNCHANGED <<ns, mode, served>> /\ fuse.pc \in {"mark", "unmark"} /\ fuse'.pc = "idle"
        /\ MarkTrashed(fuse.id, fuse.old, now) \/ UnmarkTrashed(fuse.id)
    BY <1>1, <1>9 DEF UnlinkMark, RenameUnmark, Try, FuseOnly, Idle
  <2>2. RequestOK'
    BY <2>1 DEF RequestOK
  <2>3. SameRows /\ \A i \in DOMAIN rows : rows'[i].path = rows[i].path
    BY <1>1, <2>1, MarksUpdated
  <2>4. \A i \in DOMAIN rows : PathNow(i)' = PathNow(i)
    BY <2>1, <2>3 DEF PathNow
  <2> QED
    BY <2>1, <2>2, <2>3, <2>4, KeptQuietly, SameFilesSelf
<1>10. CASE RenameFile /\ CanRename(ns, fuse.old, fuse.new)
  <2>1. /\ UNCHANGED <<mode, served>> /\ fuse.pc = "rename"
        /\ UpdateVirtualPath(fuse.id, fuse.new) /\ ns' = RenamedFile(ns, fuse.old, fuse.new)
        /\ fuse' = [fuse EXCEPT !.pc = "unmark"] \/ fuse' = Idle
    BY <1>1, <1>10 DEF RenameFile, Try, FuseOnly
  <2>2. fuse'.pc \in {"unmark", "idle"}
    <3>1. PICK pc : pc = "unmark"
      OBVIOUS
    <3> QED
      BY <1>1, <2>1, <3>1, FuseGoesOn DEF Idle
  <2>3. RequestOK'
    BY <2>2 DEF RequestOK
  <2>4. /\ SameRows
        /\ \A i \in DOMAIN rows : rows'[i].path = IF i = fuse.id THEN fuse.new ELSE rows[i].path
    BY <1>1, <2>1, PathUpdated
  <2>5. PICK b : b = [i \in DOMAIN rows |-> rows'[i].path]
    OBVIOUS
  <2>6. /\ DOMAIN b = DOMAIN rows
        /\ \A i \in DOMAIN rows : b[i] = PathNow(i)' /\ b[i] = IF i = fuse.id THEN fuse.new ELSE at[i]
    BY <1>3, <2>1, <2>2, <2>4, <2>5 DEF PathNow
  <2>7. Holds(ns', b)
    BY <1>3, <1>4, <1>10, <2>1, <2>6, RenamedHolds
  <2> QED
    BY <2>1, <2>2, <2>3, <2>4, <2>6, <2>7, KeptUp
<1>11. CASE RenameFile /\ ~CanRename(ns, fuse.old, fuse.new)
  <2>1. UNCHANGED <<ns, rows, mode, served>> /\ fuse.pc = "rename" /\ fuse'.pc = "idle"
    BY <1>11 DEF RenameFile, tables, FuseOnly, Idle
  <2>2. RequestOK'
    BY <2>1 DEF RequestOK
  <2>3. \A i \in DOMAIN rows : PathNow(i)' = PathNow(i)
    BY <2>1 DEF PathNow
  <2> QED
    BY <2>1, <2>2, <2>3, KeptQuietly, SameFilesSelf, SameRowsSelf
<1> QED
  BY <1>5, <1>6, <1>7, <1>8, <1>9, <1>10, <1>11 DEF Unlink, UnlinkTree

----------------------------------------------------------------------------
(* The steps of a mount.                                                   *)

\* The scan comes to a file that has its row: the upsert returns the row's id
\* as the connection has inserted nothing.
LEMMA KeptScanKnown ==
    ASSUME Undisturbed, NEW F, NEW D, Closed(F, D), Shape(F, D), Hierarchy(ns), F \cap D = {},
           Dense, Restful, Kept, NEW f \in Files, ScanFile(f), HasRow(Key(f, TRUE))
    PROVE  Kept'
<1> DEFINE key == Key(f, TRUE)
           path == StoredPath(key, Derived[f])
           id == RowId(key)
<1>1. /\ mode = "starting" /\ mode' = "starting" /\ f \in todo /\ todo' = todo \ {f}
      /\ Upsert(key, path) /\ last_rowid' = LastRowId(key, last_rowid)
      /\ Place(f, UpsertedId(key, last_rowid), path) /\ fuse' = fuse
  BY DEF ScanFile, Undisturbed
<1>2. key.file = f /\ \A g : Key(g, TRUE) = key => g = f
  <2>1. key.file = f
    BY DEF Key
  <2>2. \A g : Key(g, TRUE).file = g
    BY DEF Key
  <2>3. ASSUME NEW g, Key(g, TRUE) = key PROVE g = f
    <3>1. Key(g, TRUE).file = key.file
      BY <2>3
    <3> HIDE DEF key
    <3> QED
      BY <2>1, <2>2, <3>1
  <2> QED
    BY <2>1, <2>3
<1>3. /\ RowsApart /\ RowsOfOrigin /\ Numbered /\ Holds(ns, At)
      /\ \A i \in Come : i \in DOMAIN served /\ served[i] = rows[i].key.file
      /\ \A g \in Present \ Missing : HasRow(Key(g, TRUE))
  BY DEF Kept
<1>4. f \in Present /\ fuse.pc = "idle" /\ Missing = todo /\ Missing' = todo \ {f}
  BY <1>1 DEF Restful, Missing, Idle
<1>5. last_rowid = 0 /\ \A g \in Present : HasRow(Key(g, TRUE))
  BY <1>1, <1>3, <1>4 DEF Numbered
<1>6. id \in DOMAIN rows /\ rows[id].key = key /\ path = rows[id].path
  BY RowIdIs DEF StoredPath
<1>7. DOMAIN rows' = DOMAIN rows /\ \A i \in DOMAIN rows : rows'[i] = rows[i]
  <2>1. DOMAIN rows' = DOMAIN rows
    BY <1>1 DEF Upsert
  <2>2. RowsIn(F)
    BY DEF Shape
  <2> QED
    BY <2>1, <2>2, ScanWritesBack
<1>8. UpsertedId(key, last_rowid) = id /\ last_rowid' = 0
  BY <1>1, <1>5 DEF UpsertedId, LastRowId
<1>9. N!AddFile(path, id) /\ served' = Insert(served, id, f)
  BY <1>1, <1>8 DEF Place
<1> HIDE DEF key, path, id
<1>10. id \notin Come /\ Come' = Come \cup {id}
  <2>1. id \notin Come
    BY <1>1, <1>2, <1>4, <1>6 DEF Come
  <2>2. ASSUME NEW i \in DOMAIN rows PROVE rows[i].key.file \notin Missing' <=> i \in Come \cup {id}
    <3>1. CASE i = id
      BY <1>2, <1>4, <1>6, <3>1
    <3>2. CASE i # id
      <4>1. PICK g \in Present : rows[i].key = Key(g, TRUE)
        BY <1>3 DEF RowsOfOrigin
      <4>2. rows[i].key # key
        BY <1>3, <1>6, <3>2 DEF RowsApart
      <4>3. rows[i].key.file = g
        BY <4>1 DEF Key
      <4>4. g # f
        BY <4>1, <4>2 DEF key
      <4> QED
        BY <1>4, <3>2, <4>3, <4>4 DEF Come
    <3> QED
      BY <3>1, <3>2
  <2> QED
    BY <1>6, <1>7, <2>1, <2>2 DEF Come
<1>11. RowsApart' /\ RowsOfOrigin'
  BY <1>3, <1>7 DEF RowsApart, RowsOfOrigin
<1>12. Numbered'
  BY <1>5, <1>7, <1>8 DEF Numbered, HasRow
<1>13. RequestOK'
  BY <1>1, <1>4 DEF RequestOK
<1>14. Holds(ns', At')
  <2>1. PICK at, b : at = At /\ b = At'
    OBVIOUS
  <2>2. /\ DOMAIN at = Come /\ \A i \in Come : at[i] = rows[i].path
        /\ DOMAIN b = Come' /\ \A i \in Come' : b[i] = rows'[i].path
    BY <1>1, <1>4, <2>1 DEF At
  <2>3. Come \subseteq DOMAIN rows
    BY DEF Come
  <2>4. DOMAIN b = DOMAIN at \cup {id} /\ b[id] = path /\ \A i \in DOMAIN at : b[i] = at[i]
    BY <1>6, <1>7, <1>10, <2>2, <2>3
  <2>5. \A i \in DOMAIN at : at[i] # path
    BY <1>3, <1>6, <1>10, <2>2, <2>3 DEF RowsApart
  <2>6. path \in DOMAIN ns => ns[path] # N!Dir
    <3>1. path \in F /\ EntriesIn(ns, F, D)
      BY <1>6 DEF Shape, RowsIn
    <3> QED
      BY <3>1 DEF EntriesIn
  <2>7. Holds(ns, at)
    BY <1>3, <2>1
  <2>8. Holds(ns', b)
    BY <1>9, <1>10, <2>2, <2>4, <2>5, <2>6, <2>7, AddedHolds
  <2> QED
    BY <2>1, <2>8
<1>15. \A i \in Come' : i \in DOMAIN served' /\ served'[i] = rows'[i].key.file
  <2>1. Come \subseteq DOMAIN rows
    BY DEF Come
  <2> QED
    BY <1>2, <1>3, <1>6, <1>7, <1>9, <1>10, <2>1 DEF Insert
<1>16. \A g \in Present \ Missing' : HasRow(Key(g, TRUE))'
  BY <1>5, <1>7 DEF HasRow
<1> QED
  BY <1>11, <1>12, <1>13, <1>14, <1>15, <1>16 DEF Kept

\* The scan comes to a file without a row: no row says its path, and the
\* upsert returns the id it has inserted.
LEMMA KeptScanNew ==
    ASSUME Undisturbed, NEW F, NEW D, Closed(F, D), Shape(F, D), Hierarchy(ns), F \cap D = {},
           Dense, Restful, Kept, NEW f \in Files, ScanFile(f), ~HasRow(Key(f, TRUE))
    PROVE  Kept'
<1> DEFINE key == Key(f, TRUE)
           path == Derived[f]
           id == NextId
           row == NewRow(key, path)
<1>1. /\ mode = "starting" /\ mode' = "starting" /\ f \in todo /\ todo' = todo \ {f}
      /\ Upsert(key, path) /\ last_rowid' = id
      /\ Place(f, UpsertedId(key, last_rowid), path) /\ fuse' = fuse
  BY DEF ScanFile, Undisturbed, StoredPath, LastRowId
<1>2. key.file = f /\ \A g : Key(g, TRUE).file = g
  BY DEF Key
<1>3. /\ RowsApart /\ RowsOfOrigin /\ Numbered /\ Holds(ns, At)
      /\ \A i \in Come : i \in DOMAIN served /\ served[i] = rows[i].key.file
      /\ \A g \in Present \ Missing : HasRow(Key(g, TRUE))
  BY DEF Kept
<1>4. f \in Present /\ fuse.pc = "idle" /\ Missing = todo /\ Missing' = todo \ {f}
  BY <1>1 DEF Restful, Missing, Idle
<1>5. /\ \A g \in Missing : ~HasRow(Key(g, TRUE))
      /\ \A i \in DOMAIN rows : rows[i].path = Derived[rows[i].key.file]
  BY <1>1, <1>3, <1>4 DEF Numbered
<1>6. id \notin DOMAIN rows /\ id # 0
  <2>1. PICK n \in 0..MaxId : DOMAIN rows = 1..n
    BY DEF Dense
  <2>2. id = n + 1 /\ n \in Nat
    BY <2>1, NextIdIs, DatabaseAssumption
  <2> QED
    BY <2>1, <2>2
<1>7. row.key = key /\ row.path = path
  BY DEF NewRow
<1>8. /\ DOMAIN rows' = DOMAIN rows \cup {id} /\ rows'[id] = row
      /\ \A i \in DOMAIN rows : rows'[i] = rows[i]
  <2>1. rows' = Insert(rows, id, row)
    BY <1>1 DEF Upsert
  <2> HIDE DEF id, row
  <2> QED
    BY <1>6, <2>1 DEF Insert
<1>9. N!AddFile(path, id) /\ served' = Insert(served, id, f)
  <2>1. UpsertedId(key, last_rowid) = id
    BY <1>6 DEF UpsertedId, LastRowId
  <2> QED
    BY <1>1, <2>1 DEF Place
<1> HIDE DEF path, id, row
<1>10. \A i \in DOMAIN rows : \E g \in Present : g # f /\ rows[i].key = Key(g, TRUE) /\ rows[i].key.file = g
  BY <1>2, <1>3 DEF RowsOfOrigin, HasRow
<1> HIDE DEF key
<1>11. id \notin Come /\ Come \subseteq DOMAIN rows /\ Come' = Come \cup {id}
  <2>1. id \notin Come /\ Come \subseteq DOMAIN rows
    BY <1>6 DEF Come
  <2>2. \A i \in DOMAIN rows : rows'[i].key.file \notin Missing' <=> i \in Come
    BY <1>4, <1>8, <1>10 DEF Come
  <2>3. rows'[id].key.file \notin Missing'
    BY <1>2, <1>4, <1>7, <1>8
  <2> QED
    BY <1>8, <2>1, <2>2, <2>3 DEF Come
<1>12. ASSUME NEW i \in DOMAIN rows PROVE rows[i].key # key /\ rows[i].path # path
  <2>1. PICK g \in Present : g # f /\ rows[i].key = Key(g, TRUE) /\ rows[i].key.file = g
    BY <1>10
  <2>2. rows[i].path = Derived[g]
    BY <1>5, <2>1
  <2> QED
    BY <1>2, <1>4, <2>1, <2>2 DEF Undisturbed, path
<1>13. RowsApart' /\ RowsOfOrigin'
  <2>1. RowsApart'
    BY <1>3, <1>7, <1>8, <1>12 DEF RowsApart
  <2>2. RowsOfOrigin'
    BY <1>3, <1>4, <1>7, <1>8 DEF RowsOfOrigin, key
  <2> QED
    BY <2>1, <2>2
<1>14. Numbered'
  <2>1. \A g \in Missing' : g \in Missing /\ g # f
    BY <1>4
  <2>2. \A g \in Missing' : key # Key(g, TRUE)
    BY <1>2, <2>1
  <2>3. \A g \in Missing' : ~HasRow(Key(g, TRUE))'
    BY <1>5, <1>7, <1>8, <2>1, <2>2 DEF HasRow
  <2>4. \A i \in DOMAIN rows' : rows'[i].path = Derived[rows'[i].key.file]
    BY <1>2, <1>5, <1>7, <1>8 DEF path
  <2> QED
    BY <2>3, <2>4 DEF Numbered
<1>15. RequestOK'
  BY <1>1, <1>4 DEF RequestOK
<1>16. Holds(ns', At')
  <2>1. PICK at, b : at = At /\ b = At'
    OBVIOUS
  <2>2. /\ DOMAIN at = Come /\ \A i \in Come : at[i] = rows[i].path
        /\ DOMAIN b = Come' /\ \A i \in Come' : b[i] = rows'[i].path
    BY <1>1, <1>4, <2>1 DEF At
  <2>3. DOMAIN b = DOMAIN at \cup {id} /\ b[id] = path /\ \A i \in DOMAIN at : b[i] = at[i]
    BY <1>7, <1>8, <1>11, <2>2
  <2>4. \A i \in DOMAIN at : at[i] # path
    BY <1>11, <1>12, <2>2
  <2>5. path \in DOMAIN ns => ns[path] # N!Dir
    <3>1. path \in F /\ EntriesIn(ns, F, D)
      BY DEF Shape, Closed, path
    <3> QED
      BY <3>1 DEF EntriesIn
  <2>6. Holds(ns, at)
    BY <1>3, <2>1
  <2>7. Holds(ns', b)
    BY <1>9, <1>11, <2>2, <2>3, <2>4, <2>5, <2>6, AddedHolds
  <2> QED
    BY <2>1, <2>7
<1>17. \A i \in Come' : i \in DOMAIN served' /\ served'[i] = rows'[i].key.file
  BY <1>2, <1>3, <1>7, <1>8, <1>9, <1>11 DEF Insert
<1>18. \A g \in Present \ Missing' : HasRow(Key(g, TRUE))'
  <2> SUFFICES ASSUME NEW g \in Present \ Missing' PROVE HasRow(Key(g, TRUE))'
    OBVIOUS
  <2>1. CASE g = f
    BY <1>7, <1>8, <2>1 DEF HasRow, key
  <2>2. CASE g # f
    BY <1>3, <1>4, <1>8, <2>2 DEF HasRow
  <2> QED
    BY <2>1, <2>2
<1> QED
  BY <1>13, <1>14, <1>15, <1>16, <1>17, <1>18 DEF Kept

\* The start of a daemon, the end of its scan, and its end or crash.
LEMMA KeptMount ==
    ASSUME Undisturbed, NEW F, NEW D, Closed(F, D), Shape(F, D), Hierarchy(ns), F \cap D = {},
           Dense, Restful, Kept,
           Start \/ (\E f \in Files : ScanFile(f)) \/ FinishStart \/ (mode = "up" /\ GoDown)
    PROVE  Kept'
<1>1. /\ RowsApart /\ RowsOfOrigin /\ Numbered /\ RequestOK /\ Holds(ns, At)
      /\ \A i \in Come : i \in DOMAIN served /\ served[i] = rows[i].key.file
      /\ \A f \in Present \ Missing : HasRow(Key(f, TRUE))
  BY DEF Kept
<1>2. CASE Start
  <2>1. /\ UNCHANGED <<ns, rows, served, last_rowid, fuse>> /\ mode = "down" /\ mode' = "starting"
        /\ todo' = Present
    BY <1>2 DEF Start, tables, Restful
  <2>2. Missing' = Missing
    BY <2>1 DEF Missing
  <2>3. Come' = Come /\ At' = At
    BY <2>1, <2>2 DEF Come, At
  <2>4. RowsApart' /\ RowsOfOrigin' /\ RequestOK'
    BY <1>1, <2>1 DEF RowsApart, RowsOfOrigin, RequestOK
  <2>5. Numbered'
    BY <1>1, <2>1, <2>2 DEF Numbered, HasRow
  <2> QED
    BY <1>1, <2>1, <2>2, <2>3, <2>4, <2>5 DEF Kept, HasRow
<1>3. CASE \E f \in Files : ScanFile(f)
  BY <1>3, KeptScanKnown, KeptScanNew
<1>4. CASE FinishStart
  <2>1. /\ UNCHANGED <<rows, served, fuse>> /\ mode = "starting" /\ todo = {} /\ mode' = "up"
        /\ ns' = [p \in DOMAIN ns \cup Restorable |-> IF N!Exists(p) THEN ns[p] ELSE N!Dir]
    BY <1>4 DEF FinishStart, tables
  <2>2. Missing = {} /\ Missing' = {}
    BY <2>1 DEF Missing
  <2>3. Come' = Come /\ At' = At
    BY <2>1, <2>2 DEF Come, At
  <2>4. SameFiles(ns, ns')
    BY <2>1 DEF SameFiles, N!Exists
  <2>5. Holds(ns', At)
    BY <1>1, <2>4, SameFilesHold
  <2>6. RowsApart' /\ RowsOfOrigin'
    BY <1>1, <2>1 DEF RowsApart, RowsOfOrigin
  <2>7. RequestOK'
    BY <2>1 DEF Restful, RequestOK, Idle
  <2>8. Numbered'
    BY <2>1 DEF Numbered
  <2> QED
    BY <1>1, <2>1, <2>2, <2>3, <2>5, <2>6, <2>7, <2>8 DEF Kept, HasRow
<1>5. CASE mode = "up" /\ GoDown
  <2>1. /\ UNCHANGED rows /\ mode' = "down" /\ ns' = EmptyTree /\ fuse'.pc = "idle" /\ last_rowid' = 0
    BY <1>5 DEF GoDown, tables, Idle
  <2>2. Missing = {} /\ Missing' = Present
    BY <1>5, <2>1 DEF Missing
  <2>3. Come' = {}
    <3>1. ASSUME NEW i \in DOMAIN rows PROVE rows[i].key.file \in Present
      <4>1. PICK f \in Present : rows[i].key = Key(f, TRUE)
        BY <1>1 DEF RowsOfOrigin
      <4>2. Key(f, TRUE).file = f
        BY DEF Key
      <4> QED
        BY <4>1, <4>2
    <3> QED
      BY <2>1, <2>2, <3>1 DEF Come
  <2>4. Holds(ns', At')
    <3>1. DOMAIN At' = {}
      BY <2>3 DEF At
    <3>2. \A p \in DOMAIN ns' : (ns')[p] = N!Dir
      BY <2>1 DEF EmptyTree
    <3> QED
      BY <3>1, <3>2 DEF Holds
  <2>5. RowsApart' /\ RowsOfOrigin' /\ RequestOK'
    BY <1>1, <2>1 DEF RowsApart, RowsOfOrigin, RequestOK
  <2>6. Numbered'
    BY <1>1, <2>1, <2>2 DEF Numbered, HasRow
  <2> QED
    BY <2>2, <2>3, <2>4, <2>5, <2>6 DEF Kept
<1> QED
  BY <1>2, <1>3, <1>4, <1>5

----------------------------------------------------------------------------
(* Every step.                                                             *)

\* Nothing else happens.
LEMMA CalmSteps ==
    ASSUME Undisturbed, Restful, Next
    PROVE  \/ Start \/ (\E f \in Files : ScanFile(f)) \/ FinishStart \/ (mode = "up" /\ GoDown)
           \/ (mode = "up" /\ Fuse)
           \/ CliRestore \/ Sighup \/ Tick
<1>1. /\ scan.pc = "idle" /\ restore.pc = "idle" /\ second.pc = "idle" /\ purge.pc = "idle"
      /\ mode # "up" => fuse.pc = "idle"
  BY DEF Restful, Idle
<1>2. \A e \in {"crash_in_scan", "db_error", "new_file", "rescan", "purge", "second_daemon"} :
         e \notin Events
  BY DEF Undisturbed
<1>3. /\ ~Rescan /\ ~RescanUpsert /\ ~RescanInsert /\ ~RescanRegister /\ ~RescanDone
      /\ ~RestoreTree /\ ~RestorePath /\ ~RestoreUnmark /\ ~RestoreDone
      /\ ~CliPurge /\ ~PurgeDelete /\ ~(\E f \in Files : SecondRead(f)) /\ ~SecondUpsert /\ ~NewFile
  BY <1>1, <1>2 DEF Rescan, RescanUpsert, RescanInsert, RescanRegister, RescanDone, RestoreTree,
     RestorePath, RestoreUnmark, RestoreDone, CliPurge, PurgeDelete, SecondRead, SecondUpsert, NewFile
<1>4. Unmount \/ Crash => mode = "up" /\ GoDown
  BY <1>2 DEF Unmount, Crash
<1>5. Fuse => mode = "up"
  BY <1>1 DEF Fuse, Mkdir, Rmdir, Unlink, ReadId, RenameDir, Request, RmdirDb, UnlinkTree,
     UnlinkPath, UnlinkMark, RenameFile, RenameUnmark, RenameDirDb
<1> QED
  BY <1>3, <1>4, <1>5 DEF Next

LEMMA RestfulNext ==
    ASSUME Undisturbed, Restful, [Next]_vars
    PROVE  Restful'
<1>1. \A e \in {"rescan", "purge", "second_daemon"} : e \notin Events
  BY DEF Undisturbed
<1>2. scan' = Idle
  BY <1>1, ScanStaysIdle DEF Restful
<1>3. second' = Idle /\ purge' = Idle
  BY <1>1, AloneNext DEF Restful, Alone
<1>4. mode' # "up" => fuse' = Idle
  BY PausedNext DEF Restful, Paused
<1>5. CASE UNCHANGED vars
  BY <1>5 DEF vars, memory, Restful
<1>6. CASE Start \/ (\E f \in Files : ScanFile(f)) \/ FinishStart
  <2>1. /\ UNCHANGED <<restore, sighup, origin>> /\ mode' \in {"starting", "up"}
        /\ todo' \subseteq todo \cup origin
    BY <1>6 DEF Start, ScanFile, FinishStart
  <2> QED
    BY <1>2, <1>3, <1>4, <2>1 DEF Restful
<1>7. CASE GoDown
  BY <1>2, <1>3, <1>4, <1>7 DEF Restful, GoDown
<1>8. CASE mode = "up" /\ Fuse
  <2>1. UNCHANGED <<mode, last_rowid, todo, restore, sighup, origin>>
    BY <1>8 DEF Fuse, Mkdir, Rmdir, Unlink, ReadId, RenameDir, RmdirDb, UnlinkTree,
       UnlinkPath, UnlinkMark, RenameFile, RenameUnmark, RenameDirDb, FuseOnly
  <2> QED
    BY <1>2, <1>3, <1>8, <2>1 DEF Restful
<1>9. CASE CliRestore
  BY <1>2, <1>3, <1>4, <1>9 DEF Restful, CliRestore, Undisturbed
<1>10. CASE Sighup
  BY <1>2, <1>3, <1>4, <1>10 DEF Restful, Sighup, RestoreOnly
<1>11. CASE Tick
  BY <1>11 DEF Restful, Tick, memory
<1> QED
  BY <1>5, <1>6, <1>7, <1>8, <1>9, <1>10, <1>11, CalmSteps

LEMMA KeptNext ==
    ASSUME Undisturbed, NEW F, NEW D, Closed(F, D), Shape(F, D), Hierarchy(ns), F \cap D = {},
           Dense, Restful, Kept, [Next]_vars
    PROVE  Kept'
<1>1. CASE UNCHANGED <<mode, ns, served, last_rowid, todo, fuse, rows>>
  <2>1. Missing' = Missing /\ Come' = Come /\ At' = At
    BY <1>1 DEF Missing, Come, At
  <2>2. RowsApart' /\ RowsOfOrigin' /\ RequestOK' /\ Numbered'
    BY <1>1, <2>1 DEF Kept, RowsApart, RowsOfOrigin, RequestOK, Numbered, HasRow
  <2> QED
    BY <1>1, <2>1, <2>2 DEF Kept, HasRow
<1>2. CASE UNCHANGED vars \/ CliRestore \/ Sighup \/ Tick
  BY <1>1, <1>2 DEF vars, memory, tables, CliRestore, Sighup, RestoreOnly, Tick
<1>3. CASE mode = "up" /\ Fuse
  BY <1>3, KeptDirectories, KeptFiles DEF Fuse
<1> QED
  BY <1>2, <1>3, CalmSteps, KeptMount

\* The inductive invariant of both theorems below.
Calm(F, D) == Shape(F, D) /\ Hierarchy(ns) /\ Dense /\ Restful /\ Kept

LEMMA CalmInit == ASSUME NEW F, NEW D, Closed(F, D), Init PROVE Calm(F, D)
<1>1. Shape(F, D) /\ Hierarchy(ns)
  BY ShapeInit, EmptyTreeIs DEF Init
<1>2. Dense
  <2>1. DOMAIN rows = 1..0 /\ 0 \in 0..MaxId
    BY DatabaseAssumption DEF Init, EmptyMap
  <2> QED
    BY <2>1 DEF Dense
<1>3. Restful
  BY DEF Init, Restful
<1>4. Kept
  <2>1. DOMAIN rows = {} /\ mode = "down" /\ last_rowid = 0 /\ fuse.pc = "idle" /\ ns = EmptyTree
    BY DEF Init, EmptyMap, Idle
  <2>2. Missing = Present /\ Come = {} /\ DOMAIN At = {}
    BY <2>1 DEF Missing, Come, At
  <2>3. RowsApart /\ RowsOfOrigin /\ Numbered /\ RequestOK
    BY <2>1 DEF RowsApart, RowsOfOrigin, Numbered, RequestOK, HasRow
  <2>4. Holds(ns, At)
    BY <2>1, <2>2 DEF Holds, EmptyTree
  <2> QED
    BY <2>2, <2>3, <2>4 DEF Kept
<1> QED
  BY <1>1, <1>2, <1>3, <1>4 DEF Calm

LEMMA CalmNext ==
    ASSUME Undisturbed, NEW F, NEW D, Closed(F, D), F \cap D = {}, Calm(F, D), [Next]_vars
    PROVE  Calm(F, D)'
<1>1. Alone /\ Shape(F, D) /\ Hierarchy(ns) /\ Dense /\ Restful /\ Kept
  BY DEF Calm, Alone, Restful
<1> QED
  BY <1>1, ShapeNext, HierarchyNext, DenseNext, RestfulNext, KeptNext DEF Calm

\* What a remount would rebuild is what is there, whatever has been moved,
\* renamed and trashed and wherever the daemon has crashed: every row's path
\* is the file with its id, and every file has a row.  That is when the names
\* of files are told from those of directories, those of the directories that
\* are renamed have no wide characters, the origin's files have tags that
\* differ, the database does not fail, and nothing but requests, mounts and
\* crashes of a mounted daemon changes the tables.
THEOREM FilesSurviveRemounts ==
    ASSUME NEW FileNames, NamesApart(FileNames), Undisturbed
    PROVE  Spec => []FilesSurvive
<1> DEFINE F == FilesAt(FileNames)  D == DirsAt(FileNames)
           Inv == Calm(F, D)
<1>1. Closed(F, D) /\ F \cap D = {}
  BY PathsApart DEF Undisturbed
<1> HIDE DEF F, D
<1>2. Init => Inv
  BY <1>1, CalmInit
<1>3. Inv /\ [Next]_vars => Inv'
  BY <1>1, CalmNext
<1>4. Inv => FilesSurvive
  <2> SUFFICES ASSUME Inv, Quiet PROVE FilesSurvive
    BY DEF FilesSurvive
  <2>1. mode = "up" /\ fuse.pc = "idle" /\ Kept
    BY DEF Quiet, Idle, Calm
  <2>2. PICK at : at = At
    OBVIOUS
  <2>3. /\ DOMAIN at = DOMAIN rows /\ \A i \in DOMAIN rows : at[i] = rows[i].path
        /\ Holds(ns, at)
    BY <2>1, <2>2, AtMounted DEF PathNow, Kept
  <2>4. \A i \in DOMAIN rows : i \in DOMAIN served /\ served[i] = rows[i].key.file
    BY <2>1 DEF Kept, Come, Missing
  <2>5. IdsIn(ns) = DOMAIN rows
    <3>1. ASSUME NEW i \in IdsIn(ns) PROVE i \in DOMAIN rows
      <4>1. PICK p \in DOMAIN ns : ns[p] # N!Dir /\ i = ns[p].id
        BY <3>1 DEF IdsIn
      <4>2. PICK j \in DOMAIN at : ns[p] = N!File(j)
        BY <2>3, <4>1 DEF Holds
      <4> QED
        BY <2>3, <4>1, <4>2, FileIs
    <3>2. ASSUME NEW i \in DOMAIN rows PROVE i \in IdsIn(ns)
      <4>1. at[i] \in DOMAIN ns /\ ns[at[i]] = N!File(i)
        BY <2>3 DEF Holds
      <4> QED
        BY <4>1, FileIs DEF IdsIn
    <3> QED
      BY <3>1, <3>2
  <2> QED
    BY <2>3, <2>4, <2>5 DEF FilesSurvive, Holds
<1> HIDE DEF Inv
<1> QED
  BY <1>2, <1>3, <1>4, PTL DEF Spec

----------------------------------------------------------------------------
(* The directories users make.                                             *)

\* The directories of requests are never implied by files, nor moved, nor in
\* the trash.
DirsApart ==
    \A p \in DirPaths :
      /\ \A k \in 1..Len(p) : Upto(p, k) \in DirPaths
      /\ ~Under(p, TrashPath)
      /\ \A m \in MovePaths : ~Under(p, m)
      /\ \A f \in Files : ~Under(Derived[f], p)

\* Those that the tree has, and those that the rows' paths imply, are in the
\* table: a mount finds no other directory it could make them from.
Recorded ==
    /\ directories \subseteq DirPaths
    /\ \A p \in DirPaths : p \in DOMAIN ns => p \in directories
    /\ \A i \in DOMAIN rows : \A k \in 1..Len(rows[i].path) - 1 :
         Upto(rows[i].path, k) \in DirPaths => Upto(rows[i].path, k) \in directories

\* What was made is in the table with all that is above it, and in the tree,
\* but while rmdir has taken it from the tree and not yet from the table.
Promised ==
    /\ made \subseteq directories
    /\ \A p \in made : \A k \in 1..Len(p) : Upto(p, k) \in directories
    /\ mode = "up" => \A p \in made : N!IsDirectory(p) \/ (fuse.pc = "rmdir" /\ fuse.old = p)
    /\ fuse.pc = "rmdir" =>
         /\ fuse.old \notin DOMAIN ns
         /\ \A p \in made : Under(p, fuse.old) => p = fuse.old
    /\ fuse.pc \in {"unlink", "path"} => Under(fuse.new, TrashPath)

LEMMA OwnDir ==
    ASSUME NEW F, NEW D, Closed(F, D), DirsApart, NEW p \in DirPaths
    PROVE  /\ p \in PathSet /\ p \in D /\ p # Root /\ Len(p) \in Nat \ {0} /\ Upto(p, Len(p)) = p
           /\ \A k \in 1..Len(p) : Upto(p, k) \in DirPaths
<1>1. p \in PathSet /\ p \in D /\ p # Root
  BY DEF Closed
<1>2. Len(p) \in Nat \ {0}
  BY <1>1, LenProperties, EmptySeq DEF PathSet, Root
<1>3. Upto(p, Len(p)) = p
  <2>1. Len(p) \in 0..Len(p)
    BY <1>2
  <2>2. /\ Upto(p, Len(p)) \in PathSet /\ Len(Upto(p, Len(p))) = Len(p)
        /\ \A i \in 1..Len(p) : Upto(p, Len(p))[i] = p[i]
    BY <1>1, <2>1, UptoIsPath
  <2> QED
    BY <1>1, <2>2, SeqEqual DEF PathSet
<1> QED
  BY <1>1, <1>2, <1>3 DEF DirsApart

\* What is above a file of the tree is in the tree.
LEMMA AboveIsKnown ==
    ASSUME NEW tree, Hierarchy(tree), NEW at, Holds(tree, at),
           NEW dirs, \A p \in DirPaths : p \in DOMAIN tree => p \in dirs,
           NEW i \in DOMAIN at, NEW path, path = at[i], Len(path) \in Nat,
           NEW k \in 1..Len(path) - 1, Upto(path, k) \in DirPaths
    PROVE  Upto(path, k) \in dirs
<1>1. path \in DOMAIN tree
  BY DEF Holds
<1>2. k \in 0..Len(path) - 1
  OBVIOUS
<1>3. Upto(path, k) \in DOMAIN tree
  BY <1>1, <1>2 DEF Hierarchy
<1> QED
  BY <1>3

\* Hence what the rows' paths imply follows from what the tree has.
LEMMA RecordedUp ==
    ASSUME NEW F, F \subseteq PathSet, RowsIn(F)', Recorded, Kept', Hierarchy(ns'), mode' = "up",
           directories' \subseteq DirPaths,
           \A p \in DirPaths : p \in DOMAIN ns' => p \in directories',
           fuse'.pc = "path" => rows' = rows /\ directories' = directories
    PROVE  Recorded'
<1>1. ASSUME NEW i \in DOMAIN rows', NEW k \in 1..Len(rows'[i].path) - 1,
             Upto(rows'[i].path, k) \in DirPaths
      PROVE  Upto(rows'[i].path, k) \in directories'
  <2>1. CASE fuse'.pc = "path"
    BY <1>1, <2>1 DEF Recorded
  <2>2. CASE fuse'.pc # "path"
    <3>1. PICK at, path, dirs : at = At' /\ path = rows'[i].path /\ dirs = directories'
      OBVIOUS
    <3>2. i \in DOMAIN at /\ at[i] = path
      BY <2>2, <3>1 DEF At, Come, Missing
    <3>3. Holds(ns', at)
      BY <3>1 DEF Kept
    <3>4. path \in PathSet
      BY <3>1 DEF RowsIn
    <3>5. Len(path) \in Nat
      BY <3>4, LenProperties DEF PathSet
    <3>6. Upto(path, k) \in dirs
      BY <1>1, <3>1, <3>2, <3>3, <3>5, AboveIsKnown
    <3> QED
      BY <3>1, <3>6
  <2> QED
    BY <2>1, <2>2
<1> QED
  BY <1>1 DEF Recorded

\* A step that makes and removes no directory of a user.
LEMMA DirsStay ==
    ASSUME NEW F, F \subseteq PathSet, RowsIn(F)', Recorded, Promised, Kept', Hierarchy(ns'),
           mode = "up", mode' = "up", fuse.pc # "rmdir", fuse'.pc # "rmdir",
           directories' = directories, made' \subseteq made,
           \A p \in DirPaths : p \in DOMAIN ns' => p \in DOMAIN ns,
           \A p \in DirPaths : p \in DOMAIN ns /\ ns[p] = N!Dir => p \in DOMAIN ns' /\ (ns')[p] = N!Dir,
           fuse'.pc \in {"unlink", "path"} => Under(fuse'.new, TrashPath),
           fuse'.pc = "path" => rows' = rows
    PROVE  Recorded' /\ Promised'
<1>1. Recorded'
  <2>1. directories' \subseteq DirPaths /\ \A p \in DirPaths : p \in DOMAIN ns' => p \in directories'
    BY DEF Recorded
  <2> QED
    BY <2>1, RecordedUp
<1>2. \A p \in made : p \in DirPaths
  BY DEF Recorded, Promised
<1>3. \A p \in made' : N!IsDirectory(p)'
  BY <1>2 DEF Promised, N!IsDirectory, N!Exists
<1> QED
  BY <1>1, <1>3 DEF Promised

\* mkdir writes down what it makes, below a directory that is there.
LEMMA MkdirPromises ==
    ASSUME Undisturbed, NEW F, NEW D, Closed(F, D), Shape(F, D), Shape(F, D)', Hierarchy(ns),
           Hierarchy(ns'), F \cap D = {}, DirsApart,
           Recorded, Promised, Kept', NEW p \in DirPaths, Mkdir(p)
    PROVE  Recorded' /\ Promised'
<1>1. /\ mode = "up" /\ mode' = "up" /\ fuse.pc = "idle" /\ fuse'.pc = "idle" /\ UNCHANGED rows
      /\ directories' = directories \cup {p} /\ made' = made \cup {p}
      /\ N!MakeDir(p)
  BY DEF Mkdir, Request, Idle, FuseOnly, Try, tables, InsertDirectory, Undisturbed
<1>2. /\ p \in PathSet /\ p \in D /\ p # Root /\ Len(p) \in Nat \ {0} /\ Upto(p, Len(p)) = p
      /\ \A k \in 1..Len(p) : Upto(p, k) \in DirPaths
  BY OwnDir
<1>3. /\ Parent(p) \in DOMAIN ns /\ p \notin DOMAIN ns /\ ns' = N!WithEntry(p, N!Dir)
  BY <1>1 DEF N!MakeDir, N!IsDirectory, N!Exists, N!Parent, Parent
<1>4. /\ Len(Parent(p)) = Len(p) - 1
      /\ \A k \in 0..Len(Parent(p)) : Upto(Parent(p), k) = Upto(p, k)
      /\ Parent(p) = Upto(p, Len(p) - 1)
  BY <1>2, ParentIsPath
\* All that is above it is in the tree.
<1>5. \A k \in 1..Len(p) - 1 : Upto(p, k) \in DOMAIN ns
  <2> SUFFICES ASSUME NEW k \in 1..Len(p) - 1 PROVE Upto(p, k) \in DOMAIN ns
    OBVIOUS
  <2>1. CASE k = Len(p) - 1
    BY <1>3, <1>4, <2>1
  <2>2. CASE k # Len(p) - 1
    <3>1. k \in 0..Len(Parent(p)) - 1 /\ k \in 0..Len(Parent(p))
      BY <1>2, <1>4, <2>2
    <3>2. Upto(Parent(p), k) \in DOMAIN ns
      BY <1>3, <3>1 DEF Hierarchy
    <3> QED
      BY <1>4, <3>1, <3>2
  <2> QED
    BY <2>1, <2>2
<1>6. DOMAIN ns' = DOMAIN ns \cup {p} /\ \A q \in DOMAIN ns' : (ns')[q] = IF q = p THEN N!Dir ELSE ns[q]
  <2> DEFINE t == N!WithDirs(Parent(p))
  <2>1. /\ DOMAIN ns \subseteq DOMAIN t
        /\ \A q \in DOMAIN ns : t[q] = ns[q]
        /\ \A q \in DOMAIN t \ DOMAIN ns : \E k \in 1..Len(Parent(p)) : q = Upto(Parent(p), k)
    BY WithDirsIs
  <2>2. DOMAIN ns' = DOMAIN t \cup {p} /\ \A q \in DOMAIN ns' : (ns')[q] = IF q = p THEN N!Dir ELSE t[q]
    BY <1>3 DEF N!WithEntry, N!Parent, Parent
  <2> HIDE DEF t
  <2>3. DOMAIN t = DOMAIN ns
    <3>1. ASSUME NEW q \in DOMAIN t \ DOMAIN ns PROVE FALSE
      <4>1. PICK k \in 1..Len(Parent(p)) : q = Upto(Parent(p), k)
        BY <2>1
      <4>2. k \in 1..Len(p) - 1 /\ k \in 0..Len(Parent(p))
        BY <1>2, <1>4
      <4> QED
        BY <1>4, <1>5, <3>1, <4>1, <4>2
    <3> QED
      BY <2>1, <3>1
  <2> QED
    BY <2>1, <2>2, <2>3
<1>7. \A k \in 1..Len(p) : Upto(p, k) \in directories'
  <2> SUFFICES ASSUME NEW k \in 1..Len(p) PROVE Upto(p, k) \in directories'
    OBVIOUS
  <2>1. CASE k = Len(p)
    BY <1>1, <1>2, <2>1
  <2>2. CASE k # Len(p)
    <3>1. k \in 1..Len(p) - 1
      BY <1>2, <2>2
    <3> QED
      BY <1>1, <1>2, <1>5, <3>1 DEF Recorded
  <2> QED
    BY <2>1, <2>2
<1>8. Recorded'
  <2>1. /\ directories' \subseteq DirPaths /\ \A q \in DirPaths : q \in DOMAIN ns' => q \in directories'
    BY <1>1, <1>6 DEF Recorded
  <2>2. F \subseteq PathSet /\ RowsIn(F)'
    BY DEF Closed, Shape
  <2> QED
    BY <1>1, <2>1, <2>2, RecordedUp
<1>9. \A q \in made' : N!IsDirectory(q)'
  BY <1>1, <1>6 DEF Promised, N!IsDirectory, N!Exists
<1>10. \A q \in made' : \A k \in 1..Len(q) : Upto(q, k) \in directories'
  BY <1>1, <1>7 DEF Promised
<1> QED
  BY <1>1, <1>8, <1>9, <1>10 DEF Promised

\* rmdir takes a directory that nothing is below, so nothing made is.
LEMMA RmdirPromises ==
    ASSUME NEW F, NEW D, Closed(F, D), Shape(F, D), Shape(F, D)', Hierarchy(ns'), DirsApart,
           Recorded, Promised, Kept', NEW p \in DirPaths, Rmdir(p)
    PROVE  Recorded' /\ Promised'
<1>1. /\ mode = "up" /\ mode' = "up" /\ fuse.pc = "idle" /\ fuse'.pc = "rmdir" /\ fuse'.old = p
      /\ UNCHANGED <<rows, directories, made>> /\ N!DeleteDir(p)
  BY DEF Rmdir, Request, Idle, FuseOnly, tables
<1>2. p \in DOMAIN ns /\ ns[p] = N!Dir /\ ns' = [q \in DOMAIN ns \ {p} |-> ns[q]]
  BY <1>1 DEF N!DeleteDir, N!IsDirectory, N!Exists, N!Without
<1>3. \A q \in DOMAIN ns : Under(q, p) => q = p
  BY <1>1 DEF N!DeleteDir, N!IsEmpty, N!Below, N!Under, N!Upto, Under, Upto
<1>4. DOMAIN ns' = DOMAIN ns \ {p} /\ \A q \in DOMAIN ns' : (ns')[q] = ns[q]
  BY <1>2
<1>5. \A q \in made : q \in DOMAIN ns /\ ns[q] = N!Dir
  BY <1>1 DEF Promised, N!IsDirectory, N!Exists
<1>6. Recorded'
  <2>1. /\ directories' \subseteq DirPaths /\ \A q \in DirPaths : q \in DOMAIN ns' => q \in directories'
    BY <1>1, <1>4 DEF Recorded
  <2>2. F \subseteq PathSet /\ RowsIn(F)'
    BY DEF Closed, Shape
  <2> QED
    BY <1>1, <2>1, <2>2, RecordedUp
<1>7. \A q \in made' : N!IsDirectory(q)' \/ (fuse'.pc = "rmdir" /\ fuse'.old = q)
  BY <1>1, <1>4, <1>5 DEF N!IsDirectory, N!Exists
<1>8. p \notin DOMAIN ns' /\ \A q \in made' : Under(q, p) => q = p
  BY <1>1, <1>3, <1>4, <1>5
<1> QED
  BY <1>1, <1>6, <1>7, <1>8 DEF Promised

\* ... and nothing made is below what rmdir takes from the table.
LEMMA RmdirDbPromises ==
    ASSUME Undisturbed, NEW F, NEW D, Closed(F, D), Shape(F, D), Shape(F, D)', Hierarchy(ns'),
           DirsApart, Restful, Recorded, Promised, Kept', RmdirDb
    PROVE  Recorded' /\ Promised'
<1>1. /\ mode = "up" /\ mode' = "up" /\ fuse.pc = "rmdir" /\ fuse'.pc = "idle"
      /\ UNCHANGED <<rows, ns>> /\ directories' = directories \ {fuse.old}
      /\ made' = made \ {fuse.old}
  BY DEF RmdirDb, Idle, FuseOnly, Try, tables, DeleteDirectory, Undisturbed, Restful
<1>2. fuse.old \notin DOMAIN ns /\ \A p \in made : Under(p, fuse.old) => p = fuse.old
  BY <1>1 DEF Promised
<1>3. Recorded'
  <2>1. /\ directories' \subseteq DirPaths /\ \A q \in DirPaths : q \in DOMAIN ns' => q \in directories'
    BY <1>1, <1>2 DEF Recorded
  <2>2. F \subseteq PathSet /\ RowsIn(F)'
    BY DEF Closed, Shape
  <2> QED
    BY <1>1, <2>1, <2>2, RecordedUp
<1>4. ASSUME NEW p \in made', NEW k \in 1..Len(p) PROVE Upto(p, k) \in directories'
  <2>1. p \in DirPaths /\ p \in made /\ p # fuse.old
    BY <1>1 DEF Recorded, Promised
  <2>2. p \in PathSet /\ Len(p) \in Nat
    BY <2>1, OwnDir
  <2>3. Len(Upto(p, k)) = k
    BY <2>2, UptoIsPath
  <2>4. Under(p, Upto(p, k))
    BY <2>2, <2>3 DEF Under
  <2> QED
    BY <1>1, <1>2, <2>1, <2>4 DEF Promised
<1>5. \A p \in made' : N!IsDirectory(p)'
  BY <1>1 DEF Promised, N!IsDirectory, N!Exists
<1>6. made' \subseteq directories'
  BY <1>1 DEF Promised
<1> QED
  BY <1>1, <1>3, <1>4, <1>5, <1>6 DEF Promised

\* mkdir_p makes directories below the trash only, for unlink.
LEMMA IntoTheTrash == ASSUME NEW p \in FilePaths PROVE Under(TrashPath \o p, TrashPath)
<1> SUFFICES ASSUME NEW trash, trash = TrashPath PROVE Under(trash \o p, trash)
  OBVIOUS
<1>1. p \in Seq(Names) /\ Len(p) \in Nat
  BY LibraryAssumption, LenProperties DEF PathSet
<1>2. trash \in Seq(Names) /\ Len(trash) = 1
  BY LibraryAssumption DEF TrashPath
<1>3. /\ trash \o p \in Seq(Names) /\ Len(trash \o p) = 1 + Len(p)
      /\ \A i \in 1..1 + Len(p) : (trash \o p)[i] = IF i <= 1 THEN trash[i] ELSE p[i - 1]
  BY <1>1, <1>2, ConcatProperties
<1>4. trash \in PathSet /\ trash \o p \in PathSet
  BY <1>2, <1>3 DEF PathSet
<1>5. Len(trash) <= Len(trash \o p) /\ \A i \in 1..Len(trash) : (trash \o p)[i] = trash[i]
  BY <1>1, <1>2, <1>3
<1> QED
  BY <1>4, <1>5, UnderMeans

LEMMA TrashIsNobodys ==
    ASSUME NEW F, NEW D, Closed(F, D), DirsApart, NEW path \in F, Under(path, TrashPath),
           NEW k \in 1..Len(path)
    PROVE  Upto(path, k) \notin DirPaths
<1> SUFFICES ASSUME NEW trash, trash = TrashPath PROVE Upto(path, k) \notin DirPaths
  OBVIOUS
<1>1. path \in PathSet /\ Len(path) \in Nat
  BY LenProperties DEF Closed, PathSet
<1>2. trash \in PathSet /\ Len(trash) = 1
  BY LibraryAssumption DEF TrashPath, PathSet
<1>3. k \in 0..Len(path) /\ Len(trash) <= k
  BY <1>1, <1>2
<1>4. Under(Upto(path, k), trash)
  BY <1>1, <1>2, <1>3, UnderUpto
<1> QED
  BY <1>4 DEF DirsApart

LEMMA FilesPromise ==
    ASSUME Undisturbed, NEW F, NEW D, Closed(F, D), Shape(F, D), Shape(F, D)', Hierarchy(ns),
           Hierarchy(ns'), F \cap D = {}, DirsApart,
           Restful, Recorded, Promised, Kept', mode = "up",
           \/ \E p \in FilePaths : Unlink(p)
           \/ \E old, new \in FilePaths : ReadId("rename", old, new)
           \/ UnlinkTree \/ UnlinkPath \/ UnlinkMark \/ RenameFile \/ RenameUnmark
    PROVE  Recorded' /\ Promised'
<1>1. F \subseteq PathSet /\ RowsIn(F)' /\ FuseIn(F) /\ "db_error" \notin Events
  BY DEF Closed, Shape, Undisturbed
<1>2. \A p \in DirPaths : p \notin F
  BY DEF Closed
<1>3. mode' = "up" /\ UNCHANGED <<directories, made>>
  BY <1>1 DEF Unlink, ReadId, UnlinkTree, UnlinkPath, UnlinkMark, RenameFile, RenameUnmark, FuseOnly,
     Try, tables
<1>4. ASSUME NEW p \in FilePaths, Unlink(p) PROVE Recorded' /\ Promised'
  <2>1. /\ UNCHANGED <<rows, ns>> /\ fuse.pc = "idle" /\ fuse'.pc = "unlink"
        /\ fuse'.new = TrashPath \o p
    BY <1>4 DEF Unlink, ReadId, Request, Idle, tables
  <2>2. Under(TrashPath \o p, TrashPath)
    BY IntoTheTrash
  <2> QED
    BY <1>1, <1>3, <2>1, <2>2, DirsStay
<1>5. ASSUME NEW old \in FilePaths, NEW new \in FilePaths, ReadId("rename", old, new)
      PROVE  Recorded' /\ Promised'
  <2>1. UNCHANGED <<rows, ns>> /\ fuse.pc = "idle" /\ fuse'.pc = "rename"
    BY <1>5 DEF ReadId, Request, Idle, tables
  <2> QED
    BY <1>1, <1>3, <2>1, DirsStay
<1>6. CASE UnlinkTree
  <2>1. UNCHANGED rows /\ fuse.pc = "unlink" /\ fuse.new \in F /\ Under(fuse.new, TrashPath)
    BY <1>1, <1>6 DEF UnlinkTree, tables, FuseIn, Promised
  <2>2. /\ Len(fuse.new) \in Nat \ {0} /\ Len(Parent(fuse.new)) = Len(fuse.new) - 1
        /\ \A k \in 0..Len(Parent(fuse.new)) : Upto(Parent(fuse.new), k) = Upto(fuse.new, k)
    <3>1. fuse.new # Root /\ fuse.new \in F \cup D
      BY <2>1 DEF Closed
    <3> QED
      BY <3>1, AboveIsIn
  <2>3. PICK t : t = N!WithDirs(Parent(fuse.new))
    OBVIOUS
  <2>4. /\ DOMAIN ns \subseteq DOMAIN t /\ \A q \in DOMAIN ns : t[q] = ns[q]
        /\ \A q \in DOMAIN t \ DOMAIN ns : \E k \in 1..Len(Parent(fuse.new)) : q = Upto(Parent(fuse.new), k)
    BY <2>3, WithDirsIs
  <2>5. \A q \in DOMAIN t \ DOMAIN ns : q \notin DirPaths
    <3> SUFFICES ASSUME NEW q \in DOMAIN t \ DOMAIN ns PROVE q \notin DirPaths
      OBVIOUS
    <3>1. PICK k \in 1..Len(Parent(fuse.new)) : q = Upto(Parent(fuse.new), k)
      BY <2>4
    <3>2. k \in 1..Len(fuse.new) /\ k \in 0..Len(Parent(fuse.new))
      BY <2>2
    <3> QED
      BY <2>1, <2>2, <3>1, <3>2, TrashIsNobodys
  <2>6. CASE Relocates(fuse.old, fuse.new) /\ fuse' = [fuse EXCEPT !.pc = "path"]
    <3>1. fuse'.pc = "path" /\ fuse'.new = fuse.new
      <4>1. PICK pc : pc = "path"
        OBVIOUS
      <4> QED
        BY <1>1, <2>1, <2>6, <4>1, FuseGoesOn
    <3>2. CanRename(t, fuse.old, fuse.new) /\ ns' = RenamedFile(t, fuse.old, fuse.new)
      BY <2>3, <2>6 DEF Relocates
    <3>3. /\ DOMAIN ns' = (DOMAIN t \ {fuse.old}) \cup {fuse.new}
          /\ \A q \in DOMAIN t \ {fuse.old} : q # fuse.new => (ns')[q] = t[q]
          /\ t[fuse.old] # N!Dir
      BY <3>2 DEF CanRename, RenamedFile, Insert, Remove
    <3>4. \A p \in DirPaths : p # fuse.new
      BY <1>2, <2>1
    <3> QED
      BY <1>1, <1>3, <2>1, <2>4, <2>5, <3>1, <3>3, <3>4, DirsStay
  <2>7. CASE RelocationFails(fuse.old, fuse.new) /\ fuse' = Idle
    <3>1. ns' = t /\ fuse'.pc = "idle"
      BY <2>3, <2>7 DEF RelocationFails, Idle
    <3> QED
      BY <1>1, <1>3, <2>1, <2>4, <2>5, <3>1, DirsStay
  <2> QED
    BY <1>6, <2>6, <2>7 DEF UnlinkTree
<1>7. CASE UnlinkPath
  <2>1. UNCHANGED ns /\ fuse.pc = "path"
    BY <1>7 DEF UnlinkPath
  <2>2. fuse'.pc = "mark"
    <3>1. PICK pc : pc = "mark"
      OBVIOUS
    <3> QED
      BY <1>1, <1>7, <2>1, <3>1, FuseGoesOn DEF UnlinkPath
  <2> QED
    BY <1>1, <1>3, <2>1, <2>2, DirsStay
<1>8. CASE UnlinkMark \/ RenameUnmark
  <2>1. UNCHANGED ns /\ fuse.pc \in {"mark", "unmark"} /\ fuse'.pc = "idle"
    BY <1>8 DEF UnlinkMark, RenameUnmark, Idle
  <2> QED
    BY <1>1, <1>3, <2>1, DirsStay
<1>9. CASE RenameFile
  <2>1. fuse.pc = "rename" /\ fuse.new \in F
    BY <1>1, <1>9 DEF RenameFile, FuseIn
  <2>2. fuse'.pc \in {"unmark", "idle"}
    <3>1. PICK pc : pc = "unmark"
      OBVIOUS
    <3>2. fuse' = [fuse EXCEPT !.pc = "unmark"] \/ fuse' = Idle
      BY <1>9 DEF RenameFile
    <3> QED
      BY <1>1, <2>1, <3>1, <3>2, FuseGoesOn DEF Idle
  <2>3. CASE UNCHANGED ns
    BY <1>1, <1>3, <2>1, <2>2, <2>3, DirsStay
  <2>4. CASE CanRename(ns, fuse.old, fuse.new) /\ ns' = RenamedFile(ns, fuse.old, fuse.new)
    <3>1. /\ DOMAIN ns' = (DOMAIN ns \ {fuse.old}) \cup {fuse.new}
          /\ \A q \in DOMAIN ns \ {fuse.old} : q # fuse.new => (ns')[q] = ns[q]
          /\ ns[fuse.old] # N!Dir
      BY <2>4 DEF CanRename, RenamedFile, Insert, Remove
    <3>2. \A p \in DirPaths : p # fuse.new
      BY <1>2, <2>1
    <3> QED
      BY <1>1, <1>3, <2>1, <2>2, <3>1, <3>2, DirsStay
  <2> QED
    BY <1>9, <2>3, <2>4 DEF RenameFile
<1> QED
  BY <1>4, <1>5, <1>6, <1>7, <1>8, <1>9

\* The rename of a directory leaves those of users alone.
LEMMA MovesPromise ==
    ASSUME Undisturbed, NEW F, NEW D, Closed(F, D), Shape(F, D), Shape(F, D)', Hierarchy(ns'),
           DirsApart, Restful, Recorded, Promised, Kept', mode = "up",
           (\E old, new \in MovePaths : RenameDir(old, new)) \/ RenameDirDb
    PROVE  Recorded' /\ Promised'
<1>1. F \subseteq PathSet /\ RowsIn(F)' /\ FuseIn(F) /\ EntriesIn(ns, F, D) /\ "db_error" \notin Events
  BY DEF Closed, Shape, Undisturbed
<1>2. ASSUME NEW old \in MovePaths, NEW new \in MovePaths, RenameDir(old, new)
      PROVE  Recorded' /\ Promised'
  <2>1. /\ UNCHANGED <<directories, made>> /\ mode' = "up" /\ fuse.pc = "idle"
        /\ fuse'.pc = "directories" /\ ns' = N!Moved(old, new)
    BY <1>1, <1>2 DEF RenameDir, Request, Idle, FuseOnly, Try, tables, N!MoveDir
  <2> DEFINE B == {q \in DOMAIN ns : Under(q, old)}
             T == {N!Rebase(q, old, new) : q \in B}
  <2>2. /\ DOMAIN ns' = (DOMAIN ns \ B) \cup T
        /\ \A q \in B : Under(N!Rebase(q, old, new), new)
        /\ \A q \in (DOMAIN ns \ B) \ T : (ns')[q] = ns[q]
    BY <1>1, <2>1, MovedIs
  <2>3. \A q \in T : Under(q, new)
    BY <2>2
  <2>4. \A p \in DirPaths : p \notin B /\ p \notin T
    BY <2>3 DEF DirsApart
  <2> HIDE DEF B, T
  <2> QED
    BY <1>1, <2>1, <2>2, <2>4, DirsStay
<1>3. CASE RenameDirDb
  <2>1. /\ UNCHANGED <<ns, rows>> /\ mode' = "up" /\ fuse.pc = "directories" /\ fuse'.pc = "idle"
        /\ made' \subseteq made /\ RenameDirectories(fuse.old, fuse.new) /\ fuse.old \in MovePaths
    BY <1>1, <1>3 DEF RenameDirDb, Idle, FuseOnly, Try, tables, FuseIn
  <2>2. {p \in directories : BelowPath(p, fuse.old)} = {}
    BY <2>1 DEF Recorded, DirsApart, BelowPath
  <2>3. directories' = directories
    BY <2>1, <2>2 DEF RenameDirectories
  <2> QED
    BY <1>1, <2>1, <2>3, DirsStay
<1> QED
  BY <1>2, <1>3

\* The scan makes no directory of a user that is not in the table.
LEMMA ScanPromises ==
    ASSUME Undisturbed, NEW F, NEW D, Closed(F, D), Shape(F, D), Dense, DirsApart, Restful,
           F \cap D = {}, Recorded, Promised, NEW f \in Files, ScanFile(f)
    PROVE  Recorded' /\ Promised'
<1>0. PICK key, path : key = Key(f, TRUE) /\ path = StoredPath(key, Derived[f])
  OBVIOUS
<1>1. /\ mode' = "starting" /\ UNCHANGED <<directories, made, fuse>> /\ fuse.pc = "idle"
      /\ Upsert(key, path) /\ \E id : N!AddFile(path, id)
  <2>1. /\ mode' = "starting" /\ UNCHANGED <<directories, made, fuse>> /\ fuse = Idle
        /\ Upsert(Key(f, TRUE), StoredPath(Key(f, TRUE), Derived[f]))
        /\ \E id : N!AddFile(StoredPath(Key(f, TRUE), Derived[f]), id)
    BY DEF ScanFile, Place, Undisturbed, Restful
  <2>2. fuse.pc = "idle"
    BY <2>1 DEF Idle
  <2> QED
    BY <1>0, <2>1, <2>2, Zenon
<1>2. RowsIn(F) /\ (HasRow(key) => RowId(key) \in DOMAIN rows /\ path = rows[RowId(key)].path)
      /\ (~HasRow(key) => path = Derived[f])
  BY <1>0, RowIdIs DEF Shape, StoredPath
<1>3. path \in F
  BY <1>2 DEF RowsIn, Closed
<1>4. /\ path \in PathSet /\ Len(path) \in Nat \ {0} /\ Len(Parent(path)) = Len(path) - 1
      /\ \A k \in 0..Len(Parent(path)) : Upto(Parent(path), k) = Upto(path, k)
  <2>1. path # Root /\ path \in F \cup D
    BY <1>3 DEF Closed
  <2> QED
    BY <2>1, AboveIsIn
\* What is above the file is in the table, if it is a user's.
<1>5. ASSUME NEW k \in 1..Len(path) - 1, Upto(path, k) \in DirPaths PROVE Upto(path, k) \in directories
  <2>1. CASE HasRow(key)
    BY <1>2, <1>5, <2>1 DEF Recorded
  <2>2. CASE ~HasRow(key)
    <3>1. k \in 0..Len(path)
      BY <1>4
    <3>2. Len(Upto(path, k)) = k
      BY <1>4, <3>1, UptoIsPath
    <3>3. Under(path, Upto(path, k))
      BY <1>4, <3>2 DEF Under
    <3> QED
      BY <1>2, <1>5, <2>2, <3>3 DEF DirsApart
  <2> QED
    BY <2>1, <2>2
<1>6. ASSUME NEW p \in DirPaths, p \in DOMAIN ns' PROVE p \in directories
  <2> DEFINE t == N!WithDirs(Parent(path))
  <2>1. \A q \in DOMAIN t \ DOMAIN ns : \E k \in 1..Len(Parent(path)) : q = Upto(Parent(path), k)
    BY WithDirsIs
  <2>2. DOMAIN ns' = DOMAIN t \cup {path}
    BY <1>1 DEF N!AddFile, N!WithEntry, N!Parent, Parent
  <2> HIDE DEF t
  <2>3. p # path
    BY <1>3 DEF Closed
  <2>4. CASE p \in DOMAIN ns
    BY <2>4 DEF Recorded
  <2>5. CASE p \notin DOMAIN ns
    <3>1. PICK k \in 1..Len(Parent(path)) : p = Upto(Parent(path), k)
      BY <1>6, <2>1, <2>2, <2>3, <2>5
    <3>2. k \in 1..Len(path) - 1 /\ k \in 0..Len(Parent(path))
      BY <1>4
    <3> QED
      BY <1>4, <1>5, <1>6, <3>1, <3>2
  <2> QED
    BY <2>4, <2>5
<1>7. ASSUME NEW i \in DOMAIN rows' PROVE (i \in DOMAIN rows /\ rows'[i] = rows[i]) \/ rows'[i].path = path
  <2>1. CASE i \in DOMAIN rows
    BY <1>2, <2>1, ScanWritesBack
  <2>2. CASE i \notin DOMAIN rows
    <3>1. rows'[i] = NewRow(key, path)
      BY <1>1, <2>2 DEF Upsert, Insert
    <3> QED
      BY <3>1 DEF NewRow
  <2> QED
    BY <2>1, <2>2
<1>8. Recorded'
  <2>1. ASSUME NEW i \in DOMAIN rows', NEW k \in 1..Len(rows'[i].path) - 1,
               Upto(rows'[i].path, k) \in DirPaths
        PROVE  Upto(rows'[i].path, k) \in directories
    BY <1>5, <1>7, <2>1 DEF Recorded
  <2> QED
    BY <1>1, <1>6, <2>1 DEF Recorded
<1> QED
  BY <1>1, <1>8 DEF Promised

\* The end of the scan makes every directory of the table that can be: what
\* is above one that was made is in the tree or made before it.
LEMMA FinishPromises ==
    ASSUME NEW F, NEW D, Closed(F, D), Shape(F, D), DirsApart, Restful,
           F \cap D = {}, Recorded, Promised, FinishStart
    PROVE  Recorded' /\ Promised'
<1>1. /\ mode' = "up" /\ UNCHANGED <<directories, made, fuse, rows>> /\ fuse.pc = "idle"
      /\ ns' = [p \in DOMAIN ns \cup Restorable |-> IF p \in DOMAIN ns THEN ns[p] ELSE N!Dir]
  BY DEF FinishStart, Restful, Idle, tables, N!Exists
<1>2. EntriesIn(ns, F, D)
  BY DEF Shape
<1>3. Restorable \subseteq directories
  BY DEF Restorable
<1>4. Recorded'
  <2>1. \A p \in DirPaths : p \in DOMAIN ns' => p \in directories
    BY <1>1, <1>3 DEF Recorded
  <2> QED
    BY <1>1, <2>1 DEF Recorded
<1>5. ASSUME NEW p \in D, p \in DOMAIN ns PROVE ns[p] = N!Dir
  BY <1>2, <1>5 DEF EntriesIn
<1>6. ASSUME NEW p \in made PROVE N!IsDirectory(p)'
  <2>1. /\ p \in DirPaths /\ p \in directories /\ \A k \in 1..Len(p) : Upto(p, k) \in directories
    BY DEF Recorded, Promised
  <2>2. p \in D /\ Len(p) \in Nat /\ \A k \in 1..Len(p) : Upto(p, k) \in DirPaths
    BY <2>1, OwnDir
  <2>3. DirPaths \subseteq D
    BY DEF Closed
  <2>4. CASE p \in DOMAIN ns
    BY <1>1, <1>5, <2>2, <2>4 DEF N!IsDirectory, N!Exists
  <2>5. CASE p \notin DOMAIN ns
    <3>1. \A k \in 1..Len(p) - 1 : N!IsDirectory(Upto(p, k)) \/ Upto(p, k) \in directories \ DOMAIN ns
      BY <1>5, <2>1, <2>2, <2>3 DEF N!IsDirectory, N!Exists
    <3>2. p \in Restorable
      BY <2>1, <2>5, <3>1 DEF Restorable
    <3> QED
      BY <1>1, <2>5, <3>2 DEF N!IsDirectory, N!Exists
  <2> QED
    BY <2>4, <2>5
<1> QED
  BY <1>1, <1>4, <1>6 DEF Promised

LEMMA PromisesNext ==
    ASSUME Undisturbed, DirsApart, NEW F, NEW D, Closed(F, D), Shape(F, D), Shape(F, D)',
           Hierarchy(ns), Hierarchy(ns'), F \cap D = {}, Dense, Restful, Kept', Recorded, Promised,
           [Next]_vars
    PROVE  Recorded' /\ Promised'
<1>1. CASE Start
  <2>1. UNCHANGED <<ns, rows, directories, made, fuse>> /\ mode' = "starting"
    BY <1>1 DEF Start, tables
  <2> QED
    BY <2>1 DEF Recorded, Promised
<1>2. CASE GoDown
  <2>1. UNCHANGED <<rows, directories, made>> /\ mode' = "down" /\ ns' = EmptyTree /\ fuse'.pc = "idle"
    BY <1>2 DEF GoDown, tables, Idle
  <2>2. \A p \in DirPaths : p \notin DOMAIN ns'
    BY <2>1 DEF EmptyTree, Closed
  <2> QED
    BY <2>1, <2>2 DEF Recorded, Promised
<1>3. CASE UNCHANGED vars \/ CliRestore \/ Sighup \/ Tick
  <2>1. UNCHANGED <<mode, ns, rows, directories, made, fuse>>
    BY <1>3 DEF vars, memory, tables, CliRestore, Sighup, RestoreOnly, Tick
  <2> QED
    BY <2>1 DEF Recorded, Promised, N!IsDirectory, N!Exists
<1>4. CASE mode = "up" /\ Fuse
  BY <1>4, MkdirPromises, RmdirPromises, RmdirDbPromises, FilesPromise, MovesPromise DEF Fuse
<1> QED
  BY <1>1, <1>2, <1>3, <1>4, CalmSteps, ScanPromises, FinishPromises

\* mkdir's promise: a directory that somebody made, and did not remove or
\* rename since, is there after every remount and crash, whatever was moved,
\* renamed or trashed meanwhile.  The hypotheses are those of
\* FilesSurviveRemounts, and that what users make is never below a directory
\* that only files imply (the table does not know that one), nor below one
\* that is renamed.
THEOREM UserDirsSurviveRemounts ==
    ASSUME NEW FileNames, NamesApart(FileNames), Undisturbed, DirsApart
    PROVE  Spec => []UserDirsSurvive
<1> DEFINE F == FilesAt(FileNames)  D == DirsAt(FileNames)
           Inv == Calm(F, D) /\ Recorded /\ Promised
<1>1. Closed(F, D) /\ F \cap D = {}
  BY PathsApart DEF Undisturbed
<1> HIDE DEF F, D
<1>2. Init => Inv
  <2> SUFFICES ASSUME Init PROVE Inv
    OBVIOUS
  <2>1. /\ DOMAIN rows = {} /\ directories = {} /\ made = {} /\ mode = "down" /\ fuse.pc = "idle"
        /\ ns = EmptyTree
    BY DEF Init, EmptyMap, Idle
  <2>2. \A p \in DirPaths : p \notin DOMAIN ns
    BY <1>1, <2>1 DEF EmptyTree, Closed
  <2> QED
    BY <1>1, <2>1, <2>2, CalmInit DEF Recorded, Promised
<1>3. Inv /\ [Next]_vars => Inv'
  <2> SUFFICES ASSUME Inv, [Next]_vars PROVE Inv'
    OBVIOUS
  <2>1. Calm(F, D)'
    BY <1>1, CalmNext
  <2> QED
    BY <1>1, <2>1, PromisesNext DEF Calm
<1>4. Inv => UserDirsSurvive
  BY DEF UserDirsSurvive, Quiet, Promised, Idle
<1> HIDE DEF Inv
<1> QED
  BY <1>2, <1>3, <1>4, PTL DEF Spec
=============================================================================
