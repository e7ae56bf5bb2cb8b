----------------------------- MODULE Namespace -----------------------------
(***************************************************************************)
(* What the virtual tree promises: a hierarchy of paths, each a directory  *)
(* or the file with a given id.  Renaming and removing a directory act on  *)
(* the directory and what lies below it, component by component.           *)
(*                                                                         *)
(* VirtualTree is shown to implement this where names do not clash;        *)
(* Library builds the FUSE handlers and the daemon's start on it.          *)
(***************************************************************************)
EXTENDS Paths

CONSTANTS FileIds, FilePaths, DirPaths, TrashName

VARIABLE ns    \* from the paths in use to entries

Dir == [kind |-> "dir"]
File(id) == [kind |-> "file", id |-> id]

Exists(p) == p \in DOMAIN ns
IsDirectory(p) == Exists(p) /\ ns[p] = Dir
IsFile(p) == Exists(p) /\ ns[p] # Dir
Below(p) == {q \in DOMAIN ns : Under(q, p)}
IsEmpty(p) == Below(p) = {p}

\* p and its ancestors that do not exist yet.
Absent(p) == {Upto(p, k) : k \in 1..Len(p)} \ DOMAIN ns

\* What the namespace becomes.
WithDirs(p) == [q \in DOMAIN ns \cup Absent(p) |-> IF Exists(q) THEN ns[q] ELSE Dir]
WithEntry(p, e) ==
    LET base == WithDirs(Parent(p))
    IN  [q \in DOMAIN base \cup {p} |-> IF q = p THEN e ELSE base[q]]
Without(P) == [q \in DOMAIN ns \ P |-> ns[q]]

\* old and everything below it, under new.
Rebase(q, old, new) == new \o SubSeq(q, Len(old) + 1, Len(q))
Moved(old, new) ==
    LET targets == {Rebase(q, old, new) : q \in Below(old)}
    IN  [q \in (DOMAIN ns \ Below(old)) \cup targets |->
            IF q \in targets THEN ns[Rebase(q, new, old)] ELSE ns[q]]

Init == ns = [p \in {Root} |-> Dir]

AddFile(p, id) == ns' = WithEntry(p, File(id))
DeleteFile(p) == IsFile(p) /\ ns' = Without({p})
MakeDir(p) == ~Exists(p) /\ IsDirectory(Parent(p)) /\ ns' = WithEntry(p, Dir)
MakeDirs(p) == ~Exists(p) /\ ns' = WithDirs(p)
CanMove(old, new) == Exists(old) /\ ~Exists(new) /\ IsDirectory(Parent(new))
MoveFile(old, new) == IsFile(old) /\ CanMove(old, new) /\ ns' = Moved(old, new)
MoveDir(old, new) ==
    IsDirectory(old) /\ CanMove(old, new) /\ ~Under(new, old) /\ ns' = Moved(old, new)
DeleteDir(p) == IsDirectory(p) /\ IsEmpty(p) /\ ns' = Without({p})
DeleteTree(p) == IsDirectory(p) /\ ns' = Without(Below(p))
Clear == ns' = [p \in {Root} |-> Dir]

Next ==
    \/ \E p \in FilePaths, id \in FileIds : AddFile(p, id)
    \/ \E p \in FilePaths : DeleteFile(p)
    \/ \E p \in DirPaths \cup {<<TrashName>>} : MakeDir(p)
    \/ \E p \in DirPaths : MakeDirs(p) \/ DeleteDir(p) \/ DeleteTree(p)
    \/ \E old, new \in FilePaths : MoveFile(old, new)
    \/ \E old, new \in DirPaths : MoveDir(old, new)
    \/ Clear

Spec == Init /\ [][Next]_ns
=============================================================================
