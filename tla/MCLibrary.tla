----------------------------- MODULE MCLibrary -----------------------------
(* Instances of Library: the files x and y, whose tags place both under    *)
(* the artist A, a second directory B, and the user's directories D and E. *)
EXTENDS Library

CONSTANTS x, y

A == <<"a">>
B == <<"b">>
D == <<"d">>
E == <<"e">>
X == <<"x">>
Y == <<"y">>
MCTrash == <<".trash">>
MCFragments == {"a", "b", "d", "e", "x", "y", ".trash"}

OneFile == {x}
TwoFiles == {x, y}
MCDerived == [f \in Files |-> IF f = x THEN <<A, X>> ELSE <<A, Y>>]

\* x at its place, in a user's directory, moved with A or trashed; y where
\* its artist's directory takes it.
MountFiles == {<<A, X>>, <<A, Y>>, <<D, X>>, <<MCTrash, A, X>>}
MountMoves == {<<A>>, <<B>>, <<MCTrash, A>>}
OwnDirs == {<<D>>, <<D, E>>}

\* Each file can take the other's place.
PlacesXY == {<<A, X>>, <<A, Y>>}
JustX == {<<A, X>>}

\* One file, its trash, and directories to rename.
XPaths == {<<A, X>>, <<D, X>>, <<MCTrash, A, X>>}
DirOfOwn == {<<D>>}
MoveOwn == {<<D>>, <<E>>}
NoPaths == {}
=============================================================================
