--------------------------- MODULE MCVirtualTree ---------------------------
(* Instances of VirtualTree: directory names A and B (neither a prefix of  *)
(* the other), the sibling pair A and AB, and the file name F.             *)
EXTENDS VirtualTree

A == <<"a">>
B == <<"b">>
AB == <<"a", "b">>
F == <<"f">>
MCTrash == <<".trash">>
MCFragments == {"a", "b", "f", ".trash"}

\* Files and directories have names of their own, none a prefix of another.
PlainDirs == {<<A>>, <<B>>, <<A, B>>, <<MCTrash, A>>}
PlainFiles == {<<F>>, <<A, F>>, <<A, B, F>>, <<MCTrash, A, F>>}

\* Directories one of which is a string prefix of the other.
SiblingDirs == {<<A>>, <<AB>>, <<B>>}
SiblingFiles == {<<A, F>>, <<AB, F>>}

=============================================================================
