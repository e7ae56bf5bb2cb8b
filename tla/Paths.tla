------------------------------- MODULE Paths -------------------------------
(***************************************************************************)
(* Virtual paths (musicfs-core/src/types.rs, VirtualPath).                 *)
(*                                                                         *)
(* A path is the sequence of its component names, the root "/" the empty   *)
(* sequence.  Part of the code compares paths as STRINGS (str::starts_with *)
(* and byte slicing in VirtualTree and Database), so a name is kept as a   *)
(* nonempty sequence of fragments: "Abba" and "Abba Gold" share a first    *)
(* fragment, which is all that string prefixes can tell apart.             *)
(***************************************************************************)
EXTENDS Integers, Sequences

CONSTANT Fragments    \* the pieces names are made of

Names == Seq(Fragments) \ {<<>>}
PathSet == Seq(Names)

Root == <<>>

\* Path::parent and Path::file_name, for a path other than "/".
Parent(p) == SubSeq(p, 1, Len(p) - 1)
NameOf(p) == p[Len(p)]

\* The ancestor of p with k components.
Upto(p, k) == SubSeq(p, 1, k)

\* Component-wise: p is q or lies below it.
Under(p, q) == Len(q) <= Len(p) /\ Upto(p, Len(q)) = q

\* What is left of name n after the prefix m.
NameRest(n, m) == SubSeq(n, Len(m) + 1, Len(n))

NameStartsWith(n, m) == Len(m) <= Len(n) /\ SubSeq(n, 1, Len(m)) = m

\* p.as_str().starts_with(q.as_str()): the last component of q only has to
\* be a prefix of the component of p at its place.
StartsWith(p, q) ==
    \/ q = Root
    \/ /\ q # Root
       /\ Len(q) <= Len(p)
       /\ Parent(q) = Upto(p, Len(q) - 1)
       /\ NameStartsWith(p[Len(q)], NameOf(q))

\* format!("{}{}", new, &p[old.len()..]), for p that starts with old and
\* old, new other than "/".
Substitute(p, old, new) ==
    Parent(new)
      \o << NameOf(new) \o NameRest(p[Len(old)], NameOf(old)) >>
      \o SubSeq(p, Len(old) + 1, Len(p))
=============================================================================
