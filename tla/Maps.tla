-------------------------------- MODULE Maps --------------------------------
(***************************************************************************)
(* Maps as functions over a finite, changing domain (HashMap, BTreeMap, a  *)
(* table by primary key).                                                  *)
(***************************************************************************)

EmptyMap == [x \in {} |-> 0]

Insert(f, k, v) == [x \in DOMAIN f \cup {k} |-> IF x = k THEN v ELSE f[x]]

Single(k, v) == [x \in {k} |-> v]

\* The entries of f, and those of g that f has none for.
Over(f, g) == [x \in DOMAIN f \cup DOMAIN g |-> IF x \in DOMAIN f THEN f[x] ELSE g[x]]

Remove(f, K) == [x \in DOMAIN f \ K |-> f[x]]
=============================================================================
