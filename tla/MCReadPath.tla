----------------------------- MODULE MCReadPath -----------------------------
(* An instance of ReadPath: the reader and a prefetcher, and a file that   *)
(* goes to and fro between a long and a short version.                     *)
EXTENDS ReadPath

CONSTANTS c1, c2, r, p, song

WithPrefetcher == {r, p}
OneFile == {song}
TwoChunks == {c1, c2}
MCChunkOf == [x \in Files |-> <<c1, c2, c1, c2>>]
MCBytes == [c \in Chunks |-> IF c = c1 THEN 2 ELSE 1]

\* Bound: after the first change nothing of a dropped or failed write is about.
QuietLater == (\E x \in Files : version[x] > 2) => missed = 0 /\ adrift = {}
=============================================================================
