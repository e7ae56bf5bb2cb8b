------------------------------ MODULE MCSearch ------------------------------
(* Two files; one query finds both, the other only the second.  A batch is *)
(* given both.                                                             *)
EXTENDS Search

CONSTANTS song, track

TwoFiles == {song, track}
MCMatches == [q \in Queries |-> IF q = "all" THEN Files ELSE {track}]
MCBatches == {TwoFiles}

\* Bound: links are used while no delivery and no batch is under way.
LinksApart ==
    DOMAIN result_cache # {} \/ DOMAIN inode_to_result # {} => post = NoPost /\ ~batch.on
=============================================================================
