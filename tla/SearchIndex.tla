----------------------------- MODULE SearchIndex -----------------------------
(***************************************************************************)
(* SearchIndex (musicfs-search/src/index.rs): the documents of the writer  *)
(* and those of the last commit, which are what a search sees and what a   *)
(* crash leaves.  A document is a file's version; its id is the file.      *)
(***************************************************************************)
EXTENDS Integers, Sequences, FiniteSets

CONSTANTS
    Matches,       \* the files whose tags match a query: a function of queries
    Limit          \* the hits a search asks for at most

ASSUME SearchIndexAssumption == Limit \in Nat

VARIABLES
    written,       \* the writer's documents: Seq([file, version])
    committed      \* the documents of the last commit, likewise

index == <<written, committed>>

Document(f, v) == [file |-> f, version |-> v]

\* The documents at some places, in their order.
Nth(places, n) == CHOOSE i \in places : Cardinality({j \in places : j <= i}) = n
At(docs, places) == [n \in 1..Cardinality(places) |-> docs[Nth(places, n)]]

Without(docs, f) == At(docs, {i \in DOMAIN docs : docs[i].file # f})

IndexInit == written = <<>> /\ committed = <<>>

\* add_document does not look whether the file has one already.
index_file(docs, f, v) == Append(docs, Document(f, v))

\* delete_term takes every document of the file that was added before.
remove_file(docs, f) == Without(docs, f)

\* The virtual path is stored but not indexed, so the query by path is refused
\* and nothing is removed.
remove_by_path(docs, f) == docs

commit == committed' = written /\ UNCHANGED written

\* The writer opens with what was committed; an index that cannot be opened is
\* deleted and made anew (open_with_recovery).
open_with_recovery(docs) == written' = docs /\ committed' = docs

\* The first hits, of equal score, in the order of their documents.
search(query) ==
    LET hits == At(committed, {i \in DOMAIN committed : committed[i].file \in Matches[query]})
    IN  [i \in DOMAIN hits \cap 1..Limit |-> hits[i].file]

VersionsOf(docs, f) == {docs[i].version : i \in {j \in DOMAIN docs : docs[j].file = f}}

\* The versions of a file there are, and whether there is no second document of it.
Holding(docs, f) ==
    [versions |-> VersionsOf(docs, f),
     sole |-> \A i, j \in DOMAIN docs : docs[i].file = f /\ docs[j].file = f => i = j]
=============================================================================
