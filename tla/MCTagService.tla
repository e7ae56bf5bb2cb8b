---------------------------- MODULE MCTagService ----------------------------
(* Instances of TagService: two files, one of which the scan has still to  *)
(* find, and an id that has none.                                          *)
EXTENDS TagService, TLC

Tag(f, v) == f :> v

MCFileTags ==
    1 :> [raw |-> Tag("title", "own") @@ Tag("date", "own") @@ Tag("track_total", "own"),
          params |-> {"n_frames", "sample_rate", "channels"}, stream |-> "own"]
    @@ 2 :> [raw |-> Tag("title", "own") @@ Tag("date", "garbled") @@ Tag("track", "own"),
             params |-> {"bits_per_sample"}, stream |-> "own"]

\* Edits of the command line and of the orchestrator, of one field or two.
MCEdits ==
    {[kind |-> "flags", asked |-> Tag("title", "a")],
     [kind |-> "flags", asked |-> Tag("date", "a") @@ Tag("track", "a")],
     [kind |-> "json", asked |-> Tag("title", "b") @@ Tag("lyrics", "b")],
     [kind |-> "rpc", asked |-> Tag("genre", "c") @@ Tag("label", "c")],
     [kind |-> "rpc", asked |-> Tag("cover_url", "d")],
     [kind |-> "clear", asked |-> EmptyMap]}

Request1 == [id |-> 1, request |-> Tag("title", "e") @@ Tag("label", "e")]
Request2 == [id |-> 2, request |-> Tag("comment", "e")]
Missing == [id |-> 1, request |-> NoRequest]
MCBatches == {<<Request1, Request2, Missing, Request1>>, <<Request2, Request1>>}

ImportOf(id) == [id |-> id, entry |-> Tag("title", "f") @@ Tag("year", "f")]
MCImports == {<<ImportOf(2), ImportOf(1), ImportOf(3)>>}

\* The example of the README: metadata set --json '{"title":"foo","year":2023}'.
ReadmeEdits == {[kind |-> "json", asked |-> Tag("title", "foo") @@ Tag("year", "2023")]}
=============================================================================
