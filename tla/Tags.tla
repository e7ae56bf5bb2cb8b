-------------------------------- MODULE Tags --------------------------------
(***************************************************************************)
(* The tags of a file and the forms they pass through: the parser, the row *)
(* of the database, the messages of MetadataService, the JSON and the      *)
(* flags of the command line, the entries of an import, and the headers    *)
(* the format handlers write and read.                                     *)
(*                                                                         *)
(* Tags are a map from the fields that are Some to their values; a         *)
(* conversion is the set of the fields it carries.  A date is as good as   *)
(* its year, which Garbled dates have none of.                             *)
(***************************************************************************)
EXTENDS Maps, Sequences, Functions

CONSTANT Garbled

Basic == {"title", "artist", "album", "album_artist", "genre"}
Counts == {"track", "disc"}
Totals == {"track_total", "disc_total"}
Texts == {"lyrics", "copyright", "compilation"}
Sorts == {"artist_sort", "album_artist_sort", "album_sort", "title_sort"}
MusicBrainz == {"mb_recording_id", "mb_album_id", "mb_artist_id"}
MusicBrainzGroups == {"mb_album_artist_id", "mb_release_group_id"}
ReplayGain == {"replaygain_track_gain", "replaygain_track_peak",
               "replaygain_album_gain", "replaygain_album_peak"}
Stream == {"duration_ms", "bitrate", "channels", "bits_per_sample"}
Enrichment == {"label", "album_type", "cover_url"}

\* The flags of "metadata set", and what else its request has room for.
Flags == Basic \cup Counts \cup {"date", "composer", "comment"}
Request == Flags \cup Texts \cup Sorts \cup MusicBrainz \cup ReplayGain

AudioMeta ==
    Request \cup Totals \cup MusicBrainzGroups \cup Stream
        \cup {"year", "sample_rate", "format", "encoder"}

Carried(tags, fields) == Restrict(tags, DOMAIN tags \cap fields)

\* The year before the first dash of a date, if it is a number.
Year(tags) ==
    IF "date" \in DOMAIN tags /\ tags["date"] # Garbled THEN Single("year", tags["date"]) ELSE EmptyMap

----------------------------------------------------------------------------
(* From the file to its row and to who asks.                               *)

\* The decoder's parameters say how long and how dense the sound is.
StreamFields(params) ==
    (IF {"n_frames", "sample_rate"} \subseteq params
        THEN {"duration_ms", "sample_rate"} ELSE {})
    \cup (params \cap {"channels", "bits_per_sample"})
    \cup (IF {"bits_per_sample", "sample_rate", "channels"} \subseteq params
             THEN {"bitrate"} ELSE {})

\* extract_tags: every standard key but the year, which the date gives.
Extracted(raw) ==
    LET tags == Carried(raw, AudioMeta \ (Stream \cup {"year", "sample_rate", "format"}))
    IN  Over(Year(tags), tags)

Parsed(file) ==
    Over([f \in StreamFields(file.params) \cup {"format"} |-> file.stream], Extracted(file.raw))

\* The columns an update sets, and the statement: those of its Some fields.
Columns == AudioMeta \ {"format"}
\* A mutant: what is not given becomes NULL, as in the upsert.
UpdatedWhole(tags, meta) == Over(Carried(meta, Columns), Carried(tags, Enrichment))
Updated(tags, meta) == Over(Carried(meta, Columns), tags)

\* update_enrichment sets its three columns, NULL where nothing is given.
Enriched(tags, given) == Over(Carried(given, Enrichment), Restrict(tags, DOMAIN tags \ Enrichment))

\* The columns of the upsert are replaced, NULL or not; the others stay.
Upserted(tags, meta) == Over(Carried(tags, Enrichment), Carried(meta, AudioMeta))

\* A row as a reader of tags gets it, and as the answer to GetMetadata.
MetadataRow(tags) == Carried(tags, AudioMeta)
Response(meta) == Carried(meta, AudioMeta \ {"sample_rate"})

\* What the command line prints of an answer, all or the field asked for.
Printed(response) == Carried(response, AudioMeta \ {"sample_rate"})
FieldValue(printed, f) == IF f \in DOMAIN printed THEN printed[f] ELSE "null"

Shown(tags) == Printed(Response(MetadataRow(tags)))

----------------------------------------------------------------------------
(* From who sets tags to the row.                                          *)

SetFlags(asked) == Carried(asked, Flags)
SetJson(asked) == Carried(asked, Request \cup {"custom_tags"})
RequestMeta(request) == Carried(request, Request)
ImportMeta(entry) == Carried(entry, Flags \cup {"year"})

----------------------------------------------------------------------------
(* Headers: a map from the names of frames or comments to values.          *)

InHeader == AudioMeta \ (Stream \cup {"sample_rate", "format"})

\* The comment or frame a field is written to; "year" and "date" share one.
VorbisName(f) == IF f \in {"year", "date"} THEN "DATE" ELSE f
FrameName(f) == CASE f \in {"year", "date"} -> "TDRC"
                  [] f \in {"track", "track_total"} -> "TRCK"
                  [] f \in {"disc", "disc_total"} -> "TPOS"
                  [] OTHER -> f

Dated(tags) == IF "date" \in DOMAIN tags THEN tags["date"] ELSE tags["year"]

VorbisComments(tags) ==
    [n \in {VorbisName(f) : f \in DOMAIN tags \cap InHeader} |->
        IF n = "DATE" THEN Dated(tags) ELSE tags[n]]

FromVorbisComments(comments) ==
    LET date == IF "DATE" \in DOMAIN comments THEN Single("date", comments["DATE"]) ELSE EmptyMap
        tags == Over(Carried(comments, InHeader \ {"year"}), date)
    IN  Over(Year(tags), tags)

\* "3/12", or "3" where the total is not known.
NumberOf(tags, f, total) ==
    <<tags[f]>> \o (IF total \in DOMAIN tags THEN <<tags[total]>> ELSE <<>>)

\* A total without its number is not written.  A mutant: nor is one with it.
Id3TagUncounted(tags) ==
    [n \in {FrameName(f) : f \in (DOMAIN tags \cap InHeader) \ Totals} |->
        CASE n = "TDRC" -> Dated(tags)
          [] n = "TRCK" -> <<tags["track"]>>
          [] n = "TPOS" -> <<tags["disc"]>>
          [] OTHER -> tags[n]]

Id3Tag(tags) ==
    [n \in {FrameName(f) : f \in (DOMAIN tags \cap InHeader) \ Totals} |->
        CASE n = "TDRC" -> Dated(tags)
          [] n = "TRCK" -> NumberOf(tags, "track", "track_total")
          [] n = "TPOS" -> NumberOf(tags, "disc", "disc_total")
          [] OTHER -> tags[n]]

\* parse_track_disc.
Numbers(tag, n, f, total) ==
    IF n \notin DOMAIN tag THEN EmptyMap
    ELSE Over(Single(f, tag[n][1]),
              IF Len(tag[n]) = 2 THEN Single(total, tag[n][2]) ELSE EmptyMap)

FromId3Tag(tag) ==
    LET numbers == Over(Numbers(tag, "TRCK", "track", "track_total"),
                        Numbers(tag, "TPOS", "disc", "disc_total"))
        date == IF "TDRC" \in DOMAIN tag THEN Single("date", tag["TDRC"]) ELSE EmptyMap
        tags == Over(Carried(tag, InHeader \ (Counts \cup Totals \cup {"year"})),
                     Over(numbers, date))
    IN  Over(Year(tags), tags)
=============================================================================
