----------------------------- MODULE MCOverlay -----------------------------
EXTENDS Overlay

Tagged(title, date, year) == [title |-> title, date |-> date, year |-> year]
File(size, start, end, parses, tags) ==
    [size |-> size, start |-> start, end |-> end, parses |-> parses, tags |-> tags]

\* Two versions that differ in everything, one whose header is too long to be
\* analysed, and one cut off far inside its header.
FlacVersions ==
    << File(5, 2, 5, TRUE, Tagged("a", "d", NULL)),
       File(6, 3, 6, TRUE, NoTags),
       File(4, 0, 4, FALSE, Tagged("b", NULL, "y")),
       File(3, 8, 3, TRUE, NoTags) >>
Mp3Versions == << File(5, 2, 4, TRUE, Tagged("a", NULL, "y")) >>
TitleOnly == { Tagged("b", NULL, NULL) }
MCEdits == { Tagged("b", NULL, NULL), Tagged(NULL, NULL, "z") }
=============================================================================
