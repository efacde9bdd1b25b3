---------------------------- MODULE MCSelection -----------------------------
EXTENDS Selection

\* A directory with a file, a link, an empty and a locked directory and more
\* levels than are followed; beside it two files, a link and a socket.
HomeTree ==
    (<<"h", "d">> :> "dir") @@ (<<"h", "d", "f">> :> "file") @@ (<<"h", "d", "l">> :> "link")
    @@ (<<"h", "d", "e">> :> "dir") @@ (<<"h", "d", "x">> :> "locked")
    @@ (<<"h", "d", "s">> :> "dir") @@ (<<"h", "d", "s", "f">> :> "file")
    @@ (<<"h", "d", "s", "t">> :> "dir") @@ (<<"h", "d", "s", "t", "f">> :> "file")
    @@ (<<"h", "f">> :> "file") @@ (<<"h", "g">> :> "file") @@ (<<"h", "l">> :> "link")
    @@ (<<"h", "p">> :> "special")

Entry(p) == [path |-> p, url |-> TRUE]
NoUrl    == [path |-> <<>>, url |-> FALSE]

Text(n, targets, large) ==
    [targets |-> targets, text |-> n, large |-> large, verb |-> "", files |-> <<>>]
Files(list, large) ==
    [targets |-> {FILES, "UTF8_STRING"}, text |-> 1, large |-> large, verb |-> "copy", files |-> list]

\* Text in chunks, then copied files, then text only the older target gives.
TextFirst == [wanted |-> "TEXT", version |-> 2, auto |-> FALSE, removes |-> FALSE,
              offers |-> <<Text(2, {"UTF8_STRING", "STRING"}, TRUE), Files(<<Entry(<<"h", "f">>)>>, FALSE),
                           Text(2, {"TEXT", "STRING"}, TRUE)>>]
\* Text in a form that is not asked for, an empty text, and one too long.
TextOdd   == [TextFirst EXCEPT !.offers = <<Text(1, {"text/html"}, FALSE), Text(0, {"UTF8_STRING"}, TRUE),
                                            Text(4, {"UTF8_STRING"}, FALSE)>>]

\* A directory, a file that is missing and one that exists; then another list in chunks.
Directory == [wanted |-> "FILE", version |-> 3, auto |-> FALSE, removes |-> TRUE,
              offers |-> <<Files(<<Entry(<<"h", "d">>), Entry(<<"h", "m">>), Entry(<<"h", "f">>)>>, FALSE),
                           Files(<<Entry(<<"h", "f">>), Entry(<<"h", "l">>)>>, TRUE)>>]
\* The same without empty directories; one file for version 1.
Directory2 == [Directory EXCEPT !.version = 2]
OneFile    == [Directory EXCEPT !.version = 1]

\* A file below the directory of the first entry and one above it, a socket in
\* the middle, an entry that is no URL, and text that replaces them.
Mixed == [Directory EXCEPT !.version = 4, !.auto = TRUE,
            !.offers = <<Files(<<Entry(<<"h", "d", "f">>), Entry(<<"h", "f">>), Entry(<<"h", "p">>),
                                 Entry(<<"h", "g">>)>>, FALSE),
                         Files(<<Entry(<<"h", "g">>), NoUrl, Entry(<<"h", "f">>)>>, TRUE),
                         Text(1, {"UTF8_STRING"}, FALSE)>>]
\* More files than are sent automatically.
TooMany == [Directory EXCEPT !.auto = TRUE]

\* A file of a directory beside the directory: it is sent twice.
Overlap == [Directory EXCEPT !.version = 2,
              !.offers = <<Files(<<Entry(<<"h", "d", "f">>), Entry(<<"h", "d">>)>>, FALSE)>>]

AllSetups == {TextFirst, TextOdd, Directory, Directory2, OneFile, Mixed, TooMany, Overlap}
=============================================================================
