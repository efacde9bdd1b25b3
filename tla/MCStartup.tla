----------------------------- MODULE MCStartup ------------------------------
EXTENDS Startup

Defaults == [o \in Options |-> IF o \in Booleans \ {"tray_icon"} THEN 0 ELSE 1]

Line(key, value) == [key |-> key, missing |-> FALSE, value |-> value]
Number(d) == [negative |-> FALSE, digits |-> d, suffix |-> "none", more |-> FALSE]

\* With a listener, or with an icon, both at the default port; with neither at
\* another port; a file that is refused, and one that is never read to its end.
Sender   == <<Line("auto_send_text", 1), Line("tray_icon", 0)>>
Plain    == <<Line("tray_icon", 0)>>
Icon     == <<Line("tray_icon", 1)>>
Moved    == <<Line("comment", 0), Line("web_port", Number(5)), Line("tray_icon", 0)>>
Bad      == <<Line("tray_icon", 0), Line("secure_mode_enabled", 1)>>
Endless  == <<Line("auto_send_servers", <<"a", "empty", "b">>)>>

\* Numbers around every limit, with every suffix.
Near(n) == {n - 1, n, n + 1} \cap Nat
Interesting ==
    {0, 1, 2, 3} \cup UNION {Near(2 ^ k) : k \in {Half, Word - 3, Word - 1, Word}}
                 \cup UNION {Near((2 ^ Half - 2) \div Thousand ^ k) \cup
                             Near((2 ^ (Word - 3) - 1) \div Thousand ^ k) : k \in 1 .. 4}
Numerals ==
    [negative : BOOLEAN, digits : Interesting, suffix : {"none", "k", "m", "g", "t", "x"},
     more : BOOLEAN]
LimitFiles == {<<Line(o, t)>> : o \in {"max_text_length", "max_file_size"}, t \in Numerals}

\* Every pair of versions, in either order, and a second line for one of them.
VersionFiles ==
    {<<Line("min_proto_version", Number(a)), Line("max_proto_version", Number(b))>> :
        a, b \in 0 .. 6} \cup
    {<<Line("max_proto_version", Number(a)), Line("nothing", 0),
       Line("max_proto_version", Number(b))>> : a, b \in {0, 2, 5}}

\* What ends the reading, or does not.
Missing(key) == [key |-> key, missing |-> TRUE, value |-> 0]
OtherFiles ==
    {<<>>, <<Missing("none")>>, <<Missing("unknown")>>, <<Line("unknown", 0)>>, <<Missing("comment")>>,
     <<Line("web_port", Number(2 ^ Short))>>,
     <<Line("trusted_servers", <<"a", "unreadable", "empty">>)>>,
     <<Line("auto_send_servers", <<"comment", "invalid">>)>>,
     <<Line("working_dir", 1)>>, <<Line("working_dir", 2)>>, <<Line("tray_icon", Refused)>>,
     <<Line("secure_mode_enabled", 1), Line("client_cert", 1), Line("ca_cert", 1),
       Line("trusted_servers", <<"a", "b">>)>>}

\* Starts that overlap: with a listener, with an icon, with something else, and
\* two web clients with a start between them that never gets on.
Web(file) == <<"web", file, TRUE>>
Command == <<"command", Moved, TRUE>>
Stop    == <<"stop", Moved, TRUE>>

Reading  == <<{"command"} \X (LimitFiles \cup VersionFiles \cup OtherFiles) \X {TRUE}>>
Racing   == <<{Web(Sender)}, {Web(Sender), Stop}>>
Quitting == <<{<<"web", Icon, FALSE>>}, {Web(Plain), Stop}>>
Mixed    == <<{Web(Moved), Command}, {Web(Moved), Web(Bad), Command}>>
Stuck    == <<{Web(Moved)}, {Web(Endless)}, {Web(Moved)}>>

Setup(ways) == [starts |-> Len(ways), ways |-> ways]
AllSetups  == [reading |-> Setup(Reading), racing |-> Setup(Racing), quitting |-> Setup(Quitting),
               mixed |-> Setup(Mixed), stuck |-> Setup(Stuck)]
OneEndless == [endless |-> Setup(<<{Web(Endless)}>>)]
=============================================================================
