---------------------------- MODULE MCReceiving -----------------------------
EXTENDS Receiving, TLC

\* Numbered names as the program writes them: "1_a" comes from "a", and is the
\* name of another file as well.
NumberedNames ==
    [k \in 1 .. MaxNumber |-> [n \in {"a", "1_a", "b", "c", "conf", "d", "e"} |-> ToString(k) \o "_" \o n]]

\* Two transfers that share a name, and one of them brings a file with the
\* name of the configuration file.
SharedNames == [t \in Transfers |-> IF t = "web" THEN {<<"a">>, <<"conf">>} ELSE {<<"a">>, <<"b">>}]

\* Two transfers of different files.
OwnNames == [t \in Transfers |-> IF t = "web" THEN {<<"a">>, <<"b">>} ELSE {<<"c">>}]

\* Two transfers that bring a directory of the same name, and one with the name
\* of a file of the user.
SharedTrees == [t \in Transfers |-> IF t = "web" THEN {<<"d", "f">>, <<"d", "g">>, <<"a", DIR>>}
                                    ELSE {<<"d", "f">>, <<"a">>}]
OwnTrees    == [t \in Transfers |-> IF t = "web" THEN {<<"d", "f">>, <<"d", "g">>} ELSE {<<"e", DIR>>}]

\* Two transfers of the same file.
SameNames == [t \in Transfers |-> IF t = "web" THEN {<<"a">>, <<"b">>} ELSE {<<"b">>}]

\* A transfer brings a file and one whose name is that of the former with a
\* number, the other transfer one of them.
NumberedTwice == [t \in Transfers |-> IF t = "web" THEN {<<"a">>, <<"1_a">>} ELSE {<<"a">>}]
NumberedOnce  == [t \in Transfers |-> IF t = "web" THEN {<<"a">>} ELSE {<<"1_a">>}]

InTurn   == [incoming |-> SharedNames, together |-> FALSE, sameSecond |-> FALSE, kills |-> TRUE, fullDisk |-> TRUE]
Overlap  == [InTurn EXCEPT !.together = TRUE, !.kills = FALSE, !.fullDisk = FALSE]
OneDir   == [Overlap EXCEPT !.incoming = OwnNames, !.sameSecond = TRUE]
Trees    == [InTurn EXCEPT !.incoming = SharedTrees]
\* The same at one time, with other names, in one temporary directory.
OneTree  == [OneDir EXCEPT !.incoming = OwnTrees]
Mixed    == [Overlap EXCEPT !.incoming = SharedTrees]
OneFile  == [OneDir EXCEPT !.incoming = SameNames]

Numbers  == [InTurn EXCEPT !.incoming = NumberedTwice]
Likeness == [Overlap EXCEPT !.incoming = NumberedOnce]

AllSetups == {InTurn, Overlap, OneDir, Trees, OneTree, Mixed, OneFile, Numbers, Likeness}
=============================================================================
