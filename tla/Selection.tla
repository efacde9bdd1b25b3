----------------------------- MODULE Selection ------------------------------
(***************************************************************************)
(* What a request sends of the X11 clipboard: the type is asked for before *)
(* the connection is made (get_copied_type), the contents afterwards       *)
(* (get_clipboard_text, get_copied_files_as_str), each in a call of        *)
(* xclip_util with a display and a window of its own.  The program that    *)
(* owns the clipboard answers in one property or in chunks (doOut, xcout). *)
(* Copied files become a list of files and empty directories               *)
(* (get_copied_dirs_files), which is announced and sent one by one         *)
(* (_send_files_common).  The user may copy something else, a program may  *)
(* end and a file may be deleted at any time.                              *)
(***************************************************************************)
EXTENDS Naturals, Sequences, SequencesExt, FiniteSets

CONSTANTS
    MAX_RECURSE_DEPTH,
    max_text_length,
    auto_send_max_files,
    Tree,    \* what is at each path: a path is a sequence of names of one character
    Setups   \* the situations to explore, see SetupsAssumption

FILES == "x-special/gnome-copied-files"
Kinds == {"file", "dir", "locked", "link", "special"}

ASSUME LimitsAssumption == {MAX_RECURSE_DEPTH, max_text_length, auto_send_max_files} \subseteq Nat
ASSUME TreeAssumption ==
    /\ IsFiniteSet(DOMAIN Tree) /\ DOMAIN Tree \subseteq Seq(STRING) \ {<<>>}
    /\ \A p \in DOMAIN Tree : Tree[p] \in Kinds

\* What is copied: its targets, the number of characters as text, whether it is
\* answered in chunks, the first line and the entries of the list of files.
FileEntry == {f \in [path : Seq(STRING), url : BOOLEAN] : f.url => f.path # <<>>}
Offer == [targets : SUBSET STRING, text : Nat, large : BOOLEAN, verb : STRING,
          files : Seq(FileEntry)]

\* wanted:  the kind of contents the command sends
\* version: of the protocol, once negotiated
\* auto:    sent by the automatic sender
\* removes: a file may be deleted meanwhile
\* offers:  what is copied one after the other
ASSUME SetupsAssumption ==
    Setups \subseteq [wanted : {"TEXT", "FILE"}, version : 1 .. 4, auto : BOOLEAN,
                     removes : BOOLEAN, offers : Seq(Offer) \ {<<>>}]

VARIABLES
    setup,     \* the situation, fixed at the start
    copied,    \* number of offers that have been copied
    alive,     \* offers whose program is running
    gone,      \* files that have been deleted
    pc,
    context,   \* of xcout, and how the call of doOut ended
    target,    \* what was asked for
    asked,     \* the offer whose program was asked, 0 for none
    serving,   \* what that program is going to write: chunks, an end, or nothing
    pty,       \* the property on the window of the request
    events,    \* X events not taken yet
    buf,       \* what has been read
    typed,     \* the offer whose type was accepted
    i,         \* number of the next entry of the list
    path_len,
    lst,       \* files and empty directories found
    announced, \* number of them that was sent, 0 before
    sent,      \* names and paths sent, or text
    response   \* last response of the callback

xVars    == <<context, target, asked, serving, pty, events, buf>>
listVars == <<i, path_len, lst>>
sendVars == <<announced, sent, response>>
envVars  == <<setup, copied, alive, gone>>
vars     == <<envVars, pc, xVars, typed, listVars, sendVars>>

offers  == setup.offers
owner   == IF copied \in alive THEN copied ELSE 0
Nothing == [kind |-> "none", data |-> <<>>]

TypeOK ==
    /\ setup \in Setups
    /\ copied \in DOMAIN offers /\ {asked, typed} \subseteq 0 .. copied
    /\ alive \subseteq 1 .. copied
    /\ gone \subseteq DOMAIN Tree
    /\ pc \in {"type", "connect", "retype", "data", "list", "announce", "transfer", "done"}
    /\ context \in {"NONE", "SENTCONVSEL", "INCR", "READ", "FAILED"}
    /\ target \in {"TARGETS", "UTF8_STRING", "STRING", FILES}
    /\ pty.kind \in {"none", "incr", "data"}
    /\ events \in Seq({"new", "deleted", "notify", "refused"})
    /\ i \in Nat \ {0} /\ path_len \in Nat
    /\ lst \in Seq([path : DOMAIN Tree, dir : BOOLEAN])
    /\ announced \in 0 .. Len(lst)
    /\ response \in {"none", "OK", "NO_DATA", "COMMUNICATION_FAILURE"}

Init ==
    /\ setup \in Setups
    /\ copied = 1 /\ alive = {1} /\ gone = {}
    /\ pc = "type"
    /\ context = "NONE" /\ target = "TARGETS" /\ asked = 0
    /\ serving = <<>> /\ pty = Nothing /\ events = <<>> /\ buf = <<>>
    /\ typed = 0
    /\ i = 1 /\ path_len = 0 /\ lst = <<>>
    /\ announced = 0 /\ sent = <<>> /\ response = "none"

-----------------------------------------------------------------------------
(* The programs of the user                                                *)

\* The next offer is copied; the program of an earlier one goes on answering
\* the requests it has.
Copy ==
    /\ pc # "done" /\ copied < Len(offers)
    /\ copied' = copied + 1
    /\ alive' = alive \cup {copied'}
    /\ UNCHANGED <<setup, gone, pc, xVars, typed, listVars, sendVars>>

Quit ==
    /\ pc # "done"
    /\ \E o \in alive : alive' = alive \ {o}
    /\ UNCHANGED <<setup, copied, gone, pc, xVars, typed, listVars, sendVars>>

Delete ==
    /\ pc # "done" /\ setup.removes /\ gone = {}
    /\ \E p \in DOMAIN Tree : Tree[p] = "file" /\ gone' = {p}
    /\ UNCHANGED <<setup, copied, alive, pc, xVars, typed, listVars, sendVars>>

\* The pieces of what offer o gives for a target: the names of its targets, the
\* characters of its text, or the first line of its list and the entries.
Contents(o, t) ==
    LET size == CASE t = "TARGETS" -> 1
                  [] t = FILES     -> 1 + Len(offers[o].files)
                  [] OTHER         -> offers[o].text
    IN  [k \in 1 .. size |-> <<o, t, k>>]

Asked == context = "SENTCONVSEL" /\ asked \in alive /\ events = <<>> /\ serving = <<>>

\* The program refuses the target, writes everything, or starts to write chunks.
Answer ==
    /\ Asked
    /\ \/ /\ target \notin offers[asked].targets \cup {"TARGETS"}
          /\ events' = <<"refused">>
          /\ UNCHANGED <<serving, pty>>
       \/ /\ target \in offers[asked].targets \cup {"TARGETS"}
          /\ events' = <<"new", "notify">>
          /\ IF offers[asked].large /\ target # "TARGETS"
             THEN /\ pty' = [kind |-> "incr", data |-> <<>>]
                  /\ serving' = [k \in 1 .. Len(Contents(asked, target)) |-> <<Contents(asked, target)[k]>>]
                                \o << <<>> >>
             ELSE /\ pty' = [kind |-> "data", data |-> Contents(asked, target)]
                  /\ UNCHANGED serving
    /\ UNCHANGED <<envVars, pc, context, target, asked, buf, typed, listVars, sendVars>>

\* The next chunk, and after the last one an empty property, each once the one
\* before has been deleted.
WriteChunk ==
    /\ asked \in alive
    /\ serving # <<>> /\ pty = Nothing
    /\ pty' = [kind |-> "data", data |-> Head(serving)]
    /\ serving' = Tail(serving)
    /\ events' = Append(events, "new")
    /\ UNCHANGED <<envVars, pc, context, target, asked, buf, typed, listVars, sendVars>>

-----------------------------------------------------------------------------
(* One call of xclip_util: doOut and xcout                                 *)

Reading == {"type", "retype", "data"}

FirstTarget ==
    IF pc \in {"type", "retype"} THEN "TARGETS"
    ELSE IF setup.wanted = "FILE" THEN FILES ELSE "UTF8_STRING"

\* XConvertSelection: the server passes the request on to the owner, or refuses
\* it at once if there is none.
Convert(t) ==
    /\ target' = t
    /\ asked' = owner
    /\ context' = "SENTCONVSEL"
    /\ events' = IF owner = 0 THEN <<"refused">> ELSE <<>>

\* A new display, a new window.
Open ==
    /\ pc \in Reading /\ context = "NONE"
    /\ Convert(FirstTarget)
    /\ serving' = <<>> /\ pty' = Nothing /\ buf' = <<>>
    /\ UNCHANGED <<envVars, pc, typed, listVars, sendVars>>

\* An event that means nothing here.
Ignored ==
    \/ context = "SENTCONVSEL" /\ Head(events) \in {"new", "deleted"}
    \/ context = "INCR" /\ Head(events) # "new"

Ignore ==
    /\ Ignored
    /\ events' = Tail(events)
    /\ UNCHANGED <<context, target, asked, serving, pty, buf>>

\* Mutant of Refused: the older kind of text is tried again and again
RefusedRetries ==
    /\ context = "SENTCONVSEL" /\ Head(events) = "refused"
    /\ Convert("STRING")
    /\ UNCHANGED <<serving, pty, buf>>

\* The owner does not have the target: the older kind of text is tried.
Refused ==
    /\ context = "SENTCONVSEL" /\ Head(events) = "refused"
    /\ IF target = "UTF8_STRING"
       THEN Convert("STRING")
       ELSE context' = "FAILED" /\ events' = Tail(events) /\ UNCHANGED <<target, asked>>
    /\ UNCHANGED <<serving, pty, buf>>

\* XDeleteProperty
TakeProperty ==
    /\ pty' = Nothing
    /\ events' = Append(Tail(events), "deleted")

ReadProperty ==
    /\ context = "SENTCONVSEL" /\ Head(events) = "notify"
    /\ IF pty.kind = "incr"
       THEN context' = "INCR" /\ UNCHANGED buf
       ELSE context' = "READ" /\ buf' = pty.data
    /\ TakeProperty
    /\ UNCHANGED <<target, asked, serving>>

\* Mutant of ReadChunk: the deletion of a property counts as a new one
ReadChunkAtAnyEvent ==
    /\ context = "INCR"
    /\ IF pty.data = <<>>
       THEN context' = "READ" /\ UNCHANGED buf
       ELSE buf' = buf \o pty.data /\ UNCHANGED context
    /\ TakeProperty
    /\ UNCHANGED <<target, asked, serving>>

ReadChunk ==
    /\ context = "INCR" /\ Head(events) = "new"
    /\ IF pty.data = <<>>
       THEN context' = "READ" /\ UNCHANGED buf
       ELSE buf' = buf \o pty.data /\ UNCHANGED context
    /\ TakeProperty
    /\ UNCHANGED <<target, asked, serving>>

TakeEvent ==
    /\ context \in {"SENTCONVSEL", "INCR"} /\ events # <<>>
    /\ Ignore \/ Refused \/ ReadProperty \/ ReadChunk
    /\ UNCHANGED <<envVars, pc, typed, listVars, sendVars>>

Returned == context \in {"READ", "FAILED"}

-----------------------------------------------------------------------------
(* What the request makes of it                                            *)

Respond(status) == pc' = "done" /\ response' = status

TextTargets == {"text/plain", "text/html", "UTF8_STRING", "TEXT"}

\* get_copied_type
TypeOf(targets) ==
    IF FILES \in targets THEN "FILE"
    ELSE IF targets \cap TextTargets # {} THEN "TEXT" ELSE "NONE"

CopiedType == IF context = "FAILED" \/ buf = <<>> THEN "NONE" ELSE TypeOf(offers[buf[1][1]].targets)

\* Mutant of CheckType: any contents will do
CheckTypeAny ==
    /\ pc = "type" /\ Returned
    /\ IF CopiedType # "NONE"
       THEN pc' = "connect" /\ typed' = asked /\ UNCHANGED response
       ELSE Respond("NO_DATA") /\ UNCHANGED typed
    /\ context' = "NONE"
    /\ UNCHANGED <<envVars, target, asked, serving, pty, events, buf, listVars, announced, sent>>

\* The callers ask for the type before they connect.
CheckType ==
    /\ pc = "type" /\ Returned
    /\ IF CopiedType = setup.wanted
       THEN pc' = "connect" /\ typed' = asked /\ UNCHANGED response
       ELSE Respond("NO_DATA") /\ UNCHANGED typed
    /\ context' = "NONE"
    /\ UNCHANGED <<envVars, target, asked, serving, pty, events, buf, listVars, announced, sent>>

\* A connection, a version and a method that is accepted.
Connect ==
    /\ pc = "connect"
    /\ pc' = IF setup.wanted = "FILE" THEN "retype" ELSE "data"
    /\ UNCHANGED <<envVars, xVars, typed, listVars, sendVars>>

\* get_copied_files_as_str asks again.
CheckTypeAgain ==
    /\ pc = "retype" /\ Returned
    /\ IF CopiedType = "FILE"
       THEN pc' = "data" /\ UNCHANGED response
       ELSE Respond("NO_DATA")
    /\ context' = "NONE"
    /\ UNCHANGED <<envVars, target, asked, serving, pty, events, buf, typed, listVars, announced, sent>>

SendText ==
    /\ pc = "data" /\ setup.wanted = "TEXT" /\ Returned
    /\ \/ /\ context = "FAILED" \/ Len(buf) \notin 1 .. max_text_length
          /\ Respond("NO_DATA") /\ UNCHANGED sent
       \/ /\ context = "READ" /\ Len(buf) \in 1 .. max_text_length
          /\ \/ Respond("OK") /\ sent' = buf
             \/ Respond("COMMUNICATION_FAILURE") /\ UNCHANGED sent
    /\ UNCHANGED <<envVars, xVars, typed, listVars, announced>>

\* The first line says whether the files were copied or cut; without a second
\* line there are none.
HaveFiles ==
    /\ pc = "data" /\ setup.wanted = "FILE" /\ Returned
    /\ IF context = "READ" /\ Len(buf) > 1 /\ offers[buf[1][1]].verb \in {"copy", "cut"}
       THEN pc' = "list" /\ UNCHANGED response
       ELSE Respond("NO_DATA")
    /\ UNCHANGED <<envVars, xVars, typed, listVars, announced, sent>>

-----------------------------------------------------------------------------
(* The list of files                                                       *)

entries == [k \in 1 .. Len(buf) - 1 |-> offers[buf[k + 1][1]].files[buf[k + 1][3] - 1]]

Kind(p) == IF p \in DOMAIN Tree \ gone THEN Tree[p] ELSE "missing"

Children(p) == {q \in DOMAIN Tree \ gone : Len(q) = Len(p) + 1 /\ IsPrefix(p, q)}

File(p)    == [path |-> p, dir |-> FALSE]
LeafDir(p) == [path |-> p, dir |-> TRUE]

\* _recurse_dir and _process_path: regular files, and empty directories for
\* version 3 and later; links are not followed, nor more than some levels.
OneLevel(below) ==
    [p \in DOMAIN Tree |->
       IF Kind(p) = "locked" THEN {}
       ELSE IF Children(p) = {} THEN IF setup.version >= 3 THEN {LeafDir(p)} ELSE {}
       ELSE {File(q) : q \in {c \in Children(p) : Kind(c) = "file"}}
            \cup UNION {below[q] : q \in {c \in Children(p) : Kind(c) \in {"dir", "locked"}}}]

RecurseDir[levels \in 0 .. MAX_RECURSE_DEPTH] ==
    IF levels = 0 THEN [p \in DOMAIN Tree |-> {}] ELSE OneLevel(RecurseDir[levels - 1])

\* What one entry adds; stat follows a link.  Version 1 has no directories.
Found(p) ==
    CASE Kind(p) \in {"file", "link"} -> {File(p)}
      [] Kind(p) \in {"dir", "locked"} /\ setup.version > 1 -> RecurseDir[MAX_RECURSE_DEPTH][p]
      [] OTHER -> {}

\* Mutant of AfterEntry: an entry that is missing ends the list
AfterEntryStops(p) == IF Kind(p) = "missing" THEN Len(entries) + 1 ELSE i + 1

\* The entry after one that is neither a file nor a directory is looked for at
\* the same place, where it cannot be: the list ends.
AfterEntry(p) ==
    IF Kind(p) = "special" /\ setup.version > 1 THEN Len(entries) + 1 ELSE i + 1

\* Mutant of PathLen: the directory of every entry
PathLenOfEach(p) == IF setup.version > 1 THEN Len(p) - 1 ELSE path_len

\* The length of the directory of the first entry, counted in names.
PathLen(p) == IF i = 1 /\ setup.version > 1 THEN Len(p) - 1 ELSE path_len

\* url_decode refuses an entry that is not a file:// URL, and the list ends.
MoreEntries == i <= Len(entries) /\ entries[i].url

ListEntry ==
    /\ pc = "list"
    /\ MoreEntries
    /\ LET p == entries[i].path
       IN  /\ path_len' = PathLen(p)
           /\ lst' = lst \o SetToSeq(Found(p))
           /\ i' = AfterEntry(p)
    /\ UNCHANGED <<envVars, pc, xVars, typed, sendVars>>

\* An empty list is answered; one that is too long to be sent automatically is
\* dropped without a response.
EndOfList ==
    /\ pc = "list"
    /\ ~MoreEntries
    /\ IF lst = <<>>
       THEN Respond("NO_DATA")
       ELSE /\ pc' = IF setup.auto /\ Len(lst) > auto_send_max_files THEN "done" ELSE "announce"
            /\ UNCHANGED response
    /\ UNCHANGED <<envVars, xVars, typed, listVars, announced, sent>>

Announce ==
    /\ pc = "announce"
    /\ \/ /\ pc' = "transfer"
          /\ announced' = IF setup.version > 1 THEN Len(lst) ELSE 0
          /\ UNCHANGED response
       \/ /\ setup.version > 1
          /\ Respond("COMMUNICATION_FAILURE") /\ UNCHANGED announced
    /\ UNCHANGED <<envVars, xVars, typed, listVars, sent>>

\* Version 1 sends one file.
ToSend == IF setup.version = 1 THEN 1 ELSE Len(lst)

\* The name is what follows the directory of the first entry; beyond the end of
\* a path that is shorter there may be anything.
NameOf(p) ==
    IF setup.version = 1 THEN <<Last(p)>>
    ELSE IF Len(p) > path_len THEN SubSeq(p, path_len + 1, Len(p)) ELSE <<"?">>

Transfer ==
    /\ pc = "transfer" /\ Len(sent) < ToSend
    /\ LET item == lst[Len(sent) + 1]
       IN  /\ item.dir \/ Kind(item.path) # "missing"
           /\ sent' = Append(sent, [name |-> NameOf(item.path), path |-> item.path, dir |-> item.dir])
    /\ UNCHANGED <<envVars, pc, xVars, typed, listVars, announced, response>>

\* A file that cannot be opened or is too large, or a connection that fails.
TransferFails ==
    /\ pc = "transfer" /\ Len(sent) < ToSend
    /\ pc' = "done" /\ response' \in {response, "COMMUNICATION_FAILURE"}
    /\ UNCHANGED <<envVars, xVars, typed, listVars, announced, sent>>

Finish ==
    /\ pc = "transfer" /\ Len(sent) = ToSend
    /\ Respond("OK")
    /\ UNCHANGED <<envVars, xVars, typed, listVars, announced, sent>>

-----------------------------------------------------------------------------
UserStep    == Copy \/ Quit \/ Delete
OwnerStep   == Answer \/ WriteChunk
RequestStep ==
    \/ Open \/ TakeEvent \/ CheckType \/ Connect \/ CheckTypeAgain \/ SendText \/ HaveFiles
    \/ ListEntry \/ EndOfList \/ Announce \/ Transfer \/ TransferFails \/ Finish

Next == UserStep \/ OwnerStep \/ RequestStep

Spec == Init /\ [][Next]_vars

\* A program that owns the clipboard answers as long as it runs.
FairSpec == Spec /\ WF_vars(OwnerStep) /\ WF_vars(RequestStep)

-----------------------------------------------------------------------------
(* Properties                                                              *)

\* Whatever the user copies meanwhile, and however the contents are cut into
\* chunks: what a call of doOut returns is what one program gave for one target,
\* all of it and in order.
WholeContents ==
    context = "READ" /\ buf # <<>> => buf = Contents(buf[1][1], buf[1][2])

\* In every state: well formed, and nothing is used that is only a part.
SelectionInv == TypeOK /\ WholeContents

\* The contents are asked for after the type.  They are of the kind the type
\* promised unless something else was copied in between, and they are never
\* older than the type.
ContentsFitType ==
    pc \notin Reading \cup {"connect"} /\ response # "NO_DATA" =>
        LET o == buf[1][1]
        IN  /\ o >= typed
            /\ setup.wanted = "FILE" \/ o = typed => TypeOf(offers[o].targets) = setup.wanted

\* The entries the list is made from: an entry that is not a file:// URL, or one
\* that is neither file nor directory, ends the list silently.
Usable ==
    {k \in DOMAIN entries :
       /\ \A j \in 1 .. k : entries[j].url
       /\ setup.version = 1
          \/ \A j \in 1 .. k - 1 : <<entries[j].path, "special">> \notin {<<p, Tree[p]>> : p \in DOMAIN Tree}}

Directories == {p \in DOMAIN Tree : Tree[p] = "dir"}

\* The files below an entry that no limit and no permission hides.
FilesOf(p) ==
    IF p \notin Directories THEN {p} \cap {q \in DOMAIN Tree : Tree[q] \in {"file", "link"}}
    ELSE {q \in DOMAIN Tree :
            /\ setup.version > 1 /\ Tree[q] = "file"
            /\ IsStrictPrefix(p, q) /\ Len(q) - Len(p) <= MAX_RECURSE_DEPTH
            /\ \A n \in Len(p) .. Len(q) - 1 : SubSeq(q, 1, n) \in Directories}

Selected == UNION {FilesOf(entries[k].path) : k \in Usable}

\* No entry is another one or lies below it.
Apart == \A j, k \in Usable : IsPrefix(entries[j].path, entries[k].path) => j = k

\* Only files that were selected are sent.  Success means that as many entries
\* were sent as had been announced, and among them every selected file that still
\* exists, once unless an entry lies below another; version 1 sends one of them.
OkSendsAll ==
    setup.wanted = "FILE" /\ sent # <<>> =>
        LET files == {k \in DOMAIN sent : ~sent[k].dir}
            paths == {sent[k].path : k \in files}
        IN  /\ paths \subseteq Selected
            /\ response = "OK" =>
                 \/ setup.version = 1 /\ Len(sent) = 1
                 \/ /\ Len(sent) = announced
                    /\ Selected \ gone \subseteq paths
                    /\ Apart => Cardinality(paths) = Cardinality(files)

\* The name that is sent for a file, together with the directory the files were
\* copied in, is its path.  The directory is taken from the first entry, so the
\* names of files elsewhere are not covered.
NamesFollowTree ==
    setup.wanted = "FILE" /\ setup.version > 1 /\ sent # <<>> =>
        LET dir == Front(entries[1].path)
        IN  \A k \in DOMAIN sent :
               IsStrictPrefix(dir, sent[k].path) => dir \o sent[k].name = sent[k].path

\* The program that was asked has ended and cannot finish its answer.
Unanswered == context \in {"SENTCONVSEL", "INCR"} /\ asked # 0 /\ asked \notin alive

\* Without a timeout in doOut the request ends all the same, unless the program
\* that was asked ends first.
RequestEnds == <>(pc = "done") \/ <>[]Unanswered

=============================================================================
