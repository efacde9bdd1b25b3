----------------------------- MODULE Receiving ------------------------------
(***************************************************************************)
(* How received files get into the working directory (proto/methods.c,     *)
(* _get_files_dirs and below): they are saved in a new temporary directory *)
(* of the working directory, and its entries are renamed one by one once   *)
(* all have arrived.                                                       *)
(*                                                                         *)
(* The web client and a command, or two commands, are processes of their   *)
(* own that may stand in the same directory.  Each step below is one call  *)
(* of the file system, or several that no other process can tell from one. *)
(***************************************************************************)
EXTENDS Naturals, Sequences

CONSTANTS
    Transfers,      \* transfers of files, each with its own connection
    Existing,       \* names of files the user has in the working directory
    CONFIG_FILE,    \* name of the configuration file
    WorkingDirSet,  \* working_dir is configured
    Version,        \* negotiated version of all transfers
    DirIds,         \* names of temporary directories: time or rand()
    MaxNumber,      \* the last number that is put before a name: 999999
    Numbered,       \* Numbered[k][n] is the name "k_n"
    Setups          \* the situations to explore, see SetupsAssumption

ASSUME WorkingDirSetAssumption == WorkingDirSet \in BOOLEAN
ASSUME VersionAssumption == Version \in 1 .. 4

DIR == "/"

\* A path is the name of a file, and since version 2 also a name in a directory.
IsPath(p) == p = <<p[1]>> \/ (Version > 1 /\ p = <<p[1], p[2]>>)

AllPaths == {<<n>> : n \in Existing} \cup
            UNION {UNION {s.incoming[t] : t \in Transfers} : s \in Setups}
Bases == {CONFIG_FILE} \cup {p[1] : p \in AllPaths}
Paths == AllPaths \cup {<<n, DIR>> : n \in Bases}

\* No name is that of the working directory, and none has a slash.
ASSUME NamesAssumption == "." \notin DirIds /\ "user" \notin Transfers /\ DIR \notin Bases

\* There is a numbered name for every name, which may be a name that another
\* file has without a number; the name of the configuration file is not one.
ASSUME NumberedAssumption ==
    /\ MaxNumber \in Nat \ {0}
    /\ \A k \in 1 .. MaxNumber : /\ Bases \subseteq DOMAIN Numbered[k]
                               /\ \A n \in Bases : Numbered[k][n] # CONFIG_FILE

\* incoming:   for each transfer the paths it brings: <<name>> for a file,
\*             <<name, part>> for a file in a directory, and <<name, DIR>> for a
\*             directory that is empty
\* together:   transfers may overlap
\* sameSecond: overlapping transfers may choose the same directory
\* kills:      a process may be stopped at any point
\* fullDisk:   fclose may fail to write what is left in its buffer
ASSUME SetupsAssumption ==
    \A s \in Setups : /\ s.incoming \in [Transfers -> SUBSET AllPaths]
                      /\ {s.together, s.sameSecond, s.kills, s.fullDisk} \subseteq BOOLEAN
                      /\ \A t \in Transfers : \A p \in s.incoming[t] : IsPath(p)

VARIABLES
    setup,    \* the situation, fixed at the start
    dirs,     \* temporary directories that exist
    entries,  \* what is in the directories, see Entry
    written,  \* files whose content has arrived completely, and directories
    torn,     \* files whose end was lost when they were closed
    spoiled,  \* files that two transfers wrote at the same time
    pc,       \* where each transfer is
    tmp,      \* dirname of each transfer
    left,     \* names still to arrive
    cur,      \* file being received
    todo,     \* names still to be moved
    dest,     \* the next one: its name, and the name chosen for it
    failed,   \* status is EXIT_FAILURE
    acked     \* transfers whose server got the acknowledgement

transferVars == <<pc, tmp, left, cur, todo, dest, failed>>
vars == <<setup, dirs, entries, written, torn, spoiled, transferVars, acked>>

WORK == "."

Incoming == setup.incoming

\* A file gets the name that it has at the server, or that name with the prefix
\* "k_", see NewName.
NameWith(k, n) == IF k = 0 THEN n ELSE Numbered[k][n]
MayGet(n) == {NameWith(k, n) : k \in 0 .. MaxNumber}
Name == UNION {MayGet(n) : n \in Bases}

\* A file or directory is known by who created it and under which path.  What is
\* in a directory has one entry for the name there that leads to it.
File  == (Transfers \cup {"user"}) \X Paths
Entry == [dir : DirIds \cup {WORK}, name : Name, file : File]

None == <<"none">>

TypeOK ==
    /\ setup \in Setups
    /\ dirs \subseteq DirIds
    /\ entries \subseteq Entry
    /\ {written, torn, spoiled} \subseteq SUBSET File
    /\ pc \in [Transfers -> {"start", "pick", "mkdir", "check", "open", "write", "list",
                             "choose", "rename", "rmdir", "ack", "done"}]
    /\ tmp \in [Transfers -> DirIds \cup {WORK}]
    /\ left \in [Transfers -> SUBSET Paths]
    /\ cur \in [Transfers -> File \cup {None}]
    /\ dest \in [Transfers -> (Bases \X Name) \cup {None}]
    /\ todo \in [Transfers -> SUBSET Bases]
    /\ failed \in [Transfers -> BOOLEAN]
    /\ acked \subseteq Transfers

Init ==
    /\ setup \in Setups
    /\ dirs = {}
    /\ entries = {[dir |-> WORK, name |-> n, file |-> <<"user", <<n>>>>] : n \in Existing}
    /\ written = {<<"user", <<n>>>> : n \in Existing}
    /\ torn = {} /\ spoiled = {}
    /\ pc = [t \in Transfers |-> "start"]
    /\ tmp = [t \in Transfers |-> WORK]
    /\ left = Incoming
    /\ cur = [t \in Transfers |-> None]
    /\ todo = [t \in Transfers |-> {}]
    /\ dest = [t \in Transfers |-> None]
    /\ failed = [t \in Transfers |-> FALSE]
    /\ acked = {}

-----------------------------------------------------------------------------
At(dir, name) == {e \in entries : e.dir = dir /\ e.name = name}
Exists(dir, name) == At(dir, name) # {}
IsDir(dir, name) == \E e \in At(dir, name) : Len(e.file[2]) = 2

\* What a received path leads to in a temporary directory.
AtPath(dir, p) == {e \in At(dir, p[1]) : Tail(e.file[2]) = Tail(p)}
Taken(dir, p) == IF p[Len(p)] = DIR THEN Exists(dir, p[1]) ELSE AtPath(dir, p) # {}

Step(t, from, to) == pc[t] = from /\ pc' = [pc EXCEPT ![t] = to]

\* The transfer returns EXIT_FAILURE.
Fails(t, from) ==
    /\ Step(t, from, "done")
    /\ failed' = [failed EXCEPT ![t] = TRUE]

Start(t) ==
    /\ Step(t, "start", "pick")
    /\ setup.together \/ \A u \in Transfers : pc[u] \in {"start", "done"}
    /\ UNCHANGED <<dirs, entries, written, torn, spoiled, tmp, left, cur, todo, dest, failed, acked>>

\* The loop that looks for a name no file has.
PickDir(t) ==
    /\ Step(t, "pick", "mkdir")
    /\ \E d \in DirIds \ dirs :
          /\ setup.sameSecond \/ \A u \in Transfers : tmp[u] # d
          /\ tmp' = [tmp EXCEPT ![t] = d]
    /\ UNCHANGED <<dirs, entries, written, torn, spoiled, left, cur, todo, dest, failed, acked>>

\* mkdirs is satisfied with a directory that exists by now.
MakeDir(t) ==
    /\ Step(t, "mkdir", "check")
    /\ dirs' = dirs \cup {tmp[t]}
    /\ UNCHANGED <<entries, written, torn, spoiled, tmp, left, cur, todo, dest, failed, acked>>

\* The directory a path leads through, as an entry of its own.
NewDir(t, p) ==
    IF Len(p) = 1 \/ Exists(tmp[t], p[1]) THEN {}
    ELSE {[dir |-> tmp[t], name |-> p[1], file |-> <<t, <<p[1], DIR>>>>]}

\* A name arrives: its parent directories are made and it is looked up.  Neither
\* a file that is in the way of a directory nor an entry of that name will do.
CheckName(t) ==
    \E p \in left[t] :
       LET parents == IF p[Len(p)] = DIR THEN {} ELSE NewDir(t, p)
           blocked == Len(p) = 2 /\ p[2] # DIR /\ Exists(tmp[t], p[1]) /\ ~IsDir(tmp[t], p[1])
       IN  /\ IF blocked \/ Taken(tmp[t], p)
              THEN Fails(t, "check")
              ELSE Step(t, "check", "open") /\ UNCHANGED failed
           /\ cur' = [cur EXCEPT ![t] = <<t, p>>]
           /\ dirs' = IF Version > 1 THEN dirs \cup {tmp[t]} ELSE dirs
           /\ entries' = entries \cup parents
           /\ written' = written \cup {e.file : e \in parents}
           /\ UNCHANGED <<torn, spoiled, tmp, left, todo, dest, acked>>

AfterItem(t, p) == IF left[t] \ {p} = {} THEN "list" ELSE "check"

\* The size arrives and the file is opened for writing, if the directories are
\* still there; an entry that another transfer made in between is truncated and
\* shared.
OpenFile(t) ==
    LET p      == cur[t][2]
        shared == {e.file : e \in AtPath(tmp[t], p)}
    IN  /\ Step(t, "open", "write")
        /\ p[Len(p)] # DIR
        /\ tmp[t] \in dirs /\ (Len(p) = 2 => IsDir(tmp[t], p[1]))
        /\ \/ /\ shared = {}
              /\ ~Exists(tmp[t], p[1]) \/ Len(p) = 2
              /\ entries' = entries \cup {[dir |-> tmp[t], name |-> p[1], file |-> cur[t]]}
              /\ UNCHANGED <<spoiled, cur>>
           \/ /\ shared # {}
              /\ spoiled' = spoiled \cup shared
              /\ cur' = [cur EXCEPT ![t] = CHOOSE f \in shared : TRUE]
              /\ UNCHANGED entries
        /\ left' = [left EXCEPT ![t] = @ \ {p}]
        /\ UNCHANGED <<dirs, written, torn, tmp, todo, dest, failed, acked>>

\* The size of an empty directory arrives, which is -1; mkdirs also makes the
\* directories that lead there, and is satisfied with one that exists by now.
MakeLeafDir(t) ==
    LET p == cur[t][2]
    IN  /\ Step(t, "open", AfterItem(t, p))
        /\ p[Len(p)] = DIR /\ Version >= 3
        /\ Exists(tmp[t], p[1]) => IsDir(tmp[t], p[1])
        /\ dirs' = dirs \cup {tmp[t]}
        /\ entries' = entries \cup NewDir(t, p)
        /\ written' = written \cup {e.file : e \in NewDir(t, p)}
        /\ left' = [left EXCEPT ![t] = @ \ {p}]
        /\ UNCHANGED <<torn, spoiled, tmp, cur, todo, dest, failed, acked>>

\* The directory cannot be made or read, the name or the size does not arrive
\* or is refused, or the file cannot be opened.
NotReceived(t) ==
    /\ \E at \in {"mkdir", "check", "open", "list"} : Fails(t, at)
    /\ UNCHANGED <<dirs, entries, written, torn, spoiled, tmp, left, cur, todo, dest, acked>>

\* The rest of the file arrives and it is closed; what fclose returns is not
\* looked at.
WriteFile(t) ==
    /\ Step(t, "write", AfterItem(t, cur[t][2]))
    /\ \/ written' = written \cup {cur[t]} /\ UNCHANGED torn
       \/ setup.fullDisk /\ torn' = torn \cup {cur[t]} /\ UNCHANGED written
    /\ UNCHANGED <<dirs, entries, spoiled, tmp, left, cur, todo, dest, failed, acked>>

\* Mutant of WriteFails: the next file is received all the same.
WriteFailureIgnored(t) ==
    /\ Step(t, "write", AfterItem(t, cur[t][2]))
    /\ UNCHANGED <<dirs, entries, written, torn, spoiled, tmp, left, cur, todo, dest, failed, acked>>

\* The connection or the disk fails in the middle: what is at that path is
\* removed, the temporary directory stays.
WriteFails(t) ==
    /\ Fails(t, "write")
    /\ entries' = entries \ AtPath(tmp[t], cur[t][2])
    /\ UNCHANGED <<dirs, written, torn, spoiled, tmp, left, cur, todo, dest, acked>>

-----------------------------------------------------------------------------
(* Moving the files into the working directory *)

ListDir(t) ==
    /\ Step(t, "list", "choose")
    /\ tmp[t] \in dirs
    /\ todo' = [todo EXCEPT ![t] = {e.name : e \in {x \in entries : x.dir = tmp[t]}}]
    /\ UNCHANGED <<dirs, entries, written, torn, spoiled, tmp, left, cur, dest, failed, acked>>

\* Mutants of NewName: whatever has the name already is not looked at; the
\* name of the configuration file is a name like any other.
SameName(n) == n
NumberedName(n) ==
    NameWith(CHOOSE k \in 0 .. MaxNumber :
                /\ ~Exists(WORK, NameWith(k, n))
                /\ \A j \in 0 .. k - 1 : Exists(WORK, NameWith(j, n)), n)

\* The numbers that lead to a name no file has; the name of the configuration
\* file is never taken where the program looks for it.
FreeNumbers(n) ==
    {k \in (IF WorkingDirSet \/ n # CONFIG_FILE THEN 0 ELSE 1) .. MaxNumber : ~Exists(WORK, NameWith(k, n))}

\* The first of "name", "1_name", "2_name", ... that is free.
NewName(n) == NameWith(CHOOSE k \in FreeNumbers(n) : \A j \in FreeNumbers(n) : k <= j, n)

\* A file for which all names are taken stays where it is.
ChooseName(t) ==
    /\ \/ /\ Step(t, "choose", "rename")
          /\ \E n \in todo[t] : FreeNumbers(n) # {} /\ dest' = [dest EXCEPT ![t] = <<n, NewName(n)>>]
          /\ UNCHANGED <<todo, failed>>
       \/ /\ Step(t, "choose", "choose")
          /\ \E n \in todo[t] : FreeNumbers(n) = {} /\ todo' = [todo EXCEPT ![t] = @ \ {n}]
          /\ failed' = [failed EXCEPT ![t] = TRUE]
          /\ UNCHANGED dest
       \/ Step(t, "choose", "rmdir") /\ todo[t] = {} /\ UNCHANGED <<todo, dest, failed>>
    /\ UNCHANGED <<dirs, entries, written, torn, spoiled, tmp, left, cur, acked>>

\* rename replaces a file by a file and an empty directory by a directory; it
\* fails otherwise, and without the old name.
Replaceable(moved, old) ==
    \/ old = {}
    \/ \A e \in moved \cup old : Len(e.file[2]) = 1
    \/ (\E e \in moved : Len(e.file[2]) = 2) /\ (\A e \in old : e.file[2][Len(e.file[2])] = DIR)

Rename(t) ==
    LET filename == dest[t][1]
        new_path == dest[t][2]
        moved    == At(tmp[t], filename)
    IN  /\ Step(t, "rename", "choose")
        /\ todo' = [todo EXCEPT ![t] = @ \ {filename}]
        /\ \/ /\ moved # {} /\ Replaceable(moved, At(WORK, new_path))
              /\ entries' = (entries \ (moved \cup At(WORK, new_path)))
                            \cup {[dir |-> WORK, name |-> new_path, file |-> e.file] : e \in moved}
              /\ UNCHANGED failed
           \/ /\ failed' = [failed EXCEPT ![t] = TRUE]  \* also a disk that fails
              /\ UNCHANGED entries
        /\ UNCHANGED <<dirs, written, torn, spoiled, tmp, left, cur, dest, acked>>

\* The directory is removed only if every file could be moved.
RemoveDir(t) ==
    /\ Step(t, "rmdir", "ack")
    /\ \/ /\ ~failed[t] /\ tmp[t] \in dirs /\ \A e \in entries : e.dir # tmp[t]
          /\ dirs' = dirs \ {tmp[t]} /\ UNCHANGED failed
       \/ /\ failed[t] \/ tmp[t] \notin dirs \/ \E e \in entries : e.dir = tmp[t]
          /\ failed' = [failed EXCEPT ![t] = TRUE] /\ UNCHANGED dirs
    /\ UNCHANGED <<entries, written, torn, spoiled, tmp, left, cur, todo, dest, acked>>

\* Mutant of Acknowledge: the status is not looked at.
AcknowledgeAlways(t) ==
    /\ Step(t, "ack", "done")
    /\ acked' = acked \cup {t}
    /\ UNCHANGED <<dirs, entries, written, torn, spoiled, tmp, left, cur, todo, dest, failed>>

Acknowledge(t) ==
    /\ Step(t, "ack", "done")
    /\ acked' = IF Version >= 4 /\ ~failed[t] THEN acked \cup {t} ELSE acked
    /\ UNCHANGED <<dirs, entries, written, torn, spoiled, tmp, left, cur, todo, dest, failed>>

-----------------------------------------------------------------------------
\* SIGTERM of another instance, or the end of the session, at any point.
Killed(t) ==
    /\ setup.kills
    /\ pc[t] \notin {"start", "done"}
    /\ pc' = [pc EXCEPT ![t] = "done"]
    /\ failed' = [failed EXCEPT ![t] = TRUE]
    /\ UNCHANGED <<dirs, entries, written, torn, spoiled, tmp, left, cur, todo, dest, acked>>

Advance(t) ==
    \/ Start(t) \/ PickDir(t) \/ MakeDir(t) \/ CheckName(t) \/ OpenFile(t) \/ MakeLeafDir(t) \/ NotReceived(t)
    \/ WriteFile(t) \/ WriteFails(t) \/ ListDir(t) \/ ChooseName(t) \/ Rename(t)
    \/ RemoveDir(t) \/ Acknowledge(t)

Terminated == (\A t \in Transfers : pc[t] = "done") /\ UNCHANGED vars

Next ==
    \/ \E t \in Transfers : (Advance(t) \/ Killed(t)) /\ UNCHANGED setup
    \/ Terminated

Spec == Init /\ [][Next]_vars
FairSpec == Spec /\ \A t \in Transfers : WF_vars(Advance(t) /\ UNCHANGED setup)

-----------------------------------------------------------------------------
(* Properties *)

Placed == {e \in entries : e.dir = WORK}

\* No two entries that overlapping transfers bring may get the same name: "1_a"
\* may also be the numbered name of "a".
Apart ==
    setup.together =>
       \A t, u \in Transfers : \A p \in Incoming[t] : \A q \in Incoming[u] :
          <<t, p[1]>> # <<u, q[1]>> => MayGet(p[1]) \cap MayGet(q[1]) = {}

\* "if new_path already exists, use a different file name": what the user has in
\* the working directory stays there under its name, and so does what earlier
\* transfers brought, also when transfers share a temporary directory.  If they
\* overlap and bring entries that may get the same name, one of them may take the
\* name chosen by the other between the check and the renaming, and be replaced.
KeptApart == [][\A e \in Placed : Apart \/ e.file[1] = "user" => e \in entries']_vars

\* The server is told that its files arrived only when all of them are in the
\* working directory, complete, even if another transfer moved some of them and
\* whenever a process was stopped; and those of one directory are under one name,
\* unless another transfer moved the directory away while it was being filled.
\* A file that could not be closed is the exception.
AckedFilesPlaced ==
    Apart => \A t \in acked : \A p \in Incoming[t] :
       /\ <<t, p>> \in (written \cup torn) \ spoiled
       /\ \E e \in Placed : e.file = <<t, p>>
       /\ ~setup.sameSecond => \A e \in Placed : e.file[1] = t /\ e.file[2][1] = p[1] =>
             \E d \in Placed : d.file = <<t, p>> /\ d.name = e.name

\* Other programs never see a part of a file in the working directory, unless
\* two transfers share a temporary directory or the file could not be closed.
NoPartialFile == ~setup.sameSecond => \A e \in Placed : e.file \in (written \cup torn) \ spoiled

\* "do not create file named clipshare-desktop.conf": no received file becomes
\* the configuration of the next start.
ConfigurationKept ==
    \A e \in Placed : ~WorkingDirSet /\ e.name = CONFIG_FILE => e.file[1] = "user"

\* In every state: well formed, and the configuration is that of the user.
ReceivingInv == TypeOK /\ ConfigurationKept
=============================================================================
