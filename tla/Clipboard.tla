----------------------------- MODULE Clipboard ------------------------------
(***************************************************************************)
(* How received data gets onto the X11 clipboard, and how the automatic    *)
(* sender tells it from what the user copied.                              *)
(*                                                                         *)
(* A handler that received text or files leaves them in the global         *)
(* pending_data (utils/utils.c).  After the request a new thread of the    *)
(* web client (gui_client.c) or a forked process of the command line       *)
(* (cli_client.c) runs set_pending_clipboard_item: it creates the marker   *)
(* file, takes the selection and serves it (xclip/xclip.c, doIn) until     *)
(* another program takes it.  The listener of the automatic sender         *)
(* (utils/listener_linux.c) wakes up at every change of the owner.         *)
(***************************************************************************)
EXTENDS Naturals, Sequences, FiniteSets

CONSTANTS
    MaxSetters,    \* bound: runs of set_pending_clipboard_item
    MaxItems,      \* bound: items received
    Setups         \* the situations to explore, see SetupsAssumption

\* web:          the requests come from the web page, else from commands
\* listens:      the automatic sender is running
\* large:        received items that take more than one X request
\* displayFails: XOpenDisplay may fail
\* patient:      the user does one thing at a time, see Quiet
\* items, copies, pastes: how often something is received, copied, and pasted
ASSUME BoundsAssumption == {MaxSetters, MaxItems} \subseteq Nat
ASSUME SetupsAssumption ==
    \A s \in Setups :
       /\ {s.web, s.listens, s.displayFails, s.patient} \subseteq BOOLEAN
       /\ s.items \in 0 .. MaxItems /\ s.large \subseteq 1 .. s.items
       /\ {s.copies, s.pastes} \subseteq Nat
       /\ ~s.web => s.items <= MaxSetters

VARIABLES
    setup,     \* the situation, fixed at the start
    received,  \* number of items received so far
    handler,   \* "idle", "posted" at the end of a request, "dead" after a crash
    pend,      \* per process: pending_data and whether pending_type is set
    cwd,       \* per process: where it stands
    landed,    \* directories in which received files were stored
    setters,   \* number of runs of set_pending_clipboard_item so far
    step,      \* where each run is
    buf,       \* sel_buf of each run
    events,    \* X events each run has not taken yet
    clear,     \* per process: static clear of doIn
    incr,      \* per process: reader of the chunked transfer, static context of doIn
    pos,       \* per process: chunks of it sent so far, static sel_pos of doIn
    owner,     \* owner of the selection
    marker,    \* the file TEMP_FILE exists
    notices,   \* owner changes the listener has not taken yet
    reader,    \* where each program is that reads the clipboard
    got,       \* what each of them has read
    copies, pastes,
    hurried    \* the user has done something before the last thing took effect

requestVars  == <<received, handler, landed, setters>>
processVars  == <<pend, cwd, clear, incr, pos>>
setterVars   == <<step, buf, events>>
desktopVars  == <<owner, marker, notices, reader, got, copies, pastes>>
vars == <<setup, requestVars, processVars, setterVars, desktopVars, hurried>>

Setters == 1 .. MaxSetters
Readers == {"app", "listener"}

\* All runs for the web client are threads of one process; every command that
\* received something leaves a process of its own behind.
Procs   == IF setup.web THEN {0} ELSE Setters
Proc(s) == IF setup.web THEN 0 ELSE s

Nobody    == [who |-> "nobody", id |-> 0]
User(c)   == [who |-> "user", id |-> c]
Setter(s) == [who |-> "setter", id |-> s]
Item(i)   == [who |-> "item", id |-> i]

Nothing == [data |-> 0, set |-> FALSE]
NumChunks == 2  \* of an item in setup.large

TypeOK ==
    /\ setup \in Setups
    /\ received \in 0 .. setup.items /\ setters \in 0 .. MaxSetters
    /\ copies \in 0 .. setup.copies /\ pastes \in 0 .. setup.pastes /\ notices \in Nat
    /\ handler \in {"idle", "posted", "dead"}
    /\ pend \in [Procs -> [data : 0 .. setup.items, set : BOOLEAN]]
    /\ cwd \in [Procs -> {"working_dir", "/"}]
    /\ landed \subseteq {"working_dir", "/"}
    /\ step \in [Setters -> {"new", "start", "open", "own", "serve", "done"}]
    /\ buf \in [Setters -> 0 .. setup.items]
    /\ events \in [Setters -> Seq([kind : {"types", "data", "deleted", "clear"},
                                   reader : Readers \cup {"none"}])]
    /\ clear \in [Procs -> BOOLEAN]
    /\ incr \in [Procs -> Readers \cup {"none"}]
    /\ pos \in [Procs -> 0 .. NumChunks]
    /\ owner \in [who : {"nobody", "user", "setter"}, id : Nat]
    /\ marker \in BOOLEAN /\ hurried \in BOOLEAN
    /\ reader \in [Readers -> {"idle", "types", "typed", "data", "chunk"}]
    /\ got \in [Readers -> SUBSET [who : {"user", "item"}, id : Nat]]

Init ==
    /\ setup \in Setups
    /\ received = 0 /\ setters = 0 /\ copies = 0 /\ pastes = 0 /\ notices = 0
    /\ handler = "idle"
    /\ pend = [p \in Procs |-> Nothing]
    /\ cwd = [p \in Procs |-> "working_dir"]
    /\ landed = {}
    /\ step = [s \in Setters |-> "new"]
    /\ buf = [s \in Setters |-> 0]
    /\ events = [s \in Setters |-> <<>>]
    /\ clear = [p \in Procs |-> FALSE]
    /\ incr = [p \in Procs |-> "none"]
    /\ pos = [p \in Procs |-> 0]
    /\ owner = Nobody
    /\ marker = FALSE /\ hurried = FALSE
    /\ reader = [r \in Readers |-> "idle"]
    /\ got = [r \in Readers |-> {}]

-----------------------------------------------------------------------------
(* The X server *)

\* XSetSelectionOwner: the old owner is told, and so is the listener.
TakeSelection(new) ==
    /\ owner' = new
    /\ events' = IF owner.who = "setter"
                 THEN [events EXCEPT ![owner.id] =
                                        Append(@, [kind |-> "clear", reader |-> "none"])]
                 ELSE events
    /\ notices' = IF setup.listens THEN notices + 1 ELSE notices

\* XConvertSelection: the request goes to whoever owns the selection now.
\* Other programs answer at once, and without an owner it is refused.
Ask(r, kind) ==
    CASE owner.who = "setter" ->
           /\ events' = [events EXCEPT ![owner.id] =
                                          Append(@, [kind |-> kind, reader |-> r])]
           /\ reader' = [reader EXCEPT ![r] = kind]
           /\ UNCHANGED got
      [] owner.who = "user" ->
           /\ reader' = [reader EXCEPT ![r] = IF kind = "types" THEN "typed" ELSE "idle"]
           /\ got' = [got EXCEPT ![r] = IF kind = "types" THEN @ ELSE @ \cup {owner}]
           /\ UNCHANGED events
      [] owner.who = "nobody" ->
           /\ reader' = [reader EXCEPT ![r] = "idle"]
           /\ UNCHANGED <<got, events>>

\* Nothing is under way: what the user did before has taken effect.
Quiet ==
    /\ handler # "posted"
    /\ \A s \in Setters : step[s] \in {"new", "serve", "done"} /\ events[s] = <<>>
    /\ \A r \in Readers : reader[r] = "idle"
    /\ notices = 0

UserActs ==
    /\ setup.patient => Quiet
    /\ hurried' = (hurried \/ ~Quiet)

\* The user copies something in another program.
Copy ==
    /\ UserActs
    /\ copies < setup.copies
    /\ copies' = copies + 1
    /\ TakeSelection(User(copies + 1))
    /\ UNCHANGED <<requestVars, processVars, step, buf, marker, reader, got, pastes>>

\* The user pastes in another program, which asks for the types first.
Paste ==
    /\ UserActs
    /\ pastes < setup.pastes
    /\ reader["app"] = "idle"
    /\ pastes' = pastes + 1
    /\ Ask("app", "types")
    /\ UNCHANGED <<requestVars, processVars, step, buf, owner, marker, notices, copies>>

\* A program that knows the types asks for the data.
ReadData(r) ==
    /\ reader[r] = "typed"
    /\ Ask(r, "data")
    /\ UNCHANGED <<requestVars, processVars, step, buf, owner, marker, notices, copies, pastes>>

-----------------------------------------------------------------------------
(* Requests *)

Running == IF setup.web THEN 0 ELSE setters + 1  \* the process that handles a request

\* A request received text or files: the handler stores files where its
\* process stands and replaces pending_data.
Receive(files) ==
    /\ UserActs
    /\ handler = "idle"
    /\ received < setup.items
    /\ Running \in Procs
    /\ received' = received + 1
    /\ landed' = IF files THEN landed \cup {cwd[Running]} ELSE landed
    /\ pend' = [pend EXCEPT ![Running] = [data |-> received + 1, set |-> TRUE]]
    /\ handler' = "posted"
    /\ UNCHANGED <<setters, cwd, clear, incr, pos, setterVars, desktopVars>>

\* Any other POST of the web page.
OtherPost ==
    /\ UserActs
    /\ setup.web
    /\ handler = "idle"
    /\ handler' = "posted"
    /\ UNCHANGED <<received, landed, setters, processVars, setterVars, desktopVars>>

\* Mutant of EndRequest: the process that received the item does not fork.
EndWithoutSetter ==
    /\ handler = "posted"
    /\ handler' = "idle"
    /\ UNCHANGED <<received, landed, setters, processVars, setterVars, desktopVars>>

\* After the request: a new thread or process if there is pending data.
EndRequest ==
    /\ handler = "posted"
    /\ handler' = "idle"
    /\ \/ /\ pend[Running].data # 0
          /\ setters < MaxSetters
          /\ setters' = setters + 1
          /\ step' = [step EXCEPT ![setters + 1] = "start"]
       \/ /\ pend[Running].data = 0
          /\ UNCHANGED <<setters, step>>
    /\ UNCHANGED <<received, landed, processVars, buf, events, desktopVars>>

-----------------------------------------------------------------------------
(* set_pending_clipboard_item *)

\* Mutant of Start: no marker file.
StartUnmarked(s) ==
    /\ step[s] = "start"
    /\ step' = [step EXCEPT ![s] = IF pend[Proc(s)].set THEN "open" ELSE "done"]
    /\ pend' = [pend EXCEPT ![Proc(s)] = IF @.set THEN @ ELSE Nothing]
    /\ UNCHANGED <<requestVars, cwd, clear, incr, pos, buf, events, desktopVars>>

\* pending_type is read, and the marker file created.
Start(s) ==
    /\ step[s] = "start"
    /\ \/ /\ pend[Proc(s)].set
          /\ marker' = TRUE
          /\ step' = [step EXCEPT ![s] = "open"]
          /\ UNCHANGED pend
       \/ /\ ~pend[Proc(s)].set
          /\ pend' = [pend EXCEPT ![Proc(s)] = Nothing]
          /\ step' = [step EXCEPT ![s] = "done"]
          /\ UNCHANGED marker
    /\ UNCHANGED <<requestVars, cwd, clear, incr, pos, buf, events,
                   owner, notices, reader, got, copies, pastes>>

\* xclip_util connects to the X server, and doIn copies pending_data.
Open(s) ==
    /\ step[s] = "open"
    /\ pend[Proc(s)].data # 0
    /\ buf' = [buf EXCEPT ![s] = pend[Proc(s)].data]
    /\ step' = [step EXCEPT ![s] = "own"]
    /\ UNCHANGED <<requestVars, processVars, events, desktopVars>>

OpenFails(s) ==
    /\ setup.displayFails
    /\ step[s] = "open"
    /\ pend' = [pend EXCEPT ![Proc(s)] = Nothing]
    /\ step' = [step EXCEPT ![s] = "done"]
    /\ UNCHANGED <<requestVars, cwd, clear, incr, pos, buf, events, desktopVars>>

\* Another run has freed pending_data in between: memcpy reads from NULL and
\* the whole process ends.
OpenCrashes(s) ==
    /\ step[s] = "open"
    /\ pend[Proc(s)].data = 0
    /\ step' = [t \in Setters |-> IF Proc(t) = Proc(s) /\ step[t] # "new"
                                  THEN "done" ELSE step[t]]
    /\ owner' = IF owner.who = "setter" /\ Proc(owner.id) = Proc(s) THEN Nobody ELSE owner
    /\ handler' = IF setup.web THEN "dead" ELSE handler
    /\ UNCHANGED <<received, landed, setters, processVars, buf, events,
                   marker, notices, reader, got, copies, pastes>>

\* The selection is taken, and the process leaves its working directory.
Own(s) ==
    /\ step[s] = "own"
    /\ TakeSelection(Setter(s))
    /\ cwd' = [cwd EXCEPT ![Proc(s)] = "/"]
    /\ step' = [step EXCEPT ![s] = "serve"]
    /\ UNCHANGED <<requestVars, pend, clear, incr, pos, buf, marker, reader, got, copies, pastes>>

-----------------------------------------------------------------------------
(* The loop of doIn: one event each time, answered by xcin. *)

Answer(r, next) == reader' = [reader EXCEPT ![r] = next]
Obtain(r, i) ==
    /\ Answer(r, "idle")
    /\ got' = [got EXCEPT ![r] = @ \cup {Item(i)}]

Taken(s)       == events' = [events EXCEPT ![s] = Tail(@)]
\* The reader deletes the property at once, which is an event again.
TakenAndSent(s) ==
    events' = [events EXCEPT ![s] = Append(Tail(@), [kind |-> "deleted", reader |-> "none"])]

MoreChunks(sent) == sent < NumChunks

Xcin(s) ==
    LET p == Proc(s)
        e == Head(events[s])
    IN  \/ /\ incr[p] = "none" /\ e.kind = "types"
           /\ Answer(e.reader, "typed")
           /\ Taken(s) /\ UNCHANGED <<incr, pos, got>>
        \/ /\ incr[p] = "none" /\ e.kind = "data" /\ buf[s] \notin setup.large
           /\ Obtain(e.reader, buf[s])
           /\ Taken(s) /\ UNCHANGED <<incr, pos>>
        \/ /\ incr[p] = "none" /\ e.kind = "data" /\ buf[s] \in setup.large
           /\ Answer(e.reader, "chunk")
           /\ incr' = [incr EXCEPT ![p] = e.reader]
           /\ pos' = [pos EXCEPT ![p] = 0]
           /\ TakenAndSent(s) /\ UNCHANGED got
        \/ /\ incr[p] # "none" /\ e.kind = "deleted" /\ MoreChunks(pos[p])
           /\ pos' = [pos EXCEPT ![p] = @ + 1]
           /\ TakenAndSent(s) /\ UNCHANGED <<incr, reader, got>>
        \/ /\ incr[p] # "none" /\ e.kind = "deleted" /\ ~MoreChunks(pos[p])
           /\ Obtain(incr[p], buf[s])
           /\ incr' = [incr EXCEPT ![p] = "none"]
           /\ Taken(s) /\ UNCHANGED pos
        \/ /\ e.kind = "clear" \/ (incr[p] = "none") = (e.kind = "deleted")
           /\ Taken(s) /\ UNCHANGED <<incr, pos, reader, got>>

\* Mutants of Leaves: a run ends after its first answer; in the middle of a
\* transfer.
LeavesAtOnce(cleared, transfer) == transfer = "none"
LeavesInTransfer(cleared, transfer) == cleared

\* A run ends when the selection is lost and no transfer is under way.
Leaves(cleared, transfer) == transfer = "none" /\ cleared

Serve(s) ==
    /\ step[s] = "serve"
    /\ events[s] # <<>>
    /\ Xcin(s)
    /\ clear' = [clear EXCEPT ![Proc(s)] = @ \/ Head(events[s]).kind = "clear"]
    /\ \/ /\ Leaves(clear'[Proc(s)], incr'[Proc(s)])
          /\ step' = [step EXCEPT ![s] = "done"]
          /\ pend' = [pend EXCEPT ![Proc(s)] = Nothing]
          /\ owner' = IF owner = Setter(s) THEN Nobody ELSE owner
       \/ /\ ~Leaves(clear'[Proc(s)], incr'[Proc(s)])
          /\ UNCHANGED <<step, pend, owner>>
    /\ UNCHANGED <<requestVars, cwd, buf, marker, notices, copies, pastes>>

-----------------------------------------------------------------------------
(* clipboard_listen *)

\* Mutant of Listen: the marker file is not deleted.
ListenKeepsMarker ==
    /\ notices > 0
    /\ reader["listener"] = "idle"
    /\ notices' = notices - 1
    /\ \/ marker /\ UNCHANGED <<reader, got, events>>
       \/ ~marker /\ Ask("listener", "types")
    /\ UNCHANGED <<requestVars, processVars, step, buf, owner, marker, copies, pastes>>

\* An owner change is ignored if the marker file is there.  Otherwise the type
\* is asked for, servers are looked for, and then the data is asked for.
Listen ==
    /\ notices > 0
    /\ reader["listener"] = "idle"
    /\ notices' = notices - 1
    /\ marker' = FALSE
    /\ \/ marker /\ UNCHANGED <<reader, got, events>>
       \/ ~marker /\ Ask("listener", "types")
    /\ UNCHANGED <<requestVars, processVars, step, buf, owner, copies, pastes>>

-----------------------------------------------------------------------------
SetterStep(s) == Start(s) \/ Open(s) \/ OpenFails(s) \/ OpenCrashes(s) \/ Own(s) \/ Serve(s)

UserStep == Copy \/ Paste \/ OtherPost \/ \E files \in BOOLEAN : Receive(files)

Next ==
    /\ UNCHANGED setup
    /\ \/ UserStep
       \/ /\ \/ EndRequest \/ Listen
             \/ \E r \in Readers : ReadData(r)
             \/ \E s \in Setters : SetterStep(s)
          /\ UNCHANGED hurried

Spec == Init /\ [][Next]_vars

\* Every thread and process runs on; the user need not do anything.
FairSpec ==
    /\ Spec
    /\ WF_vars(EndRequest /\ UNCHANGED <<setup, hurried>>)
    /\ WF_vars(Listen /\ UNCHANGED <<setup, hurried>>)
    /\ \A r \in Readers : WF_vars(ReadData(r) /\ UNCHANGED <<setup, hurried>>)
    /\ \A s \in Setters : WF_vars(SetterStep(s) /\ UNCHANGED <<setup, hurried>>)

-----------------------------------------------------------------------------
(* Properties *)

\* "Then you can paste them on the machine that runs the client": what is on
\* the clipboard stays until something else is.
NeverEmptied == [][owner.who # "nobody" => owner'.who # "nobody"]_vars

\* The same for what commands received: a process is left behind for each item.
CommandsKeepClipboard ==
    [][~setup.web /\ owner.who # "nobody" => owner'.who # "nobody"]_vars

\* The threads of the web client share their variables, so what follows holds
\* for it only as long as the user does one thing at a time.
Overlapping == setup.web /\ hurried

\* A request of the program is in a queue, or it is being sent chunks.
Asking(r) ==
    \/ \E s \in Setters : \E i \in DOMAIN events[s] : events[s][i].reader = r
    \/ \E p \in Procs : incr[p] = r

\* A program that asked for the contents of the clipboard gets an answer: no
\* run ends with a request in its queue or a transfer under way.  Only a request
\* that meets the transfer of another program is lost, because xcin knows of one
\* reader.  And a run whose selection another program took comes to its end.
RunsServeAndEnd ==
    /\ \A r \in Readers :
          Asking(r) ~> \/ reader[r] \in {"typed", "idle"} \/ Overlapping
                       \/ \E p \in Procs : incr[p] \notin {r, "none"}
    /\ \A s \in Setters : (step[s] = "serve" /\ owner # Setter(s)) ~> step[s] = "done"

\* A run has offered the item, or found no display for it.
Offered(i) ==
    \E s \in Setters : step[s] \in {"serve", "done"} /\ (buf[s] = i \/ (buf[s] = 0 /\ s = i))

\* Every item received is put on the clipboard, unless the process left behind
\* for it finds no display.
EveryItemOffered == \A i \in 1 .. MaxItems : received >= i ~> Offered(i) \/ Overlapping

\* "send text only if it's not from clip-share": what was received is never
\* sent to other machines, as long as the user does one thing at a time.  With
\* a copy in between the marker file is taken for the wrong change.
NoEcho == ~hurried => \A c \in got["listener"] : c.who = "user"

\* In every state: well formed, and nothing that was received has been sent on.
ClipboardInv == TypeOK /\ NoEcho

\* What the user copies is sent to the other machines.
EveryCopySent ==
    \A c \in 1 .. 2 : setup.listens /\ copies >= c ~> hurried \/ User(c) \in got["listener"]

\* Received files are stored in the configured directory.
FilesInWorkingDir == landed \subseteq {"working_dir"}
=============================================================================
