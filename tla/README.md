# The ClipShare desktop client in TLA+

The desktop client of ClipShare (`src/`, C) copies text, files and images from and to
ClipShare servers on other machines, driven by a web page, by commands, or by the clipboard
itself. This directory holds models of it, the configurations under which TLC checks them,
and theorems about them that TLAPS checks. Unless they say otherwise, paths below are relative
to `src/src/` and the Linux build is meant.

`PROJECT.json` lists components, runs, mutants, hazards, findings and theorems, and maps every
definition of a module to the lines it was translated from.

    tlc -workers 2 -config SessionLockstep.cfg MCSession
    tlapm SessionProofs.tla

## 1. The system

| Component | State it keeps | Operations | Interacts with |
|---|---|---|---|
| Request entry points (`clients/gui_client.c`, `clients/cli_client.c`) | one queued response per POST | POST of the page, command, first-callback-wins response | negotiation; pending item after the request |
| Version negotiation (`proto/selector.c`) | negotiated version | offer, refuse, accept a counter-offer | server; method dispatch |
| Method request and dispatch (`proto/versions.c`) | none | send the method, read its status, call the handler | methods |
| Methods (`proto/methods.c`) | files and text of one transfer | get/send text, files, images, screenshot, info | sockets, file system, clipboard |
| Sockets (`utils/net_utils.c`) | connection, TLS context | connect (twice), read, write, await and close | everything on the wire |
| Sending files (`proto/methods.c`, `utils/utils.c`) | rest to send, partial sends | loop over the file and over `send` | other programs that write to the file |
| Receiving files (`proto/methods.c`) | temporary directory, working directory | save, list, choose a name, rename, acknowledge | other processes in the same directory |
| Pending clipboard item (`utils/utils.c`) | the globals `pending_*`, the marker file | store, spawn a thread or fork, take the selection | handlers, X11 clipboard, listener |
| X11 clipboard (`xclip/`) | selection, static variables of `doIn` and `xcin` | serve, serve in chunks, ask | other programs |
| Automatic sending (`utils/clipboard_listener.c`, `listener_linux.c`) | marker file, one thread per server | on an owner change: scan, filter, send | scan, X11 clipboard, requests |
| LAN scan (`clients/udp_scan.c`) | shared list with a mutex, sockets | broadcast, collect, cancel, filter | automatic sending, `scan` command |
| Clipboard contents to send (`utils/utils.c`, `xclip/` for reading) | contents in chunks, list of copied paths | type of the clipboard, text, walk of directories | X11 clipboard, sending files |
| Configuration (`utils/config.c`, defaults in `main.c`) | options with limits, lists of servers | parse lines, numbers with suffixes, check | everything that has a limit |
| Start-up and shutdown (`main.c`, `utils/kill_others.c`) | processes of one name, the port of the page | read configuration, stop others, fork listener and icon, serve | configuration, automatic sending, tray icon |
| List of strings (`utils/list_utils.c`) | growing array | append, free | scan, receiving, contents to send |
| Tray icon (`utils/linux_status_icon.c`) | a process of its own | Quit | start-up |
| Ports to Windows and macOS | – | – | – |

What is hard about it, and what would make each part correct:

- **Requests.** Two programs must cut two byte streams into the same fields for four protocol
  versions and eight methods; either side may stop, go away or send nonsense at any field. The
  page must get exactly one response, and "OK" must mean that the data arrived.
- **Acknowledgements.** In version 4 the receiver acknowledges; the order of rename, acknowledge,
  close and report decides what a failure at each point leaves behind.
- **Files.** Several processes share one working directory, and every check of a name is a
  call of its own. A file that is sent may change under the reader.
- **Clipboard.** A received item outlives its request in a thread or a process. The threads of
  the web client share globals and the static variables of functions written for a program of
  its own. The listener has to tell owner changes of its own program from those of the user by
  one marker file.
- **Contents to send.** The type of the clipboard, its contents and the files they name are looked at
  at three times, and other programs may change each in between; contents may come in chunks, told from
  other events of the same window by one bit.
- **Scan.** Threads are cancelled and not joined, and share a list with their caller, which goes on to
  send to whoever is on it.
- **Configuration.** Numbers at the limits of their types, with suffixes that multiply.
- **Starting.** Each start stops all other instances by a walk through `/proc`, while they may be
  forking, starting themselves, or in the middle of a request.

The list of hazards in `PROJECT.json` gives each of these at its line, with the properties
that cover it or the reason why none does.

## 2. Modules

    Link ── Client ─┐
        └── Server ─┴─ Session ── MCSession            Exchange (implemented by Session)
                         └── SessionProofs ── FramingProofs
    Selection ── MCSelection, SelectionProofs
    SendingFile ── MCSendingFile, SendingFileProofs
    Receiving ── MCReceiving, ReceivingProofs
    Clipboard ── MCClipboard, ClipboardProofs
    Scan ── AutoSend ── MCAutoSend, AutoSendProofs
    ClientConfig ── Startup ── MCStartup, StartupProofs

How the parts follow one another in the program: `Startup` reads the configuration with `ClientConfig`
and runs the web client and its listener. A request of the page or a command is a `Session`; what it
sends comes from `Selection`, each file of it goes through `SendingFile`, received files through
`Receiving`, and received items reach the clipboard through `Clipboard`. The listener, also in
`Clipboard`, notices what the user copies, and `AutoSend` goes on from there.

**Session** is one request against one server. `Link` is the connection: two queues of
protocol fields and the two ends. A field is a record of its kind (`"version"`, `"count"`,
`"body"`, …), the class of its value as far as the code tells values apart, and a number where
there is one; bytes are abstracted away, so a field that arrives in part is a read that fails.
`Client` has one action for each read or write of `handle_proto`, `method_request` and the
handlers, with every early return, callback and close; `ans` is the first callback, `ret` the
return value, `disk` and `clip` what the handler left behind. `Server` is the peer as
`src/tests/utils/mock_server.py` implements it for the tests of the repository. The real server
is another repository: what it does beyond the mock is covered by the faults `"crash"`,
`"timeout"` and `"garbage"`, after which it may go away, stop, or send any value the client has to
refuse. `Exchange` is the abstract specification: data moves, one result is shown, and success
only after the data moved. `Session!KeepsPromise` states by refinement that every request implements it.

**Selection** is how a request reads the clipboard. `get_copied_type`, `get_clipboard_text` and
`get_copied_files_as_str` are calls of `doOut` with a window of their own: `Ask`, the answers of the
program that was asked (in one property or in chunks), and one turn of `xcout` for each event. The
rest is `get_copied_dirs_files` with one action for each entry of the list, and the loop of
`_send_files_common`. A path is a sequence of names, and `Tree` says what is at each path. The user may copy
something else, the program that was asked may end, and a file may be deleted at any time.

**SendingFile** is the loop of `_transfer_regular_file` over the file together with the loop of
`write_sock` over what `send` accepts; `Session` and `Selection` have the same transfer as one step.
`Change` is any other program that writes to the file. `fread` may return less than it was asked for, or nothing: at the
end of the file, because the disk fails for a moment, or for good (`broken`).

**Receiving** is `_get_files_dirs` and what it calls, one action for each call of the file system, for several
transfers at a time. What arrives is a set of paths: files, files in a directory, and empty directories. A file
is known by its creator and its path, so that "the file is still there" can be said after renames. A numbered
name is a name like any other (`Numbered`, the strings `1_a`, `2_a`, …), so it may be the one that another file
has without a number. `entries` is what directories hold, `written` which contents are complete, `torn` those
whose last buffer was lost when they were closed, `spoiled` which files two transfers had open at once. `Killed`
stops a process anywhere. `Session` has the same as `GetName`, `GetBody`, `Place` and `AckReceived`.

**Clipboard** begins where a handler has stored a received item in `pending_data`. Every run of
`set_pending_clipboard_item` is a `Setter`: a thread of the one process of the web client
(`web`), or a process of its own for each command. Variables indexed by process (`pend`, `clear`,
`incr`, `pos`, `cwd`) are C globals, statics, and the working directory; those indexed by run
(`step`, `buf`, `events`) are locals and the X connection. The X server delivers requests to
whoever owns the selection, and an owner change to the old owner and to the listener. `Serve` is
one turn of the loop of `doIn`, `Xcin` the six ways in which `xcin` reacts to an event.

**Scan** is `udp_scan` with one action for each step of the caller and of its threads; append is two steps,
finding the end and storing there, since that is what the mutex has to protect. Cancellation takes effect at
`sendto` and `recvfrom` only, the cancellation points of the thread. Since nobody joins the threads, one of them
may come to the mutex after it was destroyed (`LockDead`: refused, blocked for good, or let in), or to the list
while it is filtered or used (`StoreLate`: appended, or memory spoiled, after which the model says nothing more,
`corrupt`). The filters are loops of the caller, one action for each turn; an address is a number, ordered as
`strncmp` orders addresses, and own addresses are those of the interfaces that were looked at. **AutoSend** is
`send_to_servers` around it: the scan and its repetition, the list `auto_send_servers`, one thread for each
server, which may hang (`Transfer`), and the list that is freed at the end. An address that a cancelled thread
appended after the filters began is in `late`.

**ClientConfig** is the parser of the configuration: a file is a sequence of lines, a number its sign, digits
and suffix, and the widths of the C types are parameters (`Word`, `Half`, `Short`, `Thousand`), so that TLC
meets their limits with small numbers. What a file comes to is one of `"ok"`, `"error"` and `"endless"`, with
the value of every option. **Startup** is `main` for each way of starting the program and
`kill_other_processes`, one process of `/proc` at a time. A process is named by the start it stems from and its
part (`main`, `listener`, `icon`, and `holder` for a process that a command leaves behind for the clipboard).
`readdir` may serve what it has read ahead: of the processes that a start comes to, `listed` are those it cannot
miss, who had their number when it opened `/proc`; a child that is forked later, or a daemon, whose number is
new, it finds or misses. If `/proc` cannot be opened nobody is listed. The sleep of 5 ms waits for nothing:
whoever was signalled may have ended by then or not.

Wherever a module has a constant `Setups`, a setup is a situation (what is copied, who answers, which
faults may happen); the variable `setup` is chosen at the start and never changes, so that one run covers
all of them. An `MC…` module gives a module's constants their values where a `.cfg` cannot. A comment
"Mutant of X" marks a definition that is used by no specification: it is X with a plausible
mistake, and a run in which it takes the place of X finds the property violated.

## 3. Runs

| Run | Shows |
|---|---|
| `session_lockstep` | All entry points, methods and pairs of version ranges between programs that run on: streams in step (`InStep`), agreement on versions (`VersionsAgree`), a common version is found (`NegotiationSucceeds`), "OK" exactly for what was delivered and nothing left unread (`OkMeansDelivered`), the server released (`ServerReleased`), and every request an `Exchange` (`KeepsPromise`). |
| `session_faults` | Timeouts, a server that stops, goes away or sends what must be refused, and a client whose disk, memory or clipboard fails, all at once: with version 4 OK still means that the data arrived and a failure is not reported as OK (`OkSurvivesFaults`), an acknowledgement that it is in place (`AckMeansPlaced`), a response never changes (`AnswerIsFinal`), every request ends (`Answered`). |
| `selection` | What is read of the clipboard is what one program gave for one target, whole (`SelectionInv`), and of the kind that was asked for unless something else was copied meanwhile (`ContentsFitType`); only selected files are sent and success means all of them, each once unless one entry lies below another (`OkSendsAll`), under its path below the copied directory (`NamesFollowTree`); only a program that ends before it answers keeps a request waiting (`RequestEnds`). |
| `sending` | A file that does not change is sent exactly as announced (`SentIsAnnounced`); one that does never leaves the server short (`NeverShort`) and exceeds its size by less than a buffer (`ExcessIsBounded`); the loops end unless the file is truncated or cannot be read any more (`TransferEnds`). |
| `receiving` | Two transfers in turn, overlapping, or in the same temporary directory, failing or stopped anywhere: acknowledged files are in place, complete, and those of a directory together (`AckedFilesPlaced`), no incomplete file appears (`NoPartialFile`), no file of the user is replaced, and none of another transfer unless the two overlap and their entries may get the same name, numbered or not (`KeptApart`), nothing becomes the configuration (`ReceivingInv`). Each property names the situation it needs. |
| `clipboard` | Commands, a command beside the listener, and the web client beside the listener: what is received is not sent back (`ClipboardInv`), what commands received is never emptied (`CommandsKeepClipboard`), programs that ask are answered, unless they meet a chunked transfer to another, and runs that lost the selection end (`RunsServeAndEnd`), every item is offered (`EveryItemOffered`), copies are sent (`EveryCopySent`). For the web client, whose threads share statics, the last two and the answers hold while the user does one thing at a time. |
| `autosend` | From a change of the clipboard to the last thread: no answer in time is lost and nobody keeps the mutex (`AutoSendInv`), only allowed servers get anything, not this machine, and only if that kind of contents is to be sent (`OnlyAllowed`), the list is freed after its readers have ended (`JoinedBeforeFreed`), the round and every cancelled thread end (`RoundEnds`). The exceptions are named in the properties: what a cancelled thread does late, own addresses of interfaces beyond the last thread, transfers that hang. |
| `startup` | Starts that overlap at every step: who ran when a start began to look for others ends (`EarlierInstancesEnd`) and does not run beside it (`OneInstance`), a client is stopped only for one that can take its place (`GoneOnlyIfReplaced`), an accepted start serves the page (`AcceptedStartServes`) unless its port was held by a client that was still ending after the 5 ms, or that the look had missed (`PortStillHeld`). Over 1,700 configuration files: limits are what was written or refused (`LimitsExact`), versions are a range that negotiation can use (`StartupInv`). |

Runs that find what a document or a comment says violated:

| Run | Disagreement |
|---|---|
| `session_files_ok` | Sending files answers RESP_OK before the acknowledgement is read, and the later failure is dropped. |
| `clipboard_web_paste` | The static `clear` is never reset: the second item received through the page is gone after the first request of a program that pastes. |
| `clipboard_web_files` | `chdir("/")` in a thread: later files of the web client are stored in the root directory. |
| `startup_endless` | An empty line in a list of servers is read again and again: the program never starts. |

### Smaller disagreements

They are part of the models and need the exceptions in the properties, and have no run of their own.

- *Requests.* An image announced with size -1 becomes a directory (`Session!Arrived`); a method the negotiated
  version lacks is answered as an error of the client (`versions.c:84`, `Client!HandlerOf`); RESP_OK for
  received text is called before it is put on the clipboard (`methods.c:198`).
- *Files.* A file that grows exceeds `max_file_size` by up to a buffer (`ExcessIsBounded`); at the end of a
  truncated file, or if `fread` fails for good, the loop turns forever (`methods.c:245`, `TransferEnds`); the
  result of `fclose` is not looked at (`methods.c:431`, `torn`).
- *Working directory.* "if new_path already exists, use a different file name" (`methods.c:715`): check and
  rename are two calls, and if transfers overlap one may replace the file of the other, also where only a
  numbered name of the one, `1_a`, is a name of the other (`KeptApart`). Transfers that start in the same second
  may share a temporary directory and move each other's unfinished files (`NoPartialFile`), and one directory
  may end up under two names (`AckedFilesPlaced`). A transfer that fails leaves its temporary directory behind.
- *Clipboard.* A copy of the user just before a received item takes the selection makes the listener send the
  item back (`NoEcho`); the marker file stays behind if the display cannot be opened (`utils.c:1175`); a second
  program that asks during a chunked transfer is never answered (`xclib.c:375`, `RunsServeAndEnd`).
- *Contents to send.* An entry that is no URL, or neither file nor directory, ends the list silently
  (`utils.c:753`, `Usable`); the length of the parent directory is taken from the first entry and cut off all
  (`utils.c:745`, `NamesFollowTree`); `doOut` has no timeout (`xclip.c:109`, `RequestEnds`); with more files
  than `auto_send_max_files` nothing is sent, without a word (`methods.c:336`).
- *Scan.* `udp_scan.c:168` says "Remove duplicates", but moving the last entry to the place of a removed one
  breaks the order the search needs: 1,1,2,3,3 gives 1,3,2,3, and such a server is sent to twice. A cancelled
  thread may add an answer after the filter (`StoreLate`), also an address that is not allowed, and may meet a
  mutex that has been destroyed (`udp_scan.c:252`, `LockDead`). The kind of the contents is looked at once
  (`clipboard_listener.c:165`): if other contents are copied during the scan, files, which are offered as text,
  too, may be read as the text that is to be sent.
- *Configuration.* Three sources name three sets of limits, and `LimitsExact` states what they share. The
  comment of `set_int64` (`config.c:181-182`) says 1 to 2^61 - 1, but sizes up to 2^63 - 1 are accepted if they
  have no suffix; `src/README.md` 299 and 308 allow sizes up to 2^63 - 1, but one with a suffix is limited to
  2^61 - 1; `src/README.md` 298 and 307 allow 4294967295 for `max_text_length` and `auto_send_max_files`, which
  `set_uint32` refuses. A size whose digits exceed `int64_t` may wrap to anything if it has a suffix;
  `set_uint16` takes 0 where its comment says 1 to 65535.
- *Starting.* If the port is taken, the page ends silently while listener and icon run on; two starts at the
  same time may stop each other, or miss each other's later children (`kill_others.c:45` promises no more); a
  client whose request hangs stays in its exit for good and keeps the port (`utils.c:195`).

### Bounds, and why they are enough

- *Session*: two files per transfer are one that is followed by another and one that is the last; the loops over
  files have no other state. Four versions are all there are. All ten version ranges of each side are combined
  where negotiation matters; the fault run uses the default range of the client and servers of one version,
  which reach every handler of every version.
- *Selection*: two chunks are one that is followed by another. The tree has a file, a link, an empty, a locked
  and a nested directory, and one level more than is followed (`MAX_RECURSE_DEPTH` is 2 instead of 256). Eight
  setups: text in chunks and then files, text in odd forms, a directory for versions 1, 2 and 3, a list with
  entries that cannot be sent, more files than may be sent automatically, and a directory beside a file in it,
  which is then sent twice. Names have one character, so `path_len` counts names.
- *SendingFile*: sizes 0 to 7 with a buffer of 3 bytes and a limit of 6: empty files, less than one buffer,
  exactly one and two, a rest, and a size over the limit. `Tries` is the code's own 10.
- *Receiving*: two transfers of at most three paths; one name is shared with the user's files, one is that of
  the configuration, one is a file in one transfer and an empty directory in the other. Two names for temporary
  directories are what two transfers need; `MaxNumber` is 2 instead of 999999, so that all numbered names may be
  taken. Nine setups: in turn (where processes are stopped and the disk is full), overlapping in two
  directories, and overlapping in one, each with files and with directories; names that are numbered names of
  others (`a` and `1_a`) in one transfer and in two that overlap; and the same file in one directory, which
  makes a file that is neither's and about which only `ReceivingInv` and the part of `KeptApart` about the
  user's files say anything.
- *Clipboard*: for commands an item in chunks that is replaced by another, with a copy and two pastes that fall
  anywhere in between; a command beside the listener; for the web client one item, two runs for it (any POST
  starts another), two copies and a paste. `MaxSetters` stops the model, not the code. An item in chunks beside
  the listener is where two programs ask at once.
- *AutoSend*: three interfaces and room for two threads, so that the limit is met (the real one is 16). Four
  setups: a server that answers on two interfaces, with an address of this machine and no list of allowed
  servers; addresses of this machine on interfaces that are looked at and beyond the last thread; three servers
  and this machine where two servers and this machine are allowed and two entries are used (512 in the code); a
  kind of contents that is not to be sent.
- *Startup*: a web client with everything it may fork, and what may come beside it: another one, a stop, a
  command, a refused configuration, Quit of its icon, with `-D` and without; two starts of each and every
  interleaving of theirs, and three where the one in between never gets on. Words of 12 bits, halves of 6,
  shorts of 4 and a suffix that stands for 3 leave room for all suffixes below the limits; the files hold
  numbers around every power and every quotient that the code compares with.

`patient` in the two clipboard violations means that the user waits until what was done before
has taken effect, so that no race is needed for them; elsewhere `hurried` records that the user did not.

Assumed of the system: no process id is used again during one walk through `/proc`, and a process that was there
with its number when the walk began is visited; every process of that name may be signalled, that is, belongs to
the same user; a signal that was sent is received in the end; `fork` fails while a signal is pending; the
readable part of a directory is walked without being changed meanwhile, in any order; the list of targets fits
one property.

### Fairness

- `ClientFairSpec`: the thread of a request runs on. Every read and write of the client is bounded by its socket
  timeouts and the counted retries of `read_sock` and `write_sock`, and so is the await in `_close_socket`; this
  is why `ClientReadFails` is an action even while the server is alive.
- `FairSpec` of Session adds that the server runs on, for the properties about two programs that do; with
  `Faults = {}` nothing else can stop them.
- *Selection*: the request and the program that was asked run on while they exist; copying, ending and deleting
  are not fair. Deadlock is not checked: a request rightly waits for a program that has ended, as `RequestEnds`
  says.
- *SendingFile*: the loop runs on; `Change` and `ReadBreaks` are not fair.
- *Receiving*: no liveness is stated; a transfer that is stuck is a connection that fails, see Session.
- *Clipboard*: every thread, process and waiting program runs on; `Copy`, `Paste`, `Receive` and `OtherPost`,
  the user's actions, are not fair. Deadlock is not checked there: with the user at rest the system stops
  rightly.
- *AutoSend*: the caller's waits are bounded by `nanosleep`; a thread makes at most 256 rounds of a receive with
  a timeout of 2 s, so weak fairness of each thread is what the scheduler gives. A transfer goes on, but it may
  hang for good (`Transfer`), as the owner of the selection (`RequestEnds`) or the file (`TransferEnds`) may
  make it; a thread that waits for the destroyed mutex is stuck. When the round is over nothing moves, so
  deadlock is not checked.
- *Startup*: all steps of the program are weakly fair together, which is enough because every behaviour without
  further starts is finite; starting, quitting and requests of the page are the user's. A request of the page
  ends or hangs for good (`EndRequest`); one that hangs keeps its client in the exit. An instance that serves
  may wait forever, so deadlock is not checked.

## 4. Theorems

All are proved for every value of the constants under the assumptions named `…Assumption` in the
modules, without any further axiom. Every safety invariant and action property that a passing run of section 3 checks
has a theorem; what has none is in "Only model-checked" below.

| Theorem | Says |
|---|---|
| `SessionProofs!TypeCorrect` | `TypeOK` of Session |
| `SessionProofs!AnswerFinal` | `AnswerIsFinal`: a queued response never changes |
| `SessionProofs!VersionsAgreed` | `VersionsAgree`, garbled replies and crashes included |
| `SessionProofs!OkIsTrue` | `OkSurvivesFaults`: what OK means under any faults |
| `SessionProofs!AckIsTrue` | `AckMeansPlaced`: what an acknowledgement means under any faults |
| `FramingProofs!StreamsInStep` | `InStep`: for every version, method and set of faults, what is read next is what was written next |
| `FramingProofs!SuccessIsDelivery` | `OkMeansDelivered`, if `Faults = {}`: success means that the data is where the method brings it, every byte was read and the connection is closed, and the response says the same |
| `FramingProofs!RequestIsExchange` | `Exchange!Safety`, if `Faults = {}`: every step of a request moves the data, shows the one result, or does neither |
| `SelectionProofs!OneAnswerIsRead` | `SelectionInv`: what is read is the whole of what one program gave for one target |
| `SelectionProofs!ContentsAreOfTheType` | `ContentsFitType`: contents are never older than the type that was accepted |
| `SelectionProofs!NamesArePaths` | `NamesFollowTree`: the name of a file is the rest of its path, for every tree |
| `SelectionProofs!SelectedIsSent` | `OkSendsAll`: only what was selected is sent, and success means that all of it that still exists was |
| `SendingFileProofs!TypeCorrect` | `TypeOK` of SendingFile, in particular the counter of idle turns |
| `SendingFileProofs!NeverShortAlways` | success means that at least the announced bytes were sent |
| `SendingFileProofs!ExcessBounded` | a file that grows exceeds what was announced by less than a buffer |
| `SendingFileProofs!SentIsAnnouncedAlways` | exactly the announced bytes, if the file does not change |
| `ReceivingProofs!ConfigurationIsKept` | `ReceivingInv`: no received file becomes the configuration file |
| `ReceivingProofs!NoPartialFileIsSeen` | `NoPartialFile`: only complete files leave a temporary directory that is not shared |
| `ReceivingProofs!NothingIsReplaced` | `KeptApart`: no renaming replaces a file, but between overlapping transfers whose entries may get the same name |
| `ReceivingProofs!AcknowledgedIsPlaced` | `AckedFilesPlaced`: acknowledged files are in place, complete and together |
| `ClipboardProofs!ReceivedIsNotSent` | `ClipboardInv`: the listener reads nothing that was received, if the user waits |
| `ClipboardProofs!CommandsKeep` | `CommandsKeepClipboard`: what commands received is only replaced by something else |
| `AutoSendProofs!AnswersAreKept` | `AutoSendInv`: no answer in time is lost, however threads interleave and are cancelled, also while the list is filtered |
| `AutoSendProofs!NobodyElseReceives` | `OnlyAllowed`: only allowed servers and never an own address, late answers and interfaces beyond the last thread excepted |
| `AutoSendProofs!ListOutlivesReaders` | `JoinedBeforeFreed`: the list is freed after its readers ended |
| `StartupProofs!OneWebClient` | `OneInstance`: what runs once nothing starts or ends stems from one start, later comers excepted |
| `StartupProofs!VersionsToNegotiate` | `StartupInv`: an accepted configuration has a range of versions to negotiate with |
| `StartupProofs!OnlyReplaced` | `GoneOnlyIfReplaced`: an instance goes only for one whose configuration was accepted |
| `StartupProofs!PortIsFree` | `PortStillHeld`: a start misses its port only to a client that is still ending or that its look could miss |
| `StartupProofs!LimitsAreExact` | `LimitsExact`: a limit is the number that was written or refused, for every width of the types |

Every proof has the same outline: an inductive invariant whose conjuncts are defined at the head of the module,
one lemma for the conjunct or the group of actions that needs one, and a theorem that puts them together.

*Types of Session.* `TypeOK` is not inductive: `left` is decremented, so one has to know that a file
is left whenever one is expected. `FilesLeft` says where on either side that is,
and is proved together with `TypeOK`. The streams are sequences of records; the lemmas
`FieldsOfAppend` and `FieldsOfTail` reduce what a step does to them to sets of fields, after which
each action is a case of its own.

*Agreement.* `VersionsAgree` compares two variables that are never changed in the same step; what
carries the agreement is on the streams between. `NegotiationInv` says what a nonzero answer, an offer
and a "supported" on a stream stand for, depending on where the server is. Lemmas about each
side say what a step may add to a stream (`ClientStreams`, `ServerStreams`) and when it may settle
(`ClientSettles`, `ServerSettles`).

*Outcomes.* `OutcomeInv` follows one handler: which steps belong to which method and version, what is already true
when the callback is called, and that an acknowledgement on the stream or read by the server was written after the last
file was moved. For text that is sent it needs that the server's acknowledgement is only written once everything
was received.

*Framing.* One stream is a path through the grammar of the protocol: `SentInOrder` and `ReceivedInOrder` say that each two
fields that follow each other on a stream may do so (`Sequel`), that the last one fits the position of its writer
and the first one that of its reader. `Turns` says which side may have something on the way, for each pair of positions, so
that the two conversations are one. `InStep` is proved under all faults, although the run that checks it has none: a
field may be garbled, cut off by a crash, or never come, but it is never taken for another.

*Delivery.* `DeliveryInv` follows the data of a request, over what the invariants above say. `Sound`: nothing on its way is
garbled, and a count on a stream is the number of files still to come (`Coming`: names on the stream and files the server has
left) or to go (`Going`). `Uploads` says that the server reads all that the client sends, `Downloads` that the server is
sending, or waits for the acknowledgement, as long as the client has something to receive, `Connection` that neither end closes
before. `Told` says that the acknowledgement and SUCCESS come only after the last file was moved and the stream is empty. The
hypothesis is that of the run: `OkMeansDelivered` is a claim about programs, networks and machines that do not fail, and
for those that do, `OkIsTrue` and the violation `session_files_ok` say what is left of it. TLC checked
`DeliveryInv` as an invariant of `session_lockstep` before it was proved.

*Refinement.* Under the mapping of `Session!Promise` every step is a step of `Exchange` or none. What may not
happen is that data that has moved is taken back: `PlacedLast` says that received files are put in place by the
last steps of a handler, so none starts over. The result is shown by the one step that ends the request, and
there `SuccessIsDelivery` says that the data has moved.

*Selection.* `Dialogue` says for each stage of `xcout` what has been read, what is in the property, which events
wait and what the program is still going to write: together always the contents of one offer for one target.
`Purpose` says what a call was made for and which offer the request relies on, `Named` how the list follows from
the contents. For `NamesFollowTree`, `RecurseDir` is a recursive function over levels: `RecurseDirLevels` shows
that it exists and what it lists.

*What is sent of a list.* `OkSendsAll` compares what was sent with what the entries select, without the loops in
between, so each loop gets an invariant. `LevelFiles` is the recursion of `_recurse_dir`, by induction over the
levels: what so many levels list are the files that lie so deep below the directory, along directories that can
be read, and are still there; `FoundFiles` concludes that an entry finds what `FilesOf` names. `Collected` is
the loop of `get_copied_dirs_files`: on the list are only files of the entries taken so far, all that are not
gone, and if no entry lies below another none twice (`ApartFiles`: two prefixes of one path are prefixes of each
other); no entry before the next one ends the list, and the list ends only where no usable entry is left
(`NextEntry`). `Transferred` is the loop of `_send_files_common`: what was sent is the beginning of the list,
what was announced its length. A file may be deleted at every step: `Collected` compares with what is gone now,
so it says less of the list the longer it takes. TLC checked both as invariants of `selection` before they were
proved.

*Receiving.* Directories or names keep transfers apart (`Distinct`), so that none writes what is another's and a directory moves
with what is in it (`Undisturbed`); only complete files are moved (`Complete`), a transfer moves a name once (`OneName`), and
what came in is still somewhere (`Accounted`). A chosen name is free when it is chosen
(`NewNameIsFree`), and stays so as long as no other transfer may get it (`Apart` compares all names that entries may get).

*Clipboard.* For commands, `Ownership` (the owner of the selection is a run that serves it) and `Untold` (a run
that has not taken the selection, or still has it, has not been told that it lost it). For the listener, `Calm`:
while the user waits, one request or run is under way at a time, and an owner change that the listener has not
noticed is the user's or announced by the marker file.

*Automatic sending.* `Mutex` says that until the threads are cancelled no two of them are between finding the
end of the list and storing there, and `Kept` that what was stored in time stays, whatever a late thread
appends. The filters are loops whose list may grow from outside: `Filtered` is their invariant, what the entries
before `turn` are like and, after the loop, all of them (`NotOwn`, `Allowed`); a removal puts the last entry,
which has not been looked at, at the place that is looked at next (`TurnRemoves`), and `SortedLeaves` shows that
sorting changes only the order. Nothing is assumed of how many are removed: a repeated address may stay.
`Reached` carries this to the threads and to what was sent.

*Starting.* `Looked` says that once a web client has looked for the others, everyone alive who is in its
`listed` has been signalled. It needs that a signal stays sent and that nobody comes back to life (`Visits`,
`Forked`), which steps belong to which start (`Positions`), and that only who has not been signalled gets
another number. `OneInstance` follows: nobody with a signal is left when nothing is ending. For `PortStillHeld`
the holder of the port is compared with `listed` in the same way. `Moves` says what any step does to one
process, so that each of these is proved once for all actions. Of the configuration, the proof shows that the
comparison before a product is exactly whether it fits into the type (`Multiples`).

*Sending.* `Accounting` says that bytes read are on the stream or in the buffer, and that outside of
`write_sock` the rest to send is what was announced and not yet sent. For files that do not change,
`Unchanged` adds that the announced size is the size and that nothing is read beyond it. The bound on
the excess needs that the loop is only entered with something left to send.

What the theorems needed of the models, beside the invariants: assumptions that say that names, addresses and
setups are of their kind (`NamesAssumption`, `NumberedAssumption`, each `SetupsAssumption`); that a default of
an option is legal for it (`DefaultAssumption`), as every default in `main.c` is; and a `LimitsExact` and a
`NamesFollowTree` that say for which lines and which paths they speak: a line that stands in a file, and a path
below the directory of the first entry. `OkSendsAll` says of its last part that it needs entries of which none
lies below another (`Apart`): otherwise a file is sent twice, as the setup `Overlap` of the run shows; and
`FilesOf` asks of each directory above a file that it is one, without assuming that it is in the tree.

Only model-checked:

- Liveness, which rests on fairness and ENABLED: `NegotiationSucceeds`, `ServerReleased`, `Answered`,
  `RequestEnds`, `TransferEnds`, `RunsServeAndEnd`, `EveryItemOffered`, `EveryCopySent`, `RoundEnds`,
  `EarlierInstancesEnd`, `AcceptedStartServes`, and of the refinement `KeepsPromise` that a result is shown in
  the end; its safety part is proved.
- The four violations: a counterexample is one behaviour, for which a run is the proof.

Induction principles of the library take an operator as a parameter, which the provers here cannot instantiate.
Where a proof needs induction over numbers it uses a set of them (`SetInduction`: a set that holds 0 and with
each number the next holds all). That is also how `RecurseDirLevels` and `LineByLine` show that a function
defined by recursion exists.

## 5. Plan

Of what the runs check, only what "Only model-checked" names has no proof. What a next step would add to the models:

1. The loop of `read_sock` beside the body of a received file, which would make `Sockets` complete but for TLS.
2. The growth of the list of strings and the failures of `malloc` in it, beside the threads of the scan that append to it.
3. Entries of the list of files as the characters of a URL, for which `url_decode` is now only whether it succeeds.

## 6. Not modelled

- The page, libmicrohttpd, parsing of arguments and printing: no state of the program is in them.
- TLS: a failed handshake or an untrusted certificate is a connection that fails (`NotStarted`).
- Contents: text, images and bytes; the checks of names (`_is_valid_fname`) appear as fields of
  class `"badName"` and `"badPath"`. Received directories are one kind of body in Session and one level deep in Receiving.
- Memory: leaks, the growth of the list of strings, and the undefined behaviour of a freed list or stack array beyond
  what the models turn into a step; `OpenCrashes` of Clipboard is the one case that ends the process; `"wild"` and
  `corrupt` of AutoSend are those where what follows is left open.
- SIGTERM whose handler calls `exit` while another `exit` is under way.
- The widgets of the tray icon, and the ports to Windows and macOS: calls of desktop toolkits and of other systems around
  the same control flow.
