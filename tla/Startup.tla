------------------------------ MODULE Startup -------------------------------
(***************************************************************************)
(* Starting and stopping the program (main.c, utils/kill_others.c,         *)
(* clients/gui_client.c start_web, utils/linux_status_icon.c).             *)
(*                                                                         *)
(* Only one web client is to run at a time: each start reads its           *)
(* configuration, then sends SIGTERM to every other process of its name    *)
(* that it finds in /proc, waits 5 ms if there was one, forks the          *)
(* clipboard listener and the tray icon, and serves the page.  Commands do *)
(* not stop anything, but may be stopped.                                  *)
(*                                                                         *)
(* A process is named by the start it stems from and by its part.  The     *)
(* daemon that goes on where the parent returns keeps that name, but it    *)
(* has a number of its own, under which a scan may miss it.                *)
(***************************************************************************)
EXTENDS ClientConfig, FiniteSets

CONSTANTS
    MaxStarts,    \* bound: times the program is started
    Setups        \* the situations to explore, see SetupsAssumption

\* starts: how often the program is started
\* ways:   what each start may be for, "web" for the web client, "command" for -c,
\*         "stop" for -s, what is in the configuration file then, and whether
\*         it becomes a daemon, FALSE for -D
ASSUME MaxStartsAssumption == MaxStarts \in Nat
ASSUME SetupsAssumption ==
    \A s \in DOMAIN Setups :
       /\ Setups[s].starts \in 0 .. MaxStarts
       /\ \A n \in 1 .. Setups[s].starts : \A w \in Setups[s].ways[n] :
             /\ w[1] \in {"web", "command", "stop"} /\ w[3] \in BOOLEAN
             /\ Len(w[2]) \in Nat /\ \A i \in 1 .. Len(w[2]) : LegalLine(w[2][i])

VARIABLES
    setup,      \* the situation, fixed at the start
    begun,      \* starts so far
    way,        \* what each of them is for, with its file and -D
    configuration,  \* what each of them has made of that
    pc,         \* where each process is
    listed,     \* who ran when each process opened /proc, and still has that number
    visited,    \* whom each process has sent SIGTERM
    request,    \* of each web client: "none", "busy", "done", or "hung" for good
    unserved,   \* starts that could not serve the page
    quit        \* the user chose Quit in the menu of the tray icon

vars == <<setup, begun, way, configuration, pc, listed, visited, request, unserved, quit>>

Starts == 1 .. MaxStarts
Parts  == {"main", "listener", "icon", "holder"}
Procs  == Starts \X Parts

Main(n) == <<n, "main">>
Live(p) == pc[p] \notin {"none", "gone"}

\* What every file comes to.
Files   == UNION {UNION {{w[2] : w \in Setups[s].ways[n]} : n \in 1 .. Setups[s].starts} :
                     s \in DOMAIN Setups}
Outcome == [file \in Files |-> Configured(file)]

Role(n)   == way[n][1]
File(n)   == way[n][2]
Status(n) == configuration[n].status
Asks(n, option) == configuration[n].option[option] = 1
Signalled(p) == \E q \in Procs : p \in visited[q]

\* The values the C types of the options have room for.
Typed(cfg) ==
    /\ \A o \in Ports  : cfg.option[o] \in 1 .. 2 ^ Short - 1
    /\ \A o \in Counts : cfg.option[o] \in 1 .. 2 ^ Half - 2
    /\ \A o \in Sizes  : cfg.option[o] \in 1 .. 2 ^ (Word - 1) - 1
    /\ \A o \in Booleans : cfg.option[o] \in {0, 1}

TypeOK ==
    /\ setup \in DOMAIN Setups /\ begun \in 0 .. MaxStarts
    /\ way \in [1 .. begun -> UNION {Setups[setup].ways[n] : n \in 1 .. Setups[setup].starts}]
    /\ begun <= Setups[setup].starts /\ \A n \in 1 .. begun : way[n] \in Setups[setup].ways[n]
    /\ DOMAIN configuration = Starts
    /\ \A n \in Starts : /\ Status(n) \in {"none", "ok", "error", "endless"}
                         /\ Status(n) = "ok" => Typed(configuration[n])
    /\ pc \in [Procs -> {"none", "read", "endless", "open", "scan", "sleep", "fork", "listener", "icon",
                         "bind", "serve", "run", "exit", "gone"}]
    /\ listed \in [Procs -> SUBSET Procs] /\ visited \in [Procs -> SUBSET Procs]
    /\ request \in [Starts -> {"none", "busy", "done", "hung"}]
    /\ unserved \subseteq Starts /\ quit \in BOOLEAN

Init ==
    /\ setup \in DOMAIN Setups
    /\ begun = 0
    /\ way = <<>>
    /\ configuration = [n \in Starts |-> [status |-> "none"]]
    /\ pc = [p \in Procs |-> "none"]
    /\ listed = [p \in Procs |-> {}] /\ visited = [p \in Procs |-> {}]
    /\ request = [n \in Starts |-> "none"]
    /\ unserved = {} /\ quit = FALSE

To(p, from, to) == pc[p] = from /\ pc' = [pc EXCEPT ![p] = to]

-----------------------------------------------------------------------------
(* main *)

\* -s needs no configuration.
FirstStep(r) == IF r = "stop" THEN "open" ELSE "read"

Begin ==
    /\ begun < Setups[setup].starts
    /\ begun' = begun + 1
    /\ \E w \in Setups[setup].ways[begun + 1] :
          /\ way' = Append(way, w)
          /\ pc' = [pc EXCEPT ![Main(begun + 1)] = FirstStep(w[1])]
    /\ UNCHANGED <<setup, configuration, listed, visited, request, unserved, quit>>

\* Mutant of ReadConf: what is wrong with the configuration is only reported.
ReadConfLenient(n) ==
    /\ To(Main(n), "read", IF Role(n) = "command" THEN "run" ELSE "open")
    /\ configuration' = [configuration EXCEPT ![n] = Outcome[File(n)]]
    /\ UNCHANGED <<setup, begun, way, listed, visited, request, unserved, quit>>

\* Whatever is wrong with the configuration ends the program here.
ReadConf(n) ==
    LET cfg == Outcome[File(n)]
    IN  /\ To(Main(n), "read", CASE cfg.status = "ok" /\ Role(n) = "web"     -> "open"
                                 [] cfg.status = "ok" /\ Role(n) = "command" -> "run"
                                 [] cfg.status = "error"                     -> "gone"
                                 [] cfg.status = "endless"                   -> "endless")
        /\ configuration' = [configuration EXCEPT ![n] = cfg]
        /\ UNCHANGED <<setup, begun, way, listed, visited, request, unserved, quit>>

\* A command ends; if it received something, a child of its stays and holds
\* the clipboard until another program takes it.
EndCommand(n) ==
    /\ pc[Main(n)] = "run"
    /\ \/ pc' = [pc EXCEPT ![Main(n)] = "gone"]
       \/ /\ ~Signalled(Main(n))
          /\ pc' = [pc EXCEPT ![Main(n)] = "gone", ![<<n, "holder">>] = "run"]
    /\ UNCHANGED <<setup, begun, way, configuration, listed, visited, request, unserved, quit>>

-----------------------------------------------------------------------------
(* kill_other_processes *)

Others(p) == {q \in Procs : Live(q) /\ q # p}

\* main goes on to the fork; after -s and Quit there is nothing left to do.
AfterScan(p) == IF p[2] = "main" /\ Role(p[1]) = "web" THEN "fork" ELSE "gone"

\* If /proc cannot be opened nobody is looked for.
OpenProc(p) ==
    /\ \/ To(p, "open", "scan") /\ listed' = [listed EXCEPT ![p] = Others(p)]
       \/ To(p, "open", AfterScan(p)) /\ listed' = [listed EXCEPT ![p] = {}]
    /\ UNCHANGED <<setup, begun, way, configuration, visited, request, unserved, quit>>

\* Mutant of Found: its own number is not left out.
FoundItself(p) == {q \in Procs : Live(q) /\ q \notin visited[p]}

\* Mutant of Found: the children of a web client are taken for its own.
FoundMains(p) == {q \in Others(p) \ visited[p] : q[2] = "main"}

\* The entries that readdir may come to.
Found(p) == Others(p) \ visited[p]

\* It comes to everyone who ran from the start.  Who came later, or has got
\* another number since, may be missing from what was read ahead.
Unvisited(p) == Found(p) \cap listed[p]

KillOther(p) ==
    /\ pc[p] = "scan"
    /\ \E q \in Found(p) :
          visited' = [visited EXCEPT ![p] = @ \cup {q}]
    /\ UNCHANGED <<setup, begun, way, configuration, pc, listed, request, unserved, quit>>

\* Mutant of ScanOver: the loop ends after the first signal.
ScanOverAfterOne(p) ==
    /\ To(p, "scan", "sleep")
    /\ Unvisited(p) = {} \/ visited[p] # {}
    /\ UNCHANGED <<setup, begun, way, configuration, listed, visited, request, unserved, quit>>

ScanOver(p) ==
    /\ To(p, "scan", "sleep")
    /\ Unvisited(p) = {}
    /\ UNCHANGED <<setup, begun, way, configuration, listed, visited, request, unserved, quit>>

\* 5 ms, whatever has ended by then.
SleepOver(p) ==
    /\ To(p, "sleep", AfterScan(p))
    /\ UNCHANGED <<setup, begun, way, configuration, listed, visited, request, unserved, quit>>

-----------------------------------------------------------------------------
(* The processes of the web client.  fork does not succeed with a signal pending. *)

\* No scan has listed the number of the daemon.
Daemonize(n) ==
    /\ \/ To(Main(n), "fork", "listener") /\ ~way[n][3] /\ UNCHANGED <<listed, unserved>>
       \/ /\ To(Main(n), "fork", "listener") /\ way[n][3] /\ ~Signalled(Main(n))
          /\ listed' = [p \in Procs |-> listed[p] \ {Main(n)}]
          /\ UNCHANGED unserved
       \/ /\ To(Main(n), "fork", "gone") /\ way[n][3]
          /\ unserved' = unserved \cup {n} /\ UNCHANGED listed
    /\ UNCHANGED <<setup, begun, way, configuration, visited, request, quit>>

\* A child is forked if the configuration asks for it; nobody looks whether it was.
ForkChild(n, part, next, wanted) ==
    /\ pc[Main(n)] = part
    /\ \/ pc' = [pc EXCEPT ![Main(n)] = next]
       \/ /\ wanted /\ ~Signalled(Main(n))
          /\ pc' = [pc EXCEPT ![Main(n)] = next, ![<<n, part>>] = "run"]
    /\ UNCHANGED <<setup, begun, way, configuration, listed, visited, request, unserved, quit>>

ForkListener(n) ==
    ForkChild(n, "listener", "icon",
              Asks(n, "auto_send_text") \/ Asks(n, "auto_send_files"))

ForkIcon(n) == ForkChild(n, "icon", "bind", Asks(n, "tray_icon"))

Port(n)   == configuration[n].option["web_port"]
Taken(n)  == \E m \in Starts : pc[Main(m)] \in {"serve", "exit"} /\ Port(m) = Port(n)

\* Without the port start_web returns, and the process ends.
StartWeb(n) ==
    /\ \/ To(Main(n), "bind", "serve") /\ ~Taken(n) /\ UNCHANGED unserved
       \/ To(Main(n), "bind", "gone") /\ Taken(n) /\ unserved' = unserved \cup {n}
    /\ UNCHANGED <<setup, begun, way, configuration, listed, visited, request, quit>>

BeginRequest(n) ==
    /\ pc[Main(n)] = "serve" /\ request[n] = "none"
    /\ request' = [request EXCEPT ![n] = "busy"]
    /\ UNCHANGED <<setup, begun, way, configuration, pc, listed, visited, unserved, quit>>

\* It may also wait for good, for the owner of the clipboard or in a loop over
\* a file that cannot be read.
EndRequest(n) ==
    /\ request[n] = "busy"
    /\ \E outcome \in {"done", "hung"} : request' = [request EXCEPT ![n] = outcome]
    /\ UNCHANGED <<setup, begun, way, configuration, pc, listed, visited, unserved, quit>>

\* on_quit of the tray icon.
Quit(n) ==
    /\ To(<<n, "icon">>, "run", "open")
    /\ quit' = TRUE
    /\ UNCHANGED <<setup, begun, way, configuration, listed, visited, request, unserved>>

\* The listener or the icon has no display, or the clipboard is taken over.
ChildEnds(n) ==
    /\ \E part \in {"listener", "icon", "holder"} : To(<<n, part>>, "run", "gone")
    /\ UNCHANGED <<setup, begun, way, configuration, listed, visited, request, unserved, quit>>

-----------------------------------------------------------------------------
(* exit_on_signal_handler and cleanup *)

Busy(p) == p[2] = "main" /\ request[p[1]] \in {"busy", "hung"}

\* MHD_stop_daemon waits for a request that is under way.
Terminate(p) ==
    /\ Live(p) /\ Signalled(p)
    /\ pc[p] # "exit"
    /\ pc' = [pc EXCEPT ![p] = IF pc[p] = "serve" THEN "exit" ELSE "gone"]
    /\ UNCHANGED <<setup, begun, way, configuration, listed, visited, request, unserved, quit>>

Exit(p) ==
    /\ To(p, "exit", "gone")
    /\ ~Busy(p)
    /\ UNCHANGED <<setup, begun, way, configuration, listed, visited, request, unserved, quit>>

-----------------------------------------------------------------------------
MainStep(n) ==
    \/ ReadConf(n) \/ EndCommand(n) \/ Daemonize(n) \/ ForkListener(n) \/ ForkIcon(n)
    \/ StartWeb(n) \/ EndRequest(n)

ProcStep(p) ==
    \/ OpenProc(p) \/ KillOther(p) \/ ScanOver(p) \/ SleepOver(p) \/ Terminate(p) \/ Exit(p)

UserStep == Begin \/ \E n \in Starts : BeginRequest(n) \/ Quit(n) \/ ChildEnds(n)

Next == UserStep \/ (\E n \in Starts : MainStep(n)) \/ (\E p \in Procs : ProcStep(p))

\* Processes run on, and requests end or hang; the user need not do anything.  The user
\* does finitely many things here, each followed by finitely many steps, so
\* this is the same as fairness of each process.
Spec ==
    /\ Init /\ [][Next]_vars
    /\ WF_vars((\E n \in Starts : MainStep(n)) \/ (\E p \in Procs : ProcStep(p)))

-----------------------------------------------------------------------------
(* Properties *)

\* "Stop running instances": everyone who ran when a start, -s or Quit began to
\* look comes to its end, also who was about to fork.  Only a request that hangs
\* keeps a client, in its exit.
EarlierInstancesEnd ==
    \A p \in Starts \X {"main", "icon"} :
       pc[p] = "sleep" ~> \A q \in listed[p] : Live(q) => q[2] = "main" /\ request[q[1]] = "hung"

\* When nothing is starting or ending, what runs of the web client stems from
\* one start: never the page of one instance and the listener of another.  All
\* that escapes is who came, or was forked, after the other one had begun to look,
\* and everyone if /proc could not be opened.
OneInstance ==
    LET parts == {p \in Procs : Live(p) /\ p[2] # "holder" /\ Role(p[1]) = "web"
                                        /\ pc[p] \notin {"read", "endless"}}
    IN  (\A p \in parts : pc[p] \in {"serve", "run"} /\ ~Signalled(p))
           => \A p, q \in parts : p[1] = q[1] \/ q \notin listed[Main(p[1])]

\* A start with a configuration that is refused, and a command, leave the web
\* client alone: it stops only for a start that can take its place, or if the
\* user asked for it.
GoneOnlyIfReplaced ==
    [][\A n \in Starts :
          pc[Main(n)] = "serve" /\ pc'[Main(n)] # "serve" =>
             \/ quit
             \/ \E m \in 1 .. begun : m # n /\ Role(m) = "stop"
             \/ \E m \in 1 .. begun : /\ m # n /\ Role(m) = "web"
                                      /\ Status(m) = "ok"]_vars

\* A start that nobody stops misses its port only to a client that it has
\* signalled and that has not ended within the 5 ms, or that its scan could miss:
\* one that became a daemon later, or any if /proc could not be opened.
PortStillHeld ==
    [][\A n \in Starts :
          n \in unserved' \ unserved /\ pc[Main(n)] = "bind" /\ ~Signalled(Main(n)) =>
             \E m \in Starts \ {n} :
                /\ pc[Main(m)] \in {"serve", "exit"} /\ Port(m) = Port(n)
                /\ Main(m) \in visited[Main(n)] \/ Main(m) \notin listed[Main(n)]]_vars

\* A start whose configuration is accepted comes to serve the page, unless it
\* cannot fork or has no port (see PortStillHeld), or another one stops it.
AcceptedStartServes ==
    \A n \in Starts :
       Status(n) = "ok" /\ Role(n) = "web"
          ~> \/ pc[Main(n)] = "serve" \/ n \in unserved
             \/ \E p \in Procs \ {Main(n)} : Main(n) \in visited[p]

\* Every start comes to the end of its configuration.  The code does not have
\* this property: an empty line in a list of servers is read again and again.
ReadingEnds == \A n \in Starts : pc[Main(n)] = "read" ~> pc[Main(n)] \notin {"read", "endless"}

\* The program runs with a range of versions that it implements and that is
\* not empty, as negotiation takes for granted.
VersionsInRange ==
    \A n \in 1 .. begun : Status(n) = "ok" =>
       /\ PROTOCOL_MIN <= configuration[n].option["min_proto_version"]
       /\ configuration[n].option["min_proto_version"] <= configuration[n].option["max_proto_version"]
       /\ configuration[n].option["max_proto_version"] <= PROTOCOL_MAX

\* A limit that is accepted is what the user wrote, digits times suffix, and in
\* the range of its type; what is in the range that both the comments of the
\* setters and the documentation name is accepted.  They name different ranges,
\* so three things are left open: sizes from 2^61 to 2^63 - 1, which the comment
\* of set_int64 excludes and the documentation allows (the code takes them
\* without a suffix, and refuses them with one), and the count 2^32 - 1, which
\* the documentation allows for two of the options (the code refuses it).
\* Signs are left out, and sizes with a suffix whose digits exceed int64_t: the
\* product of those may be anything.
LimitsExact ==
    \A n \in 1 .. begun : Len(File(n)) = 1 /\ ~File(n)[1].missing /\ Status(n) # "none" =>
       LET line  == File(n)[1]
           key   == line.key
           text  == line.value
           size  == key \in Sizes
           exact == text.digits * Factor(text.suffix)
           type  == IF size THEN 2 ^ (Word - 1) - 1 ELSE 2 ^ Half - 2
           named == IF size THEN 2 ^ (Word - 3) - 1 ELSE 2 ^ Half - 2
       IN  (/\ key \in Counts \cup Sizes
            /\ WellFormed(text, {"none", "k", "m", "g"} \cup IF size THEN {"t"} ELSE {})
            /\ ~text.negative
            /\ ~(size /\ text.suffix # "none" /\ text.digits >= 2 ^ (Word - 1)))
              => /\ exact \in 1 .. named => Status(n) = "ok"
                 /\ Status(n) = "ok" => exact \in 1 .. type /\ configuration[n].option[key] = exact

\* In every state: well formed, and versions to negotiate with.
StartupInv == TypeOK /\ VersionsInRange
=============================================================================
