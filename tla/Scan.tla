-------------------------------- MODULE Scan --------------------------------
(***************************************************************************)
(* The scan for servers (clients/udp_scan.c, udp_scan): one thread for     *)
(* each network interface sends a broadcast and appends whoever answers to *)
(* one list.  The caller waits for a first answer and a little more, then   *)
(* cancels the threads without waiting for them, destroys their mutex and  *)
(* filters the list.  The automatic sender (utils/clipboard_listener.c,    *)
(* scan_servers) then keeps the servers it may send to.                    *)
(*                                                                         *)
(* An address is a number; all that matters of it is whose it is and the   *)
(* order in which strncmp puts it.                                         *)
(***************************************************************************)
EXTENDS Naturals, Sequences, FiniteSets

CONSTANTS
    MaxInterfaces,  \* bound: IPv4 interfaces that are not the loopback
    MaxThreads,     \* MAX_THREADS
    FilterMax,      \* entries at which a list is not filtered any more: 1024
    Setups          \* the situations to explore, see SetupsAssumption

\* own:     the address of this machine on each interface
\* reach:   the addresses that can answer on each interface
\* allowed: auto_send_servers, none if all are allowed
ASSUME MaxThreadsAssumption == MaxThreads \in Nat \ {0}
ASSUME MaximaAssumption == {MaxInterfaces, FilterMax} \subseteq Nat
ASSUME SetupsAssumption ==
    \A s \in Setups :
        /\ s.reach \in Seq(SUBSET (Nat \ {0})) /\ Len(s.reach) <= MaxInterfaces
        /\ s.own \in Seq(Nat \ {0}) /\ Len(s.own) = Len(s.reach)

Interfaces == 1 .. MaxInterfaces

VARIABLES
    setup,    \* the situation, fixed at the start
    phase,    \* where the caller is
    visited,  \* interfaces the caller has looked at
    worker,   \* where the thread of each interface is
    cancel,   \* threads that have been cancelled
    sock,     \* interfaces whose socket is open
    inbox,    \* answers each socket has not read yet
    hold,     \* address a thread is about to append, 0 for none
    slot,     \* index at which it will store it
    locked,   \* the thread that holds the mutex, 0 for none
    list,     \* server_lst
    turn,     \* the entry a filter looks at
    heard,    \* addresses appended before the list was filtered
    late,     \* addresses appended, or about to be, after that began
    corrupt   \* a cancelled thread has spoiled memory that is in use

threadVars == <<worker, cancel, sock, inbox, hold, slot, locked>>
vars == <<setup, phase, visited, threadVars, list, turn, heard, late, corrupt>>

Up        == DOMAIN setup.reach  \* interfaces there are
Addresses == UNION {setup.reach[i] : i \in Up}
Started   == {i \in Interfaces : worker[i] # "none"}

TypeOK ==
    /\ setup \in Setups
    /\ phase \in {"start", "wait", "grace", "stop", "own", "twice", "returned", "allowed", "selected"}
    /\ visited \in 0 .. Len(setup.reach)
    /\ worker \in [Interfaces -> {"none", "new", "send", "read", "lock", "store", "stuck", "ended"}]
    /\ cancel \subseteq Interfaces /\ sock \subseteq Interfaces
    /\ inbox \in [Interfaces -> SUBSET Addresses]
    /\ \A i \in Up : inbox[i] \subseteq setup.reach[i]
    /\ hold \in [Interfaces -> Addresses \cup {0}]
    /\ slot \in [Interfaces -> Nat]
    /\ locked \in Interfaces \cup {0}
    /\ list \in Seq(Addresses) /\ turn \in Nat
    /\ heard \cup late \subseteq Addresses
    /\ corrupt \in BOOLEAN

Init ==
    /\ setup \in Setups
    /\ phase = "start" /\ visited = 0
    /\ worker = [i \in Interfaces |-> "none"]
    /\ cancel = {} /\ sock = {}
    /\ inbox = [i \in Interfaces |-> {}]
    /\ hold = [i \in Interfaces |-> 0]
    /\ slot = [i \in Interfaces |-> 0]
    /\ locked = 0
    /\ list = <<>> /\ turn = 0
    /\ heard = {} /\ late = {}
    /\ corrupt = FALSE

\* Another scan, with threads, sockets, a mutex and a list of its own.
BeginAgain ==
    /\ phase' = "start" /\ visited' = 0
    /\ worker' = [i \in Interfaces |-> "none"]
    /\ cancel' = {} /\ sock' = {}
    /\ inbox' = [i \in Interfaces |-> {}]
    /\ hold' = [i \in Interfaces |-> 0]
    /\ slot' = [i \in Interfaces |-> 0]
    /\ locked' = 0
    /\ list' = <<>> /\ turn' = 0
    /\ heard' = {} /\ late' = {}

\* The caller no longer expects anything from the threads.
Late == phase \in {"own", "twice", "returned", "allowed", "selected"}

-----------------------------------------------------------------------------
(* scan_fn *)

To(i, from, to) == worker[i] = from /\ worker' = [worker EXCEPT ![i] = to]

\* What a thread leaves alone until it comes to the list.
Elsewhere == UNCHANGED <<setup, phase, visited, cancel, slot, locked, list, turn, heard, late, corrupt>>

OpenSocket(i) ==
    /\ \/ To(i, "new", "send") /\ sock' = sock \cup {i}
       \/ To(i, "new", "ended") /\ UNCHANGED sock
    /\ UNCHANGED <<inbox, hold>> /\ Elsewhere

\* Some of the servers hear the broadcast, and some of their answers arrive.
Broadcast(i) ==
    /\ To(i, "send", "read")
    /\ i \notin cancel
    /\ \E answers \in SUBSET setup.reach[i] :
          inbox' = [inbox EXCEPT ![i] = IF i \in sock THEN answers ELSE {}]
    /\ UNCHANGED <<sock, hold>> /\ Elsewhere

ReceiveAnswer(i) ==
    /\ To(i, "read", "lock")
    /\ i \notin cancel /\ i \in sock
    /\ \E a \in inbox[i] :
          /\ hold' = [hold EXCEPT ![i] = a]
          /\ inbox' = [inbox EXCEPT ![i] = @ \ {a}]
    /\ UNCHANGED sock /\ Elsewhere

\* Mutant of Lock: the list is read whoever else is about to store.
ReadUnlocked(i) ==
    /\ To(i, "lock", "store")
    /\ slot' = [slot EXCEPT ![i] = Len(list) + 1]
    /\ late' = IF Late THEN late \cup {hold[i]} ELSE late
    /\ UNCHANGED <<setup, phase, visited, cancel, sock, inbox, hold, locked, list, turn, heard, corrupt>>

\* The mutex is taken and append finds the end of the list.
Lock(i) ==
    /\ ~Late
    /\ To(i, "lock", "store")
    /\ locked = 0
    /\ locked' = i
    /\ slot' = [slot EXCEPT ![i] = Len(list) + 1]
    /\ UNCHANGED <<setup, phase, visited, cancel, sock, inbox, hold, list, turn, heard, late, corrupt>>

\* The mutex has been destroyed, and its place on the stack is used again: it
\* may be refused, block the thread for good, or seem to be free.
LockDead(i) ==
    /\ Late
    /\ \/ /\ To(i, "lock", "read")
          /\ hold' = [hold EXCEPT ![i] = 0]
          /\ UNCHANGED <<slot, late>>
       \/ /\ To(i, "lock", "stuck")
          /\ UNCHANGED <<hold, slot, late>>
       \/ /\ To(i, "lock", "store")
          /\ slot' = [slot EXCEPT ![i] = Len(list) + 1]
          /\ late' = late \cup {hold[i]}
          /\ UNCHANGED hold
    /\ UNCHANGED <<setup, phase, visited, cancel, sock, inbox, locked, list, turn, heard, corrupt>>

\* A list with an address at index k.
Stored(k, a) == [j \in 1 .. (IF k > Len(list) THEN k ELSE Len(list)) |-> IF j = k THEN a ELSE list[j]]

Unlock(i) ==
    /\ locked' = IF locked = i THEN 0 ELSE locked
    /\ hold' = [hold EXCEPT ![i] = 0]
    /\ slot' = [slot EXCEPT ![i] = 0]

Store(i) ==
    /\ ~Late
    /\ To(i, "store", "read")
    /\ list' = Stored(slot[i], hold[i])
    /\ heard' = heard \cup {hold[i]}
    /\ Unlock(i)
    /\ UNCHANGED <<setup, phase, visited, cancel, sock, inbox, turn, late, corrupt>>

\* The caller filters the list, or uses it.  If the end is still where it was
\* found the address may be appended; but the thread may also spoil the list,
\* or the stack when it unlocks the mutex, and nothing is known from then on.
StoreLate(i) ==
    /\ Late
    /\ To(i, "store", "read")
    /\ \/ /\ slot[i] = Len(list) + 1
          /\ list' = Append(list, hold[i])
          /\ corrupt' \in BOOLEAN
       \/ /\ slot[i] # Len(list) + 1
          /\ corrupt' = TRUE
          /\ UNCHANGED list
    /\ late' = late \cup {hold[i]}
    /\ Unlock(i)
    /\ UNCHANGED <<setup, phase, visited, cancel, sock, inbox, turn, heard>>

\* After 256 answers or receive timeouts; or when it is cancelled, which takes
\* effect where a thread sends or receives.
EndThread(i) ==
    /\ \/ To(i, "read", "ended") /\ sock' = sock \ {i}
       \/ To(i, "send", "ended") /\ i \in cancel /\ UNCHANGED sock
    /\ UNCHANGED <<inbox, hold>> /\ Elsewhere

-----------------------------------------------------------------------------
(* udp_scan *)

Enter(next) == phase' = next
Waiting     == UNCHANGED <<setup, visited, threadVars, list, heard, late, corrupt>>

\* The address of an interface is noted, and a thread started for it unless
\* there is no memory for one.
StartThread ==
    /\ phase = "start"
    /\ Cardinality(Started) < MaxThreads /\ visited + 1 \in Up
    /\ visited' = visited + 1
    /\ \E at \in {"none", "new"} : worker' = [worker EXCEPT ![visited + 1] = at]
    /\ UNCHANGED <<setup, phase, cancel, sock, inbox, hold, slot, locked, list, turn, heard, late, corrupt>>

AllStarted ==
    /\ phase = "start"
    /\ Cardinality(Started) = MaxThreads \/ visited + 1 \notin Up
    /\ Enter("wait")
    /\ UNCHANGED turn /\ Waiting

\* Someone answered, or 40 x 50 ms have passed.
WaitOver ==
    /\ phase = "wait"
    /\ Enter("grace")
    /\ UNCHANGED turn /\ Waiting

GraceOver ==
    /\ phase = "grace"
    /\ Enter("stop")
    /\ UNCHANGED turn /\ Waiting

\* pthread_cancel does not wait for the thread.
StopThread ==
    /\ phase = "stop"
    /\ \E i \in Started \ cancel :
          /\ \A j \in Started \ cancel : i <= j
          /\ cancel' = cancel \cup {i}
          /\ sock' = sock \ {i}
    /\ UNCHANGED <<setup, phase, visited, worker, inbox, hold, slot, locked, list, turn, heard, late, corrupt>>

\* The mutex is destroyed; an empty list is not filtered.
AllStopped ==
    /\ phase = "stop"
    /\ Started \subseteq cancel
    /\ Enter(IF list = <<>> THEN "returned" ELSE "own")
    /\ turn' = 1
    /\ Waiting

-----------------------------------------------------------------------------
(* The filters: filter_addresses, and scan_servers of the sender *)

addr_lst == {setup.own[i] : i \in 1 .. visited}

\* An entry is removed by moving the last one to its place.
RemoveAt(q, i) == [j \in 1 .. Len(q) - 1 |-> IF j = i THEN q[Len(q)] ELSE q[j]]

Filtering == UNCHANGED <<setup, visited, threadVars, heard, late, corrupt>>

\* One turn of a loop; after a removal the same index is looked at again.
Turn(loop, unwanted) ==
    /\ phase = loop
    /\ turn <= Len(list)
    /\ \/ unwanted /\ list' = RemoveAt(list, turn) /\ UNCHANGED turn
       \/ ~unwanted /\ turn' = turn + 1 /\ UNCHANGED list
    /\ UNCHANGED phase /\ Filtering

\* Mutant of OwnTurn: the entry that was moved is not looked at.
OwnTurnSkips ==
    /\ phase = "own"
    /\ turn <= Len(list)
    /\ list' = IF list[turn] \in addr_lst THEN RemoveAt(list, turn) ELSE list
    /\ turn' = turn + 1
    /\ UNCHANGED phase /\ Filtering

OwnTurn == Turn("own", list[turn] \in addr_lst)

\* qsort: at each place the entry that has fewer than so many before it, and
\* with its equals at least as many.
Sorted(q) ==
    LET below(a) == Cardinality({i \in DOMAIN q : q[i] < a})
        upTo(a)  == Cardinality({i \in DOMAIN q : q[i] <= a})
    IN  [k \in 1 .. Len(q) |->
            CHOOSE a \in {q[i] : i \in DOMAIN q} : below(a) < k /\ k <= upTo(a)]

OwnOver ==
    /\ phase = "own" /\ turn > Len(list)
    /\ list' = Sorted(list)
    /\ Enter("twice") /\ turn' = 2
    /\ Filtering

TwiceTurn == Turn("twice", list[turn - 1] = list[turn])

TwiceOver ==
    /\ phase = "twice" /\ turn > Len(list)
    /\ Enter("returned") /\ turn' = 1
    /\ UNCHANGED list /\ Filtering

Select ==
    /\ phase = "returned"
    /\ Enter(IF setup.allowed # {} /\ Len(list) < FilterMax THEN "allowed" ELSE "selected")
    /\ turn' = 1
    /\ UNCHANGED list /\ Filtering

AllowedTurn == Turn("allowed", list[turn] \notin setup.allowed)

AllowedOver ==
    /\ phase = "allowed" /\ turn > Len(list)
    /\ Enter("selected")
    /\ UNCHANGED <<list, turn>> /\ Filtering

-----------------------------------------------------------------------------
Worker(i) ==
    \/ OpenSocket(i) \/ Broadcast(i) \/ ReceiveAnswer(i) \/ Lock(i) \/ LockDead(i)
    \/ Store(i) \/ StoreLate(i) \/ EndThread(i)

Caller ==
    \/ StartThread \/ AllStarted \/ WaitOver \/ GraceOver \/ StopThread \/ AllStopped
    \/ OwnTurn \/ OwnOver \/ TwiceTurn \/ TwiceOver \/ Select \/ AllowedTurn \/ AllowedOver

-----------------------------------------------------------------------------
(* Properties *)

Found == {list[j] : j \in DOMAIN list}

\* No answer that came in time is lost, however the threads interleave, even if
\* one of them still appends to the list while it is filtered.
AnswersKept == phase = "returned" => heard \ addr_lst \subseteq Found

\* A thread that holds the mutex is about to give it back: cancelling it does
\* not leave the others waiting.
HolderReleases == locked # 0 => worker[locked] = "store"

=============================================================================
