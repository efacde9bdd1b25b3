------------------------------ MODULE AutoSend ------------------------------
(***************************************************************************)
(* What the automatic sender does with one change of the clipboard          *)
(* (utils/clipboard_listener.c, send_to_servers): if that kind of contents *)
(* is to be sent, it scans for servers, once more if there are none, starts *)
(* a thread for each server, waits for all of them and frees the list.     *)
(* Each thread reads the clipboard itself, see module Selection.            *)
(*                                                                         *)
(* The scan is that of module Scan.  Its threads are cancelled and not     *)
(* joined, so one of them may append to the list while it is in use here.  *)
(***************************************************************************)
EXTENDS Scan

CONSTANT SendMax  \* entries of a list that is used: 512

\* enabled: the kinds of contents with auto_send_text or auto_send_files
\* type:    the kind of the contents when their change was noticed
ASSUME SendMaxAssumption == SendMax \in Nat /\ SendMax < FilterMax
ASSUME SendSetupsAssumption ==
    \A s \in Setups : s.enabled \cup {s.type} \subseteq {"text", "file"}

VARIABLES
    stage,    \* where send_to_servers is
    attempt,  \* number of the scan
    threads,  \* the array of send_in_threads: server and state of each thread
    joined,   \* entries of it that have been waited for
    sent      \* the servers something was sent to

sendVars == <<stage, attempt, threads, joined, sent>>
allVars  == <<vars, sendVars>>

SendTypeOK ==
    /\ TypeOK
    /\ stage \in {"scan", "create", "join", "over", "wild"}
    /\ attempt \in 1 .. 2
    /\ threads \in Seq([server : Addresses, at : {"none", "new", "open", "hung", "ended"}])
    /\ joined \in 0 .. Len(threads)
    /\ sent \subseteq Addresses

Wanted == setup.type \in setup.enabled

SendInit ==
    /\ Init
    /\ stage = IF Wanted THEN "scan" ELSE "over"
    /\ attempt = 1
    /\ threads = <<>> /\ joined = 0
    /\ sent = {}

-----------------------------------------------------------------------------
(* scan_servers *)

ScanStep ==
    /\ stage = "scan"
    /\ Caller
    /\ UNCHANGED sendVars

Usable(servers) == Len(servers) \in 1 .. SendMax

Alive == {i \in Interfaces : worker[i] \notin {"none", "stuck", "ended"}}

\* The list that is not used is freed.  What the threads of that scan still do
\* is out of sight, unless they spoil memory that is in use again.
Scanned ==
    /\ stage = "scan" /\ phase = "selected"
    /\ \/ /\ Usable(list)
          /\ stage' = "create"
          /\ UNCHANGED <<vars, attempt>>
       \/ /\ ~Usable(list) /\ attempt = 1
          /\ attempt' = 2
          /\ BeginAgain
          /\ corrupt' \in {FALSE, Alive # {}}
          /\ UNCHANGED <<setup, stage>>
       \/ /\ ~Usable(list) /\ attempt = 2
          /\ stage' = "over"
          /\ UNCHANGED <<vars, attempt>>
    /\ UNCHANGED <<threads, joined, sent>>

-----------------------------------------------------------------------------
(* send_in_threads *)

Create ==
    /\ stage = "create"
    /\ Len(threads) < Len(list)
    /\ \E at \in {"none", "new"} :
          threads' = Append(threads, [server |-> list[Len(threads) + 1], at |-> at])
    /\ UNCHANGED <<vars, stage, attempt, joined, sent>>

CreateOver ==
    /\ stage = "create"
    /\ Len(threads) >= Len(list)
    /\ stage' = "join"
    /\ UNCHANGED <<vars, attempt, threads, joined, sent>>

\* Mutants of Awaits: no thread is waited for; so is one that was not created.
AwaitsNone(thread) == FALSE
AwaitsAll(thread)  == thread.at # "ended"

Awaits(thread) == thread.at \notin {"none", "ended"}

\* The entry of a thread that was never created, because the list was shorter
\* in the loop before, is not initialized.
Join ==
    /\ stage = "join"
    /\ joined < Len(list)
    /\ \/ /\ joined < Len(threads)
          /\ ~Awaits(threads[joined + 1])
          /\ joined' = joined + 1
          /\ UNCHANGED stage
       \/ /\ joined >= Len(threads)
          /\ stage' = "wild"
          /\ UNCHANGED joined
    /\ UNCHANGED <<vars, attempt, threads, sent>>

\* free_list
JoinOver ==
    /\ stage = "join"
    /\ joined >= Len(list)
    /\ stage' = "over"
    /\ UNCHANGED <<vars, attempt, threads, joined, sent>>

-----------------------------------------------------------------------------
(* send_to_server *)

Go(j, from, to) == threads[j].at = from /\ threads' = [threads EXCEPT ![j].at = to]

Connect(j) ==
    /\ Go(j, "new", "open") \/ Go(j, "new", "ended")
    /\ UNCHANGED <<vars, stage, attempt, joined, sent>>

\* The exchange of module Client: something may be sent.  It may never end:
\* the program that owns the selection may not answer, or a file be truncated.
Transfer(j) ==
    /\ Go(j, "open", "ended") \/ Go(j, "open", "hung")
    /\ sent' = sent \cup {threads[j].server} \/ UNCHANGED sent
    /\ UNCHANGED <<vars, stage, attempt, joined>>

-----------------------------------------------------------------------------
\* A thread of the scan goes on, whatever the sender does.
ScanThread(i) == ~corrupt /\ Worker(i) /\ UNCHANGED sendVars

Sender == ~corrupt /\ (ScanStep \/ Scanned \/ Create \/ CreateOver \/ Join \/ JoinOver)

SendThread(j) == ~corrupt /\ (Connect(j) \/ Transfer(j))

SendNext ==
    \/ Sender
    \/ \E i \in Interfaces : ScanThread(i)
    \/ \E j \in DOMAIN threads : SendThread(j)

SendSpec ==
    /\ SendInit /\ [][SendNext]_allVars
    /\ WF_allVars(Sender)
    /\ \A i \in Interfaces : WF_allVars(ScanThread(i))
    /\ WF_allVars(\E j \in DOMAIN threads : SendThread(j))

-----------------------------------------------------------------------------
(* Properties *)

\* Contents of a kind that is to be sent, and no others, go to the servers the
\* user allowed and to nobody else, and not to this machine.  There are two
\* exceptions: what a cancelled thread appended after the filters began, and
\* this machine's address on an interface that udp_scan did not look at,
\* because it had started all the threads it may.
OnlyAllowed ==
    /\ sent # {} => Wanted
    /\ setup.allowed # {} => sent \subseteq setup.allowed \cup late
    /\ sent \cap addr_lst \subseteq late

\* The list, whose strings the threads use, is freed after they have ended, and
\* only threads that were created are waited for, unless the list has grown.
JoinedBeforeFreed ==
    /\ stage = "over" => \A j \in DOMAIN threads : threads[j].at \in {"none", "ended"}
    /\ stage = "wild" => late # {}

\* A change of the clipboard does not keep the listener for good, unless what is
\* sent never ends.  A thread of the scan that was cancelled ends, unless it
\* comes to the mutex when that has been destroyed.  Both as long as no thread
\* has spoiled memory.
RoundEnds ==
    /\ <>(\/ stage \in {"over", "wild"} \/ corrupt
          \/ \E j \in DOMAIN threads : threads[j].at = "hung")
    /\ \A i \in Interfaces : i \in cancel ~> worker[i] \in {"none", "stuck", "ended"} \/ corrupt

\* In every state: well formed, no answer that came in time is lost, and nobody
\* keeps the mutex.
AutoSendInv == SendTypeOK /\ AnswersKept /\ HolderReleases
=============================================================================
