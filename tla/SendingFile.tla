---------------------------- MODULE SendingFile -----------------------------
(***************************************************************************)
(* The body of one file on its way to the server: the loop of              *)
(* _transfer_regular_file (proto/methods.c) over the file, and inside it   *)
(* the loop of write_sock (utils/net_utils.c) over what send accepts.  The *)
(* size is announced before the first byte is read, any other program may  *)
(* change the file meanwhile, and reading it may fail.                     *)
(***************************************************************************)
EXTENDS Integers

CONSTANTS
    Sizes,         \* sizes the file may have
    Limit,         \* the smaller of max_file_size and auto_send_max_file_size
    FILE_BUF_SZ,
    Tries          \* idle turns write_sock allows: cnt > 10

ASSUME SizesAssumption == Sizes \subseteq Nat
ASSUME LimitsAssumption == Limit \in Nat /\ FILE_BUF_SZ \in Nat \ {0} /\ Tries \in Nat

VARIABLES
    size,       \* of the file now
    changed,    \* another program has written to the file, or truncated it
    broken,     \* fread returns nothing from now on, see ReadBreaks
    pc,
    announced,  \* the size the server was told, -1 before
    file_size,  \* bytes the loop still has to send
    pos,        \* offset of the next fread
    chunk,      \* bytes of the buffer that write_sock still has to send
    cnt,        \* turns of write_sock without progress
    sent        \* bytes of the body on the stream

vars == <<size, changed, broken, pc, announced, file_size, pos, chunk, cnt, sent>>

TypeOK ==
    /\ size \in Sizes
    /\ {changed, broken} \subseteq BOOLEAN
    /\ pc \in {"open", "announce", "read", "write", "sent", "failed"}
    /\ announced \in Sizes \cup {-1}
    /\ file_size \in Int
    /\ {pos, sent} \subseteq Nat
    /\ chunk \in 0 .. FILE_BUF_SZ
    /\ cnt \in 0 .. Tries + 1

Init ==
    /\ size \in Sizes
    /\ changed = FALSE /\ broken = FALSE
    /\ pc = "open"
    /\ announced = -1
    /\ file_size = 0 /\ pos = 0 /\ chunk = 0 /\ cnt = 0 /\ sent = 0

\* The file is opened and its size taken; it may be over a limit.
Open ==
    /\ pc = "open"
    /\ \/ pc' = "failed" /\ UNCHANGED file_size
       \/ size <= Limit /\ pc' = "announce" /\ file_size' = size
    /\ UNCHANGED <<size, changed, broken, announced, pos, chunk, cnt, sent>>

\* Name and size are sent.
Announce ==
    /\ pc = "announce"
    /\ \/ /\ announced' = file_size
          /\ pc' = IF file_size > 0 THEN "read" ELSE "sent"
       \/ pc' = "failed" /\ UNCHANGED announced
    /\ UNCHANGED <<size, changed, broken, file_size, pos, chunk, cnt, sent>>

ReadSize(available) == IF available < FILE_BUF_SZ THEN available ELSE FILE_BUF_SZ

\* fread fills the buffer as far as the file goes, or only a part of it when the
\* disk fails in between.
Read ==
    /\ pc = "read" /\ ~broken
    /\ size > pos
    /\ chunk' \in 1 .. ReadSize(size - pos)
    /\ pos' = pos + chunk'
    /\ cnt' = 0
    /\ pc' = "write"
    /\ UNCHANGED <<size, changed, broken, announced, file_size, sent>>

\* fread returns nothing, at the end of the file or because it failed: the loop
\* turns without sending anything.
ReadNothing ==
    /\ pc = "read"
    /\ UNCHANGED vars

\* It does so for good: the disk stays out of order, or the end of the file was met
\* and the C library remembers that.
ReadBreaks ==
    /\ pc = "read" /\ ~broken
    /\ broken' = TRUE
    /\ UNCHANGED <<size, changed, pc, announced, file_size, pos, chunk, cnt, sent>>

\* Mutants of MoreToRead: the loop stops one byte early, or turns once more.
MoreThanOne(rest) == rest > 1
MoreOrNone(rest) == rest >= 0

MoreToRead(rest) == rest > 0

\* Mutant of Progress: the counter of idle turns is not reset.
ProgressWithoutReset(n) == cnt + 1

Progress(n) == 1

\* send accepts n bytes.  Once the buffer is empty, its size is subtracted.
Send(n) ==
    /\ pc = "write"
    /\ sent' = sent + n
    /\ chunk' = chunk - n
    /\ cnt' = Progress(n)
    /\ \/ /\ n = chunk
          /\ file_size' = announced - sent'
          /\ pc' = IF MoreToRead(file_size') THEN "read" ELSE "sent"
       \/ n < chunk /\ UNCHANGED <<file_size, pc>>
    /\ UNCHANGED <<size, changed, broken, announced, pos>>

\* send times out: another turn, unless there were too many.  The connection
\* may also be broken, and then there is none.
SendTimesOut ==
    /\ pc = "write"
    /\ \/ cnt <= Tries /\ cnt' = cnt + 1 /\ UNCHANGED pc
       \/ pc' = "failed" /\ UNCHANGED cnt
    /\ UNCHANGED <<size, changed, broken, announced, file_size, pos, chunk, sent>>

\* Another program writes to the file or truncates it.
Change ==
    /\ pc \notin {"sent", "failed"}
    /\ size' \in Sizes
    /\ changed' = TRUE
    /\ UNCHANGED <<broken, pc, announced, file_size, pos, chunk, cnt, sent>>

\* ReadNothing changes nothing, and that reading breaks is not bound to happen.
Loop == Open \/ Announce \/ Read \/ ReadNothing \/ SendTimesOut \/ \E n \in 1 .. chunk : Send(n)

Terminated == pc \in {"sent", "failed"} /\ UNCHANGED vars

Next == Loop \/ ReadBreaks \/ Change \/ Terminated

Spec == Init /\ [][Next]_vars /\ WF_vars(Loop)

-----------------------------------------------------------------------------
(* Properties *)

\* The server reads exactly as many bytes as it was told: no field that
\* follows on the stream is taken for a part of a file that did not change.
SentIsAnnounced == pc = "sent" /\ ~changed => sent = announced

\* Whatever happens to the file, the server is never left waiting for bytes
\* of a transfer that ended with success.
NeverShort == pc = "sent" => sent >= announced

\* A file that grows meanwhile may bring its last buffer along, and with it
\* exceed the size that was announced and the limit, but never by a buffer.
ExcessIsBounded == announced >= 0 => sent <= announced + FILE_BUF_SZ - 1

\* The loops over the file and over send end, unless fread returns nothing for
\* good, or the file is truncated below the announced size: then the first of them
\* turns without a pause, until the file grows again if it ever does.
TransferEnds ==
    \/ <>(pc \in {"sent", "failed"})
    \/ <>[](pc = "read" /\ broken)
    \/ []<>(pc = "read" /\ size <= pos /\ size < announced)
=============================================================================
