-------------------------------- MODULE Link --------------------------------
(***************************************************************************)
(* The connection between the desktop client and a ClipShare server:       *)
(* one TCP (or TLS) stream in each direction.  A message stands for what   *)
(* one field of the protocol puts on the stream: a status or version byte, *)
(* a count, or a length together with the bytes that follow it.  A field   *)
(* that arrives only in part is a read that fails (utils/net_utils.c,      *)
(* read_sock and write_sock).                                              *)
(*                                                                         *)
(*   kind   which field of the protocol the bytes are                      *)
(*   val    the class of its value that the code tells apart               *)
(*   num    the number it carries, for versions and counts                 *)
(***************************************************************************)
EXTENDS Naturals, Sequences

CONSTANTS
    PROTOCOL_MIN, PROTOCOL_MAX,  \* protocol versions compiled into the client
    MaxFiles,                    \* bound: most files of one transfer
    Faults                       \* which faults may happen, see FaultKinds

(***************************************************************************)
(* "timeout": a read or write may give up although the other side is alive *)
(* "crash":   the server may drop the connection at any point              *)
(* "garbage": the server may send a value the client has to refuse         *)
(* "local":   an operation of the client's machine may fail (disk, memory, *)
(*            clipboard, a file over the configured size)                  *)
(***************************************************************************)
FaultKinds == {"timeout", "crash", "garbage", "local"}

ASSUME FaultsAssumption == Faults \subseteq FaultKinds
ASSUME VersionAssumption == /\ PROTOCOL_MIN \in Nat \ {0}
                            /\ PROTOCOL_MAX \in Nat
                            /\ PROTOCOL_MIN <= PROTOCOL_MAX
ASSUME MaxFilesAssumption == MaxFiles \in Nat \ {0}

VARIABLES
    toSrv,    \* bytes on the way from the client to the server
    toCli,    \* bytes on the way from the server to the client
    cliOpen,  \* the client's socket is not closed
    srvOpen   \* the server's socket is not closed

linkVars == <<toSrv, toCli, cliOpen, srvOpen>>

-----------------------------------------------------------------------------
FromClient == {"version", "answer", "method", "display"}
FromServer == {"status", "offer", "mstatus", "dstatus", "info"}
FromBoth   == {"text", "count", "name", "body", "ack"}

Msg(kind, val)   == [kind |-> kind, val |-> val, num |-> 0]
NumMsg(kind, n)  == [kind |-> kind, val |-> "number", num |-> n]

Sends == {"SEND_TEXT", "SEND_FILE"}
MethodSet == Sends \cup {"GET_TEXT", "GET_FILE", "GET_IMAGE", "GET_COPIED_IMAGE",
                         "GET_SCREENSHOT", "INFO"}

Values == MethodSet \cup
          {"number", "ok", "garbage", "supported", "obsolete", "unknown",
           "noData", "notImplemented", "unknownMethod",
           "badSize", "badText", "badName", "badPath",
           "file", "dir", "tooBig", "negative"}

Message == [kind : FromClient \cup FromServer \cup FromBoth, val : Values, num : Nat]

LinkTypeOK ==
    /\ toSrv \in Seq(Message)
    /\ toCli \in Seq(Message)
    /\ cliOpen \in BOOLEAN
    /\ srvOpen \in BOOLEAN

LinkInit ==
    /\ toSrv = <<>>
    /\ toCli = <<>>
    /\ cliOpen = FALSE
    /\ srvOpen = FALSE

-----------------------------------------------------------------------------
(* The client's reads and writes.  Bytes written after the server closed   *)
(* its end are accepted by the kernel and lost.                            *)

\* read_sock returns EXIT_SUCCESS and the field is of the given kind.
ClientReads(kind) ==
    /\ toCli # <<>>
    /\ Head(toCli).kind = kind
    /\ toCli' = Tail(toCli)
    /\ UNCHANGED toSrv

\* Mutant of ClientReadFails: a read that only ends with the stream.
ReadFailsWithoutTimeout ==
    /\ toCli = <<>> /\ ~srvOpen
    /\ UNCHANGED <<toSrv, toCli>>

\* read_sock returns EXIT_FAILURE: twelve receive timeouts in a row, or the
\* stream ended before the field was complete.
ClientReadFails ==
    /\ \/ "timeout" \in Faults
       \/ toCli = <<>> /\ ~srvOpen
    /\ UNCHANGED <<toSrv, toCli>>

\* write_sock returns EXIT_SUCCESS.
ClientWrites(m) ==
    /\ toSrv' = IF srvOpen THEN Append(toSrv, m) ELSE toSrv
    /\ UNCHANGED toCli

\* write_sock returns EXIT_FAILURE.
ClientWriteFails ==
    /\ "timeout" \in Faults \/ ~srvOpen
    /\ UNCHANGED <<toSrv, toCli>>

\* Mutant of AwaitOver: the socket is closed right after the last write.
AwaitNothing == TRUE

\* The receive of one byte in _close_socket(socket, await) comes back: the
\* server closed its end, or sent a byte, or the receive timed out.
AwaitOver == "timeout" \in Faults \/ ~srvOpen \/ toCli # <<>>
=============================================================================
