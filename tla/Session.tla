------------------------------ MODULE Session -------------------------------
(***************************************************************************)
(* One request of the desktop client against one server: Client and Server *)
(* joined by Link.  A request has its own connection and its own thread of *)
(* control, so one request at a time is all there is to see at this level; *)
(* what concurrent requests share (clipboard, working directory) is        *)
(* modelled elsewhere.                                                     *)
(***************************************************************************)
EXTENDS Client, Server

CONSTANTS
    Requests,     \* requests to explore, each with the client's versions
    ServerRanges  \* version ranges of the server to explore

ASSUME RequestsAssumption ==
    \A r \in Requests : /\ r \in Request
                        /\ r.method \in EntryMethods(r.entry)
                        /\ PROTOCOL_MIN <= r.min /\ r.min <= r.max /\ r.max <= PROTOCOL_MAX
ASSUME ServerRangesAssumption ==
    \A s \in ServerRanges : /\ s \in [min : Nat \ {0}, max : Nat \ {0}]
                            /\ s.min <= s.max

vars == <<linkVars, clientVars, serverVars>>

TypeOK == LinkTypeOK /\ ClientTypeOK /\ ServerTypeOK

Init ==
    /\ req \in Requests
    /\ srv \in ServerRanges
    /\ LinkInit
    /\ ClientInit
    /\ ServerInit

\* The request is over and nobody waits any more.
Terminated ==
    /\ pc = "done"
    /\ ~srvOpen
    /\ UNCHANGED vars

Next ==
    \/ ClientNext /\ UNCHANGED serverVars
    \/ (ServerNext \/ ServerCrashes) /\ UNCHANGED clientVars
    \/ Terminated

Spec == Init /\ [][Next]_vars

\* The client's thread runs on: what it waits for is bounded by timeouts.
ClientStep == ClientNext /\ UNCHANGED serverVars
ServerStep == ServerNext /\ UNCHANGED clientVars
ClientFairSpec == Spec /\ WF_vars(ClientStep)

\* Both programs run on.
FairSpec == ClientFairSpec /\ WF_vars(ServerStep)

-----------------------------------------------------------------------------
(* Framing *)

ClientExpects == [readStatus |-> "status", readOffer |-> "offer",
                  readMethodStatus |-> "mstatus", getText |-> "text",
                  readTextAck |-> "ack", readFilesAck |-> "ack", getCount |-> "count",
                  getName |-> "name", getBody |-> "body",
                  readDisplayStatus |-> "dstatus", getImage |-> "body", getInfo |-> "info"]
ServerExpects == [version |-> "version", answer |-> "answer", method |-> "method",
                  text |-> "text", count |-> "count", name |-> "name", body |-> "body",
                  display |-> "display", ack |-> "ack"]

\* Both programs cut the byte streams into the same fields: whatever versions
\* and method they ended up with, the next field on a stream is the one its
\* reader is about to read.
InStep ==
    /\ pc \in DOMAIN ClientExpects /\ toCli # <<>> => Head(toCli).kind = ClientExpects[pc]
    /\ spc \in DOMAIN ServerExpects /\ toSrv # <<>> /\ cliOpen
         => Head(toSrv).kind = ServerExpects[spc]

-----------------------------------------------------------------------------
(* Negotiation *)

Overlap == \E v \in req.min .. req.max : v \in srv.min .. srv.max

\* A version is only ever used if both programs support it, and when both
\* have settled they settled on the same one.
VersionsAgree ==
    /\ ver # 0 => ver \in req.min .. req.max /\ ver \in srv.min .. srv.max
    /\ sver # 0 => sver \in srv.min .. srv.max /\ sver \in req.min .. req.max
    /\ ver # 0 /\ sver # 0 => ver = sver

\* When there is a common version, every request that got a connection gets
\* as far as asking for its method.
NegotiationSucceeds == (pc = "sendVersion" /\ Overlap) ~> (ver # 0 /\ sver # 0)

-----------------------------------------------------------------------------
(* Outcome *)

Done == pc = "done"

\* The data is where the method was to bring it.
Delivered ==
    CASE req.method \in Sends      -> got
      [] req.method = "GET_TEXT"   -> clip
      [] req.method = "INFO"       -> TRUE
      [] OTHER                     -> disk = "placed"

\* With a network and machines that do not fail, success means delivery, for
\* the page and for the caller alike, and every other answer means failure.
\* After a success every byte the server sent has been read: the client does not
\* reset the connection under the server.
OkMeansDelivered ==
    Done => /\ ret = "SUCCESS" => Delivered /\ toCli = <<>> /\ ~cliOpen
            /\ req.entry = "web" => (ans = "OK" <=> ret = "SUCCESS")

\* Where the data of an OK is at least: an image that the server announced as
\* a directory is one, and text may be lost on its way to the clipboard.
Arrived ==
    \/ Delivered
    \/ req.method = "GET_TEXT"
    \/ req.method \in Images \cup {"GET_SCREENSHOT"} /\ disk = "directory"

\* With version 4 "OK" is only answered once the data has arrived, even when
\* the network, a machine or the server fails at any point.  Files that are
\* sent are the exception: see SentFilesOkMeansDelivered.  With any version a
\* request that failed is answered with "OK" only if everything arrived and the
\* clipboard of this machine refused it.
OkSurvivesFaults ==
    Done /\ ans = "OK" /\ (ret = "FAILURE" \/ (ver >= 4 /\ req.method # "SEND_FILE")) => Arrived

\* The same for the files of a version 4 transfer.  The code does not have
\* this property: _send_files_common reports success before it reads the
\* acknowledgement.
SentFilesOkMeansDelivered ==
    Done /\ ans = "OK" /\ ver >= 4 /\ req.method = "SEND_FILE" => Delivered

\* The server is told that files arrived only after all of them are in the
\* working directory; the rest of the transfer cannot fail any more.
AckMeansPlaced ==
    acked /\ req.method \notin {"GET_TEXT", "INFO"} => Arrived /\ left = 0

\* The web page gets one response: it never changes once it is queued.
AnswerIsFinal == [][ans # "none" => ans' = ans]_vars

\* Every request comes to its end, and a web request to its response, even
\* when the server stops answering without closing the connection.
Answered == <>[](Done /\ (req.entry = "web" => ans # "none"))

\* No request leaves the server waiting for bytes that will not come.
ServerReleased == srvOpen ~> ~srvOpen

-----------------------------------------------------------------------------
(* What a request promises, see Exchange *)

Moved == IF req.method = "INFO" THEN ret = "SUCCESS" ELSE Delivered

\* What the person has been told.
Shown ==
    IF ~Done THEN "none"
    ELSE IF (IF req.entry = "web" THEN ans = "OK" ELSE ret = "SUCCESS")
         THEN "success" ELSE "failure"

Promise == INSTANCE Exchange WITH moved <- Moved, result <- Shown

\* Between programs that do not fail, a request is one exchange: exactly one
\* result, on the page or of the command, and success only once the data has
\* moved.
KeepsPromise == Promise!Spec
=============================================================================
