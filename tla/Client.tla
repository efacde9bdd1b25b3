------------------------------- MODULE Client -------------------------------
(***************************************************************************)
(* One request of the desktop client, from the entry point to the return   *)
(* of its handler: the web page's POST (gui_client.c, handle_method), a    *)
(* command of the command line (cli_client.c, _invoke_method) or one       *)
(* thread of the automatic sender (clipboard_listener.c, send_to_server).  *)
(* Then proto/selector.c negotiates the version, proto/versions.c requests *)
(* the method and proto/methods.c carries it out.                          *)
(***************************************************************************)
EXTENDS Link

VARIABLES
    req,   \* the request and the configured versions, fixed at the start
    pc,    \* where the thread that carries out the request is
    ver,   \* the negotiated version, 0 before
    left,  \* files of this transfer that are still to be moved
    ans,   \* status of the first callback, "none" before
    ret,   \* what handle_proto returned
    clip,  \* received text was given to put_clipboard_text
    disk   \* where the received files are

clientVars == <<req, pc, ver, left, ans, ret, clip, disk>>

Entries == {"web", "cli", "auto"}

\* The methods each entry point can ask for.
EntryMethods(entry) ==
    CASE entry = "web"  -> MethodSet \ {"INFO"}
      [] entry = "cli"  -> MethodSet
      [] entry = "auto" -> Sends

\* The methods that version_1 ... version_4 accept.
Methods(v) ==
    IF v <= 2 THEN MethodSet \ {"GET_COPIED_IMAGE", "GET_SCREENSHOT"} ELSE MethodSet

\* status_cb.h, without the prefix RESP_.
Answers == {"OK", "NO_DATA", "DATA_ERROR", "METHOD_NOT_ALLOWED", "PROTO_METHOD_ERROR",
            "VERSION_MISMATCH", "SERVER_ERROR", "COMMUNICATION_FAILURE",
            "CONNECTION_FAILURE", "INVALID_ADDRESS", "LOCAL_ERROR"}

Steps == {"start", "sendVersion", "readStatus", "readOffer", "acceptOffer", "sendMethod",
          "readMethodStatus", "getText", "ackText", "closeText", "storeText",
          "sendText", "readTextAck", "closeSentText", "sendCount", "sendFile",
          "readFilesAck", "closeSentFiles", "getCount", "getName", "getBody", "place",
          "ackReceived", "closeReceived", "cutReceived", "sendDisplay",
          "readDisplayStatus", "getImage", "getInfo", "ackInfo", "closeInfo",
          "returned", "done"}

Request == [entry : Entries, method : MethodSet, min : Nat, max : Nat]

ClientTypeOK ==
    /\ req \in Request
    /\ pc \in Steps
    /\ ver \in Nat
    /\ left \in Nat
    /\ ans \in Answers \cup {"none"}
    /\ ret \in {"none", "SUCCESS", "FAILURE"}
    /\ clip \in BOOLEAN
    /\ disk \in {"none", "temp", "partly", "placed", "directory"}

ClientInit ==
    /\ pc = "start"
    /\ ver = 0
    /\ left = 0
    /\ ans = "none"
    /\ ret = "none"
    /\ clip = FALSE
    /\ disk = "none"

-----------------------------------------------------------------------------
\* Mutant of FirstAnswer: the last call of the callback decides.
LastAnswer(code) == IF req.entry = "web" THEN code ELSE ans

\* callback_fn: only the web interface has a callback, and only its first
\* call queues a response.
FirstAnswer(code) == IF req.entry = "web" /\ ans = "none" THEN code ELSE ans

GoTo(step) == pc' = step /\ UNCHANGED <<ans, ret>>

Return(code, result) ==
    /\ pc' = "returned"
    /\ ret' = result
    /\ ans' = FirstAnswer(code)

Fail(code) == Return(code, "FAILURE")

FailSilently ==
    /\ pc' = "returned"
    /\ ret' = "FAILURE"
    /\ UNCHANGED ans

LocalFault == "local" \in Faults

\* Mutant of AckAnswer: success is reported whatever was read.
AckIgnored(acked) == FirstAnswer("OK")

\* Status of the callback that reports a missing acknowledgement first and
\* success afterwards.
AckAnswer(acked) == FirstAnswer(IF acked THEN "OK" ELSE "COMMUNICATION_FAILURE")

-----------------------------------------------------------------------------
(* Entry points *)

\* The request ends before a connection exists: the clipboard holds nothing
\* of the kind to send, the address does not parse, or connect_server gave
\* up after its second attempt.
NotStarted ==
    /\ pc = "start"
    /\ \/ req.method \in Sends /\ req.entry # "auto" /\ ans' = FirstAnswer("NO_DATA")
       \/ ans' = FirstAnswer("INVALID_ADDRESS")
       \/ ans' = FirstAnswer("CONNECTION_FAILURE")
    /\ pc' = "done"
    /\ ret' = "FAILURE"
    /\ UNCHANGED <<req, ver, left, clip, disk, linkVars>>

Connect ==
    /\ pc = "start"
    /\ GoTo("sendVersion")
    /\ cliOpen' = TRUE
    /\ srvOpen' = TRUE
    /\ UNCHANGED <<req, ver, left, clip, disk, toSrv, toCli>>

\* Mutant of Finish: the socket stays open when the handler left it open.
FinishOpen ==
    /\ pc = "returned"
    /\ pc' = "done"
    /\ ans' = FirstAnswer("LOCAL_ERROR")
    /\ UNCHANGED <<req, ver, left, ret, clip, disk, linkVars>>

\* handle_proto came back: the socket is closed if it is still open, and a
\* web request without a response gets one.
Finish ==
    /\ pc = "returned"
    /\ pc' = "done"
    /\ ans' = FirstAnswer("LOCAL_ERROR")
    /\ cliOpen' = FALSE
    /\ UNCHANGED <<req, ver, left, ret, clip, disk, toSrv, toCli, srvOpen>>

-----------------------------------------------------------------------------
(* Negotiation of the protocol version *)

SendVersion ==
    /\ pc = "sendVersion"
    /\ \/ ClientWrites(NumMsg("version", req.max)) /\ GoTo("readStatus")
       \/ ClientWriteFails /\ Fail("COMMUNICATION_FAILURE")
    /\ UNCHANGED <<req, ver, left, clip, disk, cliOpen, srvOpen>>

ReadStatus ==
    /\ pc = "readStatus"
    /\ \/ ClientReadFails /\ Fail("COMMUNICATION_FAILURE") /\ UNCHANGED ver
       \/ /\ ClientReads("status")
          /\ LET status == Head(toCli).val
             IN  \/ status = "supported" /\ GoTo("sendMethod") /\ ver' = req.max
                 \/ status = "obsolete" /\ Fail("VERSION_MISMATCH") /\ UNCHANGED ver
                 \/ status = "unknown" /\ GoTo("readOffer") /\ UNCHANGED ver
                 \/ /\ status \notin {"supported", "obsolete", "unknown"}
                    /\ Fail("SERVER_ERROR") /\ UNCHANGED ver
    /\ UNCHANGED <<req, left, clip, disk, cliOpen, srvOpen>>

\* Mutants of Acceptable: one bound is not checked, or is off by one.
NotTooHigh(v) == v <= req.max
AboveMinimum(v) == v \in req.min + 1 .. req.max

\* The offer is in the configured range.
Acceptable(v) == v \in req.min .. req.max

ReadOffer ==
    /\ pc = "readOffer"
    /\ \/ ClientReadFails /\ Fail("COMMUNICATION_FAILURE") /\ UNCHANGED ver
       \/ LET offer == Head(toCli).num
          IN  /\ ClientReads("offer")
              /\ Acceptable(offer)
              /\ ver' = offer
              /\ GoTo("acceptOffer")
       \/ /\ toCli # <<>> /\ Head(toCli).kind = "offer"
          /\ ~Acceptable(Head(toCli).num)
          /\ toCli' = Tail(toCli)
          /\ \/ toSrv' = IF srvOpen THEN Append(toSrv, NumMsg("answer", 0)) ELSE toSrv
             \/ "timeout" \in Faults /\ toSrv' = toSrv   \* result of the write is ignored
          /\ Fail("VERSION_MISMATCH")
          /\ UNCHANGED ver
    /\ UNCHANGED <<req, left, clip, disk, cliOpen, srvOpen>>

AcceptOffer ==
    /\ pc = "acceptOffer"
    /\ \/ ClientWrites(NumMsg("answer", ver)) /\ GoTo("sendMethod")
       \/ ClientWriteFails /\ Fail("COMMUNICATION_FAILURE")
    /\ UNCHANGED <<req, ver, left, clip, disk, cliOpen, srvOpen>>

-----------------------------------------------------------------------------
(* Request of the method *)

\* A method the negotiated version does not have is refused before anything
\* is sent, and without a callback.
SendMethod ==
    /\ pc = "sendMethod"
    /\ \/ /\ req.method \notin Methods(ver)
          /\ FailSilently /\ UNCHANGED <<toSrv, toCli>>
       \/ /\ req.method \in Methods(ver)
          /\ \/ ClientWrites(Msg("method", req.method)) /\ GoTo("readMethodStatus")
             \/ ClientWriteFails /\ Fail("COMMUNICATION_FAILURE")
    /\ UNCHANGED <<req, ver, left, clip, disk, cliOpen, srvOpen>>

\* First step of the handler of each method.
HandlerOf == [GET_TEXT |-> "getText", SEND_TEXT |-> "sendText", GET_FILE |-> "getCount",
              SEND_FILE |-> "sendCount", GET_IMAGE |-> "getImage",
              GET_COPIED_IMAGE |-> "getImage", GET_SCREENSHOT |-> "sendDisplay",
              INFO |-> "getInfo"]

ReadMethodStatus ==
    /\ pc = "readMethodStatus"
    /\ \/ ClientReadFails /\ Fail("COMMUNICATION_FAILURE")
       \/ /\ ClientReads("mstatus")
          /\ LET status == Head(toCli).val
             IN  \/ status = "ok" /\ GoTo(HandlerOf[req.method])
                 \/ status = "noData" /\ Fail("NO_DATA")
                 \/ /\ status \in {"unknownMethod", "notImplemented"}
                    /\ Fail("METHOD_NOT_ALLOWED")
                 \/ /\ status \notin {"ok", "noData", "unknownMethod", "notImplemented"}
                    /\ Fail("SERVER_ERROR")
    /\ UNCHANGED <<req, ver, left, clip, disk, cliOpen, srvOpen>>

-----------------------------------------------------------------------------
(* Text *)

GetText ==
    /\ pc = "getText"
    /\ \/ ClientReadFails /\ Fail("COMMUNICATION_FAILURE") /\ UNCHANGED cliOpen
       \/ /\ ClientReads("text")
          /\ LET text == Head(toCli).val
             IN  \/ LocalFault /\ Fail("COMMUNICATION_FAILURE") /\ UNCHANGED cliOpen
                 \/ text = "badSize" /\ Fail("DATA_ERROR") /\ UNCHANGED cliOpen
                 \/ text = "badText" /\ Fail("DATA_ERROR") /\ cliOpen' = (ver >= 4)
                 \/ /\ text = "ok"
                    /\ GoTo(IF ver >= 4 THEN "ackText" ELSE "storeText")
                    /\ cliOpen' = (ver >= 4)
    /\ UNCHANGED <<req, ver, left, clip, disk, srvOpen>>

AckText ==
    /\ pc = "ackText"
    /\ \/ ClientWrites(Msg("ack", "ok")) /\ UNCHANGED ans
       \/ ClientWriteFails /\ ans' = FirstAnswer("COMMUNICATION_FAILURE")
    /\ pc' = "closeText"
    /\ UNCHANGED <<req, ver, left, ret, clip, disk, cliOpen, srvOpen>>

CloseText ==
    /\ pc = "closeText"
    /\ AwaitOver
    /\ GoTo("storeText")
    /\ cliOpen' = FALSE
    /\ UNCHANGED <<req, ver, left, clip, disk, toSrv, toCli, srvOpen>>

\* The callback comes first, then the conversion of line ends, which leaves
\* nothing of a text that begins with a NUL, and the copy for the clipboard,
\* which may fail without anybody noticing.
StoreText ==
    /\ pc = "storeText"
    /\ \/ Return("OK", "SUCCESS") /\ clip' = TRUE
       \/ LocalFault /\ Return("OK", "SUCCESS") /\ UNCHANGED clip
       \/ "garbage" \in Faults /\ Return("OK", "FAILURE") /\ UNCHANGED clip
    /\ UNCHANGED <<req, ver, left, disk, linkVars>>

\* The clipboard is read again here: what get_copied_type saw at the entry
\* point may be gone.
SendText ==
    /\ pc = "sendText"
    /\ \/ Fail("NO_DATA") /\ UNCHANGED <<toSrv, toCli>>
       \/ /\ ClientWrites(Msg("text", "ok"))
          /\ GoTo(IF ver >= 4 THEN "readTextAck" ELSE "closeSentText")
       \/ ClientWriteFails /\ Fail("COMMUNICATION_FAILURE")
    /\ UNCHANGED <<req, ver, left, clip, disk, cliOpen, srvOpen>>

ReadTextAck ==
    /\ pc = "readTextAck"
    /\ \/ ClientReads("ack") /\ ans' = AckAnswer(Head(toCli).val = "ok")
       \/ ClientReadFails /\ ans' = AckAnswer(FALSE)
    /\ pc' = "returned"
    /\ ret' = "SUCCESS"
    /\ cliOpen' = FALSE
    /\ UNCHANGED <<req, ver, left, clip, disk, srvOpen>>

CloseSentText ==
    /\ pc = "closeSentText"
    /\ AwaitOver
    /\ Return("OK", "SUCCESS")
    /\ cliOpen' = FALSE
    /\ UNCHANGED <<req, ver, left, clip, disk, toSrv, toCli, srvOpen>>

-----------------------------------------------------------------------------
(* Files to the server *)

\* Mutant of SendsCount: off by one.
AlwaysCounts(v) == v >= 1

\* Version 1 sends one file and no count.
SendsCount(v) == v > 1

SendCount ==
    /\ pc = "sendCount"
    /\ \/ Fail("NO_DATA") /\ UNCHANGED <<left, toSrv, toCli>>
       \/ /\ req.entry = "auto"          \* more than auto_send_max_files
          /\ FailSilently /\ UNCHANGED <<left, toSrv, toCli>>
       \/ /\ ~SendsCount(ver)
          /\ left' = 1 /\ GoTo("sendFile") /\ UNCHANGED <<toSrv, toCli>>
       \/ \E n \in 1 .. MaxFiles :
            /\ SendsCount(ver)
            /\ left' = n
            /\ ClientWrites(NumMsg("count", n)) /\ GoTo("sendFile")
       \/ SendsCount(ver) /\ ClientWriteFails /\ Fail("COMMUNICATION_FAILURE") /\ UNCHANGED left
    /\ UNCHANGED <<req, ver, clip, disk, cliOpen, srvOpen>>

\* Directories are listed from version 3 on.
Bodies(v) == IF v >= 3 THEN {"file", "dir"} ELSE {"file"}

MoreToSend == left > 0

\* One file: its name, then its size and content.  A file that cannot be
\* opened or is over the limit ends the whole transfer without a callback.
SendFile ==
    /\ pc = "sendFile"
    /\ MoreToSend
    /\ \/ LocalFault /\ FailSilently /\ UNCHANGED <<left, toSrv, toCli>>
       \/ \E body \in Bodies(ver) :
            /\ toSrv' = IF srvOpen THEN Append(Append(toSrv, Msg("name", "ok")),
                                               Msg("body", body))
                                   ELSE toSrv
            /\ left' = left - 1
            /\ GoTo("sendFile") /\ UNCHANGED toCli
       \/ ClientWriteFails /\ Fail("COMMUNICATION_FAILURE") /\ UNCHANGED left
       \/ /\ "timeout" \in Faults        \* the name went out, the content did not
          /\ ClientWrites(Msg("name", "ok"))
          /\ Fail("COMMUNICATION_FAILURE") /\ UNCHANGED left
    /\ UNCHANGED <<req, ver, clip, disk, cliOpen, srvOpen>>

\* Mutant of FilesSent: the acknowledgement of version 4 is not read.
FilesSentNoAck ==
    /\ pc = "sendFile"
    /\ ~MoreToSend
    /\ pc' = "closeSentFiles"
    /\ ans' = FirstAnswer("OK")
    /\ UNCHANGED <<req, ver, left, ret, clip, disk, linkVars>>

\* The callback reports success when the last file is written, before the
\* acknowledgement is read.
FilesSent ==
    /\ pc = "sendFile"
    /\ ~MoreToSend
    /\ pc' = IF ver >= 4 THEN "readFilesAck" ELSE "closeSentFiles"
    /\ ans' = FirstAnswer("OK")
    /\ UNCHANGED <<req, ver, left, ret, clip, disk, linkVars>>

ReadFilesAck ==
    /\ pc = "readFilesAck"
    /\ \/ /\ ClientReads("ack")
          /\ ans' = IF Head(toCli).val = "ok" THEN ans
                    ELSE FirstAnswer("COMMUNICATION_FAILURE")
       \/ ClientReadFails /\ ans' = FirstAnswer("COMMUNICATION_FAILURE")
    /\ pc' = "returned"
    /\ ret' = "SUCCESS"
    /\ cliOpen' = FALSE
    /\ UNCHANGED <<req, ver, left, clip, disk, srvOpen>>

CloseSentFiles ==
    /\ pc = "closeSentFiles"
    /\ AwaitOver
    /\ pc' = "returned"
    /\ ret' = "SUCCESS"
    /\ cliOpen' = FALSE
    /\ UNCHANGED <<req, ver, left, ans, clip, disk, toSrv, toCli, srvOpen>>

-----------------------------------------------------------------------------
(* Files from the server *)

GetCount ==
    /\ pc = "getCount"
    /\ \/ ClientReadFails /\ Fail("COMMUNICATION_FAILURE") /\ UNCHANGED <<left, disk>>
       \/ /\ ClientReads("count")
          /\ LET n == Head(toCli).num
             IN  \/ n \notin 1 .. MaxFiles /\ Fail("NO_DATA") /\ UNCHANGED <<left, disk>>
                 \/ /\ n \in 1 .. MaxFiles
                    /\ left' = n /\ disk' = "temp" /\ GoTo("getName")
                 \/ /\ n \in 1 .. MaxFiles /\ LocalFault
                    /\ FailSilently /\ UNCHANGED <<left, disk>>
    /\ UNCHANGED <<req, ver, clip, cliOpen, srvOpen>>

\* A path that leads outside, exists already or cannot be made is refused
\* without a callback.
GetName ==
    /\ pc = "getName"
    /\ \/ ClientReadFails /\ Fail("COMMUNICATION_FAILURE")
       \/ /\ ClientReads("name")
          /\ LET name == Head(toCli).val
             IN  \/ name \in {"badSize", "badName"} /\ Fail("DATA_ERROR")
                 \/ name = "badPath" /\ FailSilently
                 \/ name = "ok" /\ GoTo("getBody")
                 \/ name = "ok" /\ LocalFault /\ FailSilently
    /\ UNCHANGED <<req, ver, left, clip, disk, cliOpen, srvOpen>>

\* Sizes _save_file_common refuses: over the limit, or negative and not the
\* mark of a directory in a version that has directories.
Refused(body, v) == body \in {"tooBig", "negative"} \/ (body = "dir" /\ v < 3)

GetBody ==
    /\ pc = "getBody"
    /\ \/ ClientReadFails /\ Fail("COMMUNICATION_FAILURE") /\ UNCHANGED left
       \/ /\ ClientReads("body")
          /\ LET body == Head(toCli).val
             IN  \/ Refused(body, ver) /\ Fail("DATA_ERROR") /\ UNCHANGED left
                 \/ ~Refused(body, ver) /\ LocalFault /\ FailSilently /\ UNCHANGED left
                 \/ /\ ~Refused(body, ver)
                    /\ left' = left - 1
                    /\ GoTo(IF left = 1 THEN "place" ELSE "getName")
    /\ UNCHANGED <<req, ver, clip, disk, cliOpen, srvOpen>>

\* The callback before the received files are put on the clipboard; of an
\* image it is skipped when the list for the clipboard cannot be made.
Received ==
    \/ pc' = "cutReceived" /\ ans' = FirstAnswer("OK") /\ UNCHANGED ret
    \/ LocalFault /\ req.method # "GET_FILE" /\ FailSilently

\* Mutant of Place: a file that cannot be moved does not stop the acknowledgement.
PlaceRegardless ==
    /\ pc = "place"
    /\ \/ disk' = "placed"
       \/ LocalFault /\ disk' = "partly"
    /\ \/ ver >= 4 /\ GoTo("ackReceived") /\ UNCHANGED cliOpen
       \/ ver < 4 /\ Received /\ cliOpen' = FALSE
    /\ UNCHANGED <<req, ver, left, clip, toSrv, toCli, srvOpen>>

\* Everything arrived: move it from the temporary directory to the working
\* directory.  With version 4 the socket stays open for the acknowledgement.
Place ==
    /\ pc = "place"
    /\ \/ LocalFault /\ FailSilently /\ cliOpen' = (ver >= 4) /\ UNCHANGED disk
       \/ LocalFault /\ Fail("LOCAL_ERROR") /\ cliOpen' = FALSE /\ disk' = "partly"
       \/ ver >= 4 /\ GoTo("ackReceived") /\ UNCHANGED cliOpen /\ disk' = "placed"
       \/ ver < 4 /\ Received /\ cliOpen' = FALSE /\ disk' = "placed"
    /\ UNCHANGED <<req, ver, left, clip, toSrv, toCli, srvOpen>>

\* Acknowledgement of received files or of an image, version 4.
AckReceived ==
    /\ pc = "ackReceived"
    /\ \/ ClientWrites(Msg("ack", "ok")) /\ UNCHANGED ans
       \/ ClientWriteFails /\ ans' = FirstAnswer("COMMUNICATION_FAILURE")
    /\ pc' = "closeReceived"
    /\ UNCHANGED <<req, ver, left, ret, clip, disk, cliOpen, srvOpen>>

CloseReceived ==
    /\ pc = "closeReceived"
    /\ AwaitOver
    /\ Received
    /\ cliOpen' = FALSE
    /\ UNCHANGED <<req, ver, left, clip, disk, toSrv, toCli, srvOpen>>

\* set_clipboard_cut_files, when cut_received_files is configured.
CutReceived ==
    /\ pc = "cutReceived"
    /\ pc' = "returned"
    /\ \/ ret' = "SUCCESS"
       \/ LocalFault /\ ret' = "FAILURE"
    /\ UNCHANGED <<req, ver, left, ans, clip, disk, linkVars>>

-----------------------------------------------------------------------------
(* Images *)

SendDisplay ==
    /\ pc = "sendDisplay"
    /\ \/ ClientWrites(Msg("display", "ok")) /\ GoTo("readDisplayStatus")
       \/ ClientWriteFails /\ Fail("COMMUNICATION_FAILURE")
    /\ UNCHANGED <<req, ver, left, clip, disk, cliOpen, srvOpen>>

ReadDisplayStatus ==
    /\ pc = "readDisplayStatus"
    /\ \/ ClientReadFails /\ Fail("COMMUNICATION_FAILURE")
       \/ /\ ClientReads("dstatus")
          /\ \/ Head(toCli).val = "ok" /\ GoTo("getImage")
             \/ Head(toCli).val # "ok" /\ Fail("NO_DATA")
    /\ UNCHANGED <<req, ver, left, clip, disk, cliOpen, srvOpen>>

\* A size of -1 makes a directory with the image's name, also here.
GetImage ==
    /\ pc = "getImage"
    /\ \/ ClientReadFails /\ Fail("COMMUNICATION_FAILURE") /\ cliOpen' = FALSE /\ UNCHANGED disk
       \/ /\ ClientReads("body")
          /\ LET body == Head(toCli).val
             IN  \/ /\ Refused(body, ver)
                    /\ Fail("DATA_ERROR") /\ cliOpen' = FALSE /\ UNCHANGED disk
                 \/ /\ ~Refused(body, ver) /\ LocalFault
                    /\ Fail("LOCAL_ERROR") /\ cliOpen' = FALSE /\ UNCHANGED disk
                 \/ /\ ~Refused(body, ver)
                    /\ disk' = IF body = "dir" THEN "directory" ELSE "placed"
                    /\ \/ ver >= 4 /\ GoTo("ackReceived") /\ UNCHANGED cliOpen
                       \/ ver < 4 /\ Received /\ cliOpen' = FALSE
    /\ UNCHANGED <<req, ver, left, clip, srvOpen>>

-----------------------------------------------------------------------------
(* Information about the server *)

GetInfo ==
    /\ pc = "getInfo"
    /\ \/ ClientReadFails /\ Fail("COMMUNICATION_FAILURE") /\ cliOpen' = (ver >= 4)
       \/ /\ ClientReads("info")
          /\ cliOpen' = (ver >= 4)
          /\ LET info == Head(toCli).val
             IN  \/ LocalFault /\ Fail("COMMUNICATION_FAILURE")
                 \/ info # "ok" /\ Fail("DATA_ERROR")
                 \/ info = "ok" /\ ver < 4 /\ Return("OK", "SUCCESS")
                 \/ /\ info = "ok" /\ ver >= 4
                    /\ pc' = "ackInfo" /\ ans' = FirstAnswer("OK") /\ UNCHANGED ret
    /\ UNCHANGED <<req, ver, left, clip, disk, srvOpen>>

AckInfo ==
    /\ pc = "ackInfo"
    /\ \/ ClientWrites(Msg("ack", "ok")) /\ GoTo("closeInfo")
       \/ ClientWriteFails /\ FailSilently
    /\ UNCHANGED <<req, ver, left, clip, disk, cliOpen, srvOpen>>

CloseInfo ==
    /\ pc = "closeInfo"
    /\ AwaitOver
    /\ pc' = "returned"
    /\ ret' = "SUCCESS"
    /\ cliOpen' = FALSE
    /\ UNCHANGED <<req, ver, left, ans, clip, disk, toSrv, toCli, srvOpen>>

-----------------------------------------------------------------------------
ClientNext ==
    \/ NotStarted \/ Connect \/ Finish
    \/ SendVersion \/ ReadStatus \/ ReadOffer \/ AcceptOffer
    \/ SendMethod \/ ReadMethodStatus
    \/ GetText \/ AckText \/ CloseText \/ StoreText
    \/ SendText \/ ReadTextAck \/ CloseSentText
    \/ SendCount \/ SendFile \/ FilesSent \/ ReadFilesAck \/ CloseSentFiles
    \/ GetCount \/ GetName \/ GetBody \/ Place
    \/ AckReceived \/ CloseReceived \/ CutReceived
    \/ SendDisplay \/ ReadDisplayStatus \/ GetImage
    \/ GetInfo \/ AckInfo \/ CloseInfo
=============================================================================
