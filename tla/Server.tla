------------------------------- MODULE Server -------------------------------
(***************************************************************************)
(* The other end of the connection: a ClipShare server, as the test suite  *)
(* of the client stands in for it (tests/utils/mock_server.py).  The       *)
(* server is a separate program; this module is the environment that       *)
(* Client is checked against.                                              *)
(***************************************************************************)
EXTENDS Link

VARIABLES
    srv,     \* versions the server supports, fixed at the start
    spc,     \* what the server waits for
    sver,    \* version it uses with this client, 0 before
    sleft,   \* files of this transfer that are still to be moved
    out,     \* fields it is about to write
    got,     \* everything the client sent for its method has been received
    acked    \* the client's acknowledgement has been received

serverVars == <<srv, spc, sver, sleft, out, got, acked>>

ServerSteps == {"version", "answer", "method", "text", "count", "name", "body",
                "sendFiles", "display", "ack", "linger", "closed"}

ServerTypeOK ==
    /\ srv \in [min : Nat, max : Nat]
    /\ spc \in ServerSteps
    /\ sver \in Nat
    /\ sleft \in Nat
    /\ out \in Seq(Message)
    /\ got \in BOOLEAN
    /\ acked \in BOOLEAN

ServerInit ==
    /\ spc = "version"
    /\ sver = 0
    /\ sleft = 0
    /\ out = <<>>
    /\ got = FALSE
    /\ acked = FALSE

-----------------------------------------------------------------------------
\* Nothing is read before the last reply is written.
ServerReads(kind) ==
    /\ srvOpen /\ out = <<>>
    /\ toSrv # <<>>
    /\ Head(toSrv).kind = kind
    /\ toSrv' = Tail(toSrv)
    /\ UNCHANGED <<toCli, cliOpen, srvOpen>>

Reply(msgs) == out' = msgs

\* Values of a field that the client has to refuse.
Garbled(m) ==
    CASE m.kind \in {"status", "mstatus", "dstatus", "ack"} -> {Msg(m.kind, "garbage")}
      [] m.kind = "offer" -> {NumMsg("offer", 0), NumMsg("offer", PROTOCOL_MAX + 1)}
      [] m.kind = "count" -> {NumMsg("count", 0), NumMsg("count", MaxFiles + 1)}
      [] m.kind \in {"text", "info"} -> {Msg(m.kind, "badSize"), Msg(m.kind, "badText")}
      [] m.kind = "name" -> {Msg("name", "badSize"), Msg("name", "badName"), Msg("name", "badPath")}
      [] m.kind = "body" -> {Msg("body", "tooBig"), Msg("body", "negative"), Msg("body", "dir")}
      [] OTHER -> {}

\* The bytes are lost when the client has closed its end.
ServerWrites ==
    /\ srvOpen /\ out # <<>>
    /\ \E m \in {Head(out)} \cup (IF "garbage" \in Faults THEN Garbled(Head(out)) ELSE {}) :
          toCli' = IF cliOpen THEN Append(toCli, m) ELSE toCli
    /\ out' = Tail(out)
    /\ UNCHANGED <<toSrv, cliOpen, srvOpen, srv, spc, sver, sleft, got, acked>>

\* A read gives up: the client closed its end, or nothing came in time.
ServerGivesUp ==
    /\ srvOpen /\ out = <<>>
    /\ spc \notin {"sendFiles", "linger", "closed"}
    /\ "timeout" \in Faults \/ (toSrv = <<>> /\ ~cliOpen)
    /\ spc' = "linger"
    /\ UNCHANGED <<linkVars, srv, sver, sleft, out, got, acked>>

\* After its last step the server waits for a moment for the client to close,
\* then closes.
ServerCloses ==
    /\ srvOpen /\ out = <<>>
    /\ spc = "linger"
    /\ spc' = "closed"
    /\ srvOpen' = FALSE
    /\ UNCHANGED <<toSrv, toCli, cliOpen, srv, sver, sleft, out, got, acked>>

ServerCrashes ==
    /\ "crash" \in Faults
    /\ srvOpen
    /\ spc' = "closed"
    /\ srvOpen' = FALSE
    /\ out' = <<>>
    /\ toCli' \in {toCli, <<>>}
    /\ UNCHANGED <<toSrv, cliOpen, srv, sver, sleft, got, acked>>

-----------------------------------------------------------------------------
(* Negotiation *)

ServerReadsVersion ==
    /\ spc = "version"
    /\ ServerReads("version")
    /\ LET v == Head(toSrv).num
       IN  \/ /\ v < srv.min
              /\ Reply(<<Msg("status", "obsolete")>>)
              /\ spc' = "linger" /\ UNCHANGED sver
           \/ /\ v > srv.max
              /\ Reply(<<Msg("status", "unknown"), NumMsg("offer", srv.max)>>)
              /\ spc' = "answer" /\ UNCHANGED sver
           \/ /\ v \in srv.min .. srv.max
              /\ Reply(<<Msg("status", "supported")>>)
              /\ spc' = "method" /\ sver' = v
    /\ UNCHANGED <<srv, sleft, got, acked>>

ServerReadsAnswer ==
    /\ spc = "answer"
    /\ ServerReads("answer")
    /\ \/ Head(toSrv).num = srv.max /\ spc' = "method" /\ sver' = srv.max
       \/ Head(toSrv).num # srv.max /\ spc' = "linger" /\ UNCHANGED sver
    /\ UNCHANGED <<srv, sleft, out, got, acked>>

-----------------------------------------------------------------------------
(* Methods *)

\* Where the server goes after it sent something / received everything.
AfterSending(v) == IF v >= 4 THEN "ack" ELSE "linger"
ReplyAfterReceiving(v) == IF v >= 4 THEN <<Msg("ack", "ok")>> ELSE <<>>

Images == {"GET_IMAGE", "GET_COPIED_IMAGE"}

ServerReadsMethod ==
    /\ spc = "method"
    /\ ServerReads("method")
    /\ LET method == Head(toSrv).val
           ok     == Msg("mstatus", "ok")
       IN  \/ /\ \E status \in {"noData", "notImplemented", "unknownMethod"} :
                    Reply(<<Msg("mstatus", status)>>)
              /\ spc' = "linger" /\ UNCHANGED sleft
           \/ /\ method = "GET_TEXT"
              /\ Reply(<<ok, Msg("text", "ok")>>)
              /\ spc' = AfterSending(sver) /\ UNCHANGED sleft
           \/ /\ method = "INFO"
              /\ Reply(<<ok, Msg("info", "ok")>>)
              /\ spc' = AfterSending(sver) /\ UNCHANGED sleft
           \/ /\ method \in Images
              /\ Reply(<<ok, Msg("body", "file")>>)
              /\ spc' = AfterSending(sver) /\ UNCHANGED sleft
           \/ /\ method = "GET_FILE"
              /\ \E n \in 1 .. MaxFiles :
                    Reply(<<ok, NumMsg("count", n)>>) /\ sleft' = n
              /\ spc' = "sendFiles"
           \/ /\ method = "GET_SCREENSHOT"
              /\ Reply(<<ok>>)
              /\ spc' = "display" /\ UNCHANGED sleft
           \/ /\ method = "SEND_TEXT"
              /\ Reply(<<ok>>)
              /\ spc' = "text" /\ UNCHANGED sleft
           \/ /\ method = "SEND_FILE"
              /\ Reply(<<ok>>)
              /\ \/ sver = 1 /\ sleft' = 1 /\ spc' = "name"
                 \/ sver > 1 /\ spc' = "count" /\ UNCHANGED sleft
    /\ UNCHANGED <<srv, sver, got, acked>>

ServerSendsFile ==
    /\ srvOpen
    /\ spc = "sendFiles"
    /\ out = <<>>
    /\ \/ /\ sleft > 0
          /\ \E body \in IF sver >= 3 THEN {"file", "dir"} ELSE {"file"} :
                Reply(<<Msg("name", "ok"), Msg("body", body)>>)
          /\ sleft' = sleft - 1
          /\ UNCHANGED spc
       \/ sleft = 0 /\ spc' = AfterSending(sver) /\ UNCHANGED <<sleft, out>>
    /\ UNCHANGED <<linkVars, srv, sver, got, acked>>

ServerReadsDisplay ==
    /\ spc = "display"
    /\ ServerReads("display")
    /\ \/ /\ Reply(<<Msg("dstatus", "ok"), Msg("body", "file")>>)
          /\ spc' = AfterSending(sver)
       \/ Reply(<<Msg("dstatus", "noData")>>) /\ spc' = "linger"
    /\ UNCHANGED <<srv, sver, sleft, got, acked>>

ServerReadsText ==
    /\ spc = "text"
    /\ ServerReads("text")
    /\ got' = TRUE
    /\ Reply(ReplyAfterReceiving(sver))
    /\ spc' = "linger"
    /\ UNCHANGED <<srv, sver, sleft, acked>>

ServerReadsCount ==
    /\ spc = "count"
    /\ ServerReads("count")
    /\ sleft' = Head(toSrv).num
    /\ spc' = IF Head(toSrv).num = 0 THEN "linger" ELSE "name"
    /\ UNCHANGED <<srv, sver, out, got, acked>>

ServerReadsName ==
    /\ spc = "name"
    /\ ServerReads("name")
    /\ spc' = "body"
    /\ UNCHANGED <<srv, sver, sleft, out, got, acked>>

ServerReadsBody ==
    /\ spc = "body"
    /\ ServerReads("body")
    /\ sleft' = sleft - 1
    /\ \/ sleft > 1 /\ spc' = "name" /\ UNCHANGED <<out, got>>
       \/ /\ sleft <= 1
          /\ got' = TRUE
          /\ Reply(ReplyAfterReceiving(sver))
          /\ spc' = "linger"
    /\ UNCHANGED <<srv, sver, acked>>

ServerReadsAck ==
    /\ spc = "ack"
    /\ ServerReads("ack")
    /\ acked' = TRUE
    /\ spc' = "linger"
    /\ UNCHANGED <<srv, sver, sleft, out, got>>

-----------------------------------------------------------------------------
ServerNext ==
    \/ ServerWrites \/ ServerGivesUp \/ ServerCloses
    \/ ServerReadsVersion \/ ServerReadsAnswer \/ ServerReadsMethod
    \/ ServerSendsFile \/ ServerReadsDisplay \/ ServerReadsText \/ ServerReadsCount
    \/ ServerReadsName \/ ServerReadsBody \/ ServerReadsAck
=============================================================================
