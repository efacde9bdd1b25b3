--------------------------- MODULE SessionProofs ----------------------------
(***************************************************************************)
(* Theorems about Session, for every set of requests, every range of       *)
(* versions, every bound on files and every set of faults.                 *)
(***************************************************************************)
EXTENDS Session, SequenceTheorems, TLAPS

\* The fields that are on a stream.
Fields(q) == {q[i] : i \in DOMAIN q}

LEMMA FieldsOfEmpty == Fields(<<>>) = {}
  BY DEF Fields

LEMMA FieldsOfAppend ==
  ASSUME NEW S, NEW q \in Seq(S), NEW m \in S
  PROVE  Append(q, m) \in Seq(S) /\ Fields(Append(q, m)) = Fields(q) \cup {m}
<1>1. /\ Append(q, m) \in Seq(S)
      /\ Len(Append(q, m)) = Len(q) + 1
      /\ \A i \in 1 .. Len(q) : Append(q, m)[i] = q[i]
      /\ Append(q, m)[Len(q) + 1] = m
  BY AppendProperties
<1>2. DOMAIN q = 1 .. Len(q) /\ DOMAIN Append(q, m) = 1 .. Len(q) + 1 /\ Len(q) \in Nat
  BY <1>1, LenProperties
<1>3. QED
  BY <1>1, <1>2 DEF Fields

LEMMA FieldsOfTail ==
  ASSUME NEW S, NEW q \in Seq(S), q # <<>>
  PROVE  /\ Tail(q) \in Seq(S) /\ Head(q) \in S
         /\ Head(q) \in Fields(q) /\ Fields(Tail(q)) \subseteq Fields(q)
<1>1. /\ Head(q) \in S /\ Tail(q) \in Seq(S)
      /\ Head(q) = q[1] /\ Len(q) \in Nat \ {0}
      /\ Len(Tail(q)) = Len(q) - 1
      /\ \A i \in 1 .. Len(q) - 1 : Tail(q)[i] = q[i + 1]
  BY HeadTailProperties, EmptySeq, LenProperties
<1>2. DOMAIN q = 1 .. Len(q) /\ DOMAIN Tail(q) = 1 .. Len(q) - 1
  BY <1>1, LenProperties
<1>3. QED
  BY <1>1, <1>2 DEF Fields

-----------------------------------------------------------------------------
(* Messages *)

LEMMA MsgType ==
  ASSUME NEW kind \in FromClient \cup FromServer \cup FromBoth, NEW val \in Values
  PROVE  Msg(kind, val) \in Message
  BY DEF Msg, Message

LEMMA NumMsgType ==
  ASSUME NEW kind \in FromClient \cup FromServer \cup FromBoth, NEW n \in Nat
  PROVE  NumMsg(kind, n) \in Message
<1>1. "number" \in Values
  BY DEF Values
<1>2. QED
  BY <1>1 DEF NumMsg, Message

LEMMA ClientMessages ==
  /\ \A n \in Nat : /\ NumMsg("version", n) \in Message
                    /\ NumMsg("answer", n) \in Message
                    /\ NumMsg("count", n) \in Message
  /\ \A m \in MethodSet : Msg("method", m) \in Message
  /\ Msg("text", "ok") \in Message /\ Msg("ack", "ok") \in Message
  /\ Msg("name", "ok") \in Message /\ Msg("display", "ok") \in Message
  /\ \A body \in {"file", "dir"} : Msg("body", body) \in Message
<1>1. {"version", "answer", "method", "display", "text", "count", "name", "body", "ack"}
        \subseteq FromClient \cup FromServer \cup FromBoth
  BY DEF FromClient, FromServer, FromBoth
<1>2. MethodSet \subseteq Values /\ "ok" \in Values /\ {"file", "dir"} \subseteq Values
  BY DEF Values
<1>3. \A n \in Nat : /\ NumMsg("version", n) \in Message
                     /\ NumMsg("answer", n) \in Message
                     /\ NumMsg("count", n) \in Message
  BY <1>1, NumMsgType
<1>4. \A m \in MethodSet : Msg("method", m) \in Message
  BY <1>1, <1>2, MsgType
<1>5. /\ Msg("text", "ok") \in Message /\ Msg("ack", "ok") \in Message
      /\ Msg("name", "ok") \in Message /\ Msg("display", "ok") \in Message
  BY <1>1, <1>2, MsgType
<1>6. \A body \in {"file", "dir"} : Msg("body", body) \in Message
  BY <1>1, <1>2, MsgType
<1>7. QED
  BY <1>3, <1>4, <1>5, <1>6

LEMMA ServerMessages ==
  /\ \A val \in {"supported", "obsolete", "unknown", "garbage"} : Msg("status", val) \in Message
  /\ \A val \in {"ok", "noData", "notImplemented", "unknownMethod", "garbage"} :
        Msg("mstatus", val) \in Message /\ Msg("dstatus", val) \in Message
  /\ \A n \in Nat : NumMsg("offer", n) \in Message /\ NumMsg("count", n) \in Message
  /\ \A val \in {"ok", "badSize", "badText"} : Msg("text", val) \in Message /\ Msg("info", val) \in Message
  /\ \A val \in {"ok", "badSize", "badName", "badPath"} : Msg("name", val) \in Message
  /\ \A val \in {"file", "dir", "tooBig", "negative"} : Msg("body", val) \in Message
  /\ \A val \in {"ok", "garbage"} : Msg("ack", val) \in Message
<1>1. {"status", "offer", "mstatus", "dstatus", "info", "text", "count", "name", "body", "ack"}
        \subseteq FromClient \cup FromServer \cup FromBoth
  BY DEF FromClient, FromServer, FromBoth
<1>2. {"ok", "garbage", "supported", "obsolete", "unknown", "noData", "notImplemented",
       "unknownMethod", "badSize", "badText", "badName", "badPath", "file", "dir", "tooBig",
       "negative"} \subseteq Values
  BY DEF Values
<1>3. \A val \in {"supported", "obsolete", "unknown", "garbage"} : Msg("status", val) \in Message
  BY <1>1, <1>2, MsgType
<1>4. \A val \in {"ok", "noData", "notImplemented", "unknownMethod", "garbage"} :
        Msg("mstatus", val) \in Message /\ Msg("dstatus", val) \in Message
  BY <1>1, <1>2, MsgType
<1>5. \A n \in Nat : NumMsg("offer", n) \in Message /\ NumMsg("count", n) \in Message
  BY <1>1, NumMsgType
<1>6. \A val \in {"ok", "badSize", "badText"} :
        Msg("text", val) \in Message /\ Msg("info", val) \in Message
  BY <1>1, <1>2, MsgType
<1>7. \A val \in {"ok", "badSize", "badName", "badPath"} : Msg("name", val) \in Message
  BY <1>1, <1>2, MsgType
<1>8. \A val \in {"file", "dir", "tooBig", "negative"} : Msg("body", val) \in Message
  BY <1>1, <1>2, MsgType
<1>9. \A val \in {"ok", "garbage"} : Msg("ack", val) \in Message
  BY <1>1, <1>2, MsgType
<1>10. QED
  BY <1>3, <1>4, <1>5, <1>6, <1>7, <1>8, <1>9

LEMMA GarbledType ==
  ASSUME NEW m \in Message, NEW g \in Garbled(m)
  PROVE  g \in Message
<1>1. {PROTOCOL_MAX + 1, MaxFiles + 1, 0} \subseteq Nat
  BY VersionAssumption, MaxFilesAssumption
<1>2. CASE m.kind \in {"status", "mstatus", "dstatus", "ack"}
  BY <1>2, ServerMessages DEF Garbled
<1>3. CASE m.kind \in {"offer", "count"}
  BY <1>1, <1>3, ServerMessages DEF Garbled
<1>4. CASE m.kind \in {"text", "info", "name", "body"}
  BY <1>4, ServerMessages DEF Garbled
<1>5. CASE m.kind \notin {"status", "mstatus", "dstatus", "ack", "offer", "count", "text", "info",
                          "name", "body"}
  BY <1>5 DEF Garbled
<1>6. QED
  BY <1>2, <1>3, <1>4, <1>5

-----------------------------------------------------------------------------
(* What reads and writes do to the streams *)

LEMMA ClientReadsEffect ==
  ASSUME LinkTypeOK, NEW kind, ClientReads(kind)
  PROVE  /\ toCli' \in Seq(Message) /\ toSrv' = toSrv /\ toSrv' \in Seq(Message)
         /\ Head(toCli) \in Message /\ Head(toCli).kind = kind
         /\ Head(toCli) \in Fields(toCli) /\ Fields(toCli') \subseteq Fields(toCli)
  BY FieldsOfTail DEF ClientReads, LinkTypeOK

LEMMA ClientWritesEffect ==
  ASSUME LinkTypeOK, NEW m \in Message, ClientWrites(m)
  PROVE  /\ toSrv' \in Seq(Message) /\ toCli' = toCli /\ toCli' \in Seq(Message)
         /\ Fields(toSrv') \subseteq Fields(toSrv) \cup {m}
  BY FieldsOfAppend DEF ClientWrites, LinkTypeOK

LEMMA ServerReadsEffect ==
  ASSUME LinkTypeOK, NEW kind, ServerReads(kind)
  PROVE  /\ LinkTypeOK'
         /\ toCli' = toCli /\ cliOpen' = cliOpen /\ srvOpen' = srvOpen /\ out = <<>>
         /\ Head(toSrv) \in Message /\ Head(toSrv).kind = kind
         /\ Head(toSrv) \in Fields(toSrv) /\ Fields(toSrv') \subseteq Fields(toSrv)
  BY FieldsOfTail DEF ServerReads, LinkTypeOK

-----------------------------------------------------------------------------
(* Types of the client's variables *)

\* The part of ClientTypeOK that GoTo, Return and Fail are about.
ControlTypeOK ==
    /\ pc \in Steps
    /\ ans \in Answers \cup {"none"}
    /\ ret \in {"none", "SUCCESS", "FAILURE"}

LEMMA FirstAnswerType ==
  ASSUME ans \in Answers \cup {"none"}, NEW code \in Answers
  PROVE  FirstAnswer(code) \in Answers \cup {"none"}
  BY DEF FirstAnswer

LEMMA GoToType ==
  ASSUME ControlTypeOK, NEW step \in Steps, GoTo(step)
  PROVE  ControlTypeOK'
  BY DEF ControlTypeOK, GoTo

LEMMA ReturnType ==
  ASSUME ControlTypeOK, NEW code \in Answers, NEW result \in {"SUCCESS", "FAILURE"},
         Return(code, result)
  PROVE  ControlTypeOK'
  BY FirstAnswerType DEF ControlTypeOK, Return, Steps

LEMMA FailType ==
  ASSUME ControlTypeOK, NEW code \in Answers, Fail(code)
  PROVE  ControlTypeOK'
  BY ReturnType DEF Fail

LEMMA FailSilentlyType ==
  ASSUME ControlTypeOK, FailSilently
  PROVE  ControlTypeOK'
  BY DEF ControlTypeOK, FailSilently, Steps

LEMMA ReceivedType ==
  ASSUME ControlTypeOK, Received
  PROVE  ControlTypeOK'
  BY FirstAnswerType, FailSilentlyType DEF ControlTypeOK, Received, Steps, Answers

LEMMA AckAnswerType ==
  ASSUME ControlTypeOK, NEW a
  PROVE  AckAnswer(a) \in Answers \cup {"none"}
  BY FirstAnswerType DEF AckAnswer, Answers, ControlTypeOK

\* As long as a name or a body is still expected, there is a file left: without
\* this the counts could drop below zero, and TypeOK would not be inductive.
FilesLeft ==
    /\ pc \in {"getName", "getBody"} => left > 0
    /\ spc \in {"name", "body"} => sleft > 0

LEMMA ClientControlType ==
  ASSUME TypeOK, ClientNext
  PROVE  ControlTypeOK'
<1>a. ControlTypeOK
  BY DEF ControlTypeOK, TypeOK, ClientTypeOK
<1>b. \A code \in Answers : FirstAnswer(code) \in Answers \cup {"none"}
  BY <1>a, FirstAnswerType DEF ControlTypeOK
<1>c. \A step \in Steps : GoTo(step) => ControlTypeOK'
  BY <1>a, GoToType
<1>d. HandlerOf[req.method] \in Steps
  BY DEF TypeOK, ClientTypeOK, Request, MethodSet, Sends, HandlerOf, Steps
<1> USE <1>a, <1>b, <1>c, FailSilentlyType, ReceivedType, AckAnswerType DEF Steps, Answers
<1>1. CASE NotStarted
  BY <1>1, ReturnType, FailType DEF NotStarted, ControlTypeOK
<1>2. CASE Connect
  BY <1>2, ReturnType, FailType DEF Connect, ControlTypeOK
<1>3. CASE Finish
  BY <1>3, ReturnType, FailType DEF Finish, ControlTypeOK
<1>4. CASE SendVersion
  BY <1>4, ReturnType, FailType DEF SendVersion, ControlTypeOK
<1>5. CASE ReadStatus
  BY <1>5, ReturnType, FailType DEF ReadStatus, ControlTypeOK
<1>6. CASE ReadOffer
  BY <1>6, ReturnType, FailType DEF ReadOffer, ControlTypeOK
<1>7. CASE AcceptOffer
  BY <1>7, ReturnType, FailType DEF AcceptOffer, ControlTypeOK
<1>8. CASE SendMethod
  BY <1>8, ReturnType, FailType DEF SendMethod, ControlTypeOK
<1>9. CASE ReadMethodStatus
  BY <1>9, ReturnType, FailType, <1>d DEF ReadMethodStatus, ControlTypeOK
<1>10. CASE GetText
  BY <1>10, ReturnType, FailType DEF GetText, ControlTypeOK
<1>11. CASE AckText
  BY <1>11, ReturnType, FailType DEF AckText, ControlTypeOK
<1>12. CASE CloseText
  BY <1>12, ReturnType, FailType DEF CloseText, ControlTypeOK
<1>13. CASE StoreText
  BY <1>13, ReturnType, FailType DEF StoreText, ControlTypeOK
<1>14. CASE SendText
  BY <1>14, ReturnType, FailType DEF SendText, ControlTypeOK
<1>15. CASE ReadTextAck
  BY <1>15, ReturnType, FailType DEF ReadTextAck, ControlTypeOK
<1>16. CASE CloseSentText
  BY <1>16, ReturnType, FailType DEF CloseSentText, ControlTypeOK
<1>17. CASE SendCount
  BY <1>17, ReturnType, FailType DEF SendCount, ControlTypeOK
<1>18. CASE SendFile
  BY <1>18, ReturnType, FailType DEF SendFile, ControlTypeOK
<1>19. CASE FilesSent
  BY <1>19, ReturnType, FailType DEF FilesSent, ControlTypeOK
<1>20. CASE ReadFilesAck
  BY <1>20, ReturnType, FailType DEF ReadFilesAck, ControlTypeOK
<1>21. CASE CloseSentFiles
  BY <1>21, ReturnType, FailType DEF CloseSentFiles, ControlTypeOK
<1>22. CASE GetCount
  BY <1>22, ReturnType, FailType DEF GetCount, ControlTypeOK
<1>23. CASE GetName
  BY <1>23, ReturnType, FailType DEF GetName, ControlTypeOK
<1>24. CASE GetBody
  BY <1>24, ReturnType, FailType DEF GetBody, ControlTypeOK
<1>25. CASE Place
  BY <1>25, ReturnType, FailType DEF Place, ControlTypeOK
<1>26. CASE AckReceived
  BY <1>26, ReturnType, FailType DEF AckReceived, ControlTypeOK
<1>27. CASE CloseReceived
  BY <1>27, ReturnType, FailType DEF CloseReceived, ControlTypeOK
<1>28. CASE CutReceived
  BY <1>28, ReturnType, FailType DEF CutReceived, ControlTypeOK
<1>29. CASE SendDisplay
  BY <1>29, ReturnType, FailType DEF SendDisplay, ControlTypeOK
<1>30. CASE ReadDisplayStatus
  BY <1>30, ReturnType, FailType DEF ReadDisplayStatus, ControlTypeOK
<1>31. CASE GetImage
  BY <1>31, ReturnType, FailType DEF GetImage, ControlTypeOK
<1>32. CASE GetInfo
  BY <1>32, ReturnType, FailType DEF GetInfo, ControlTypeOK
<1>33. CASE AckInfo
  BY <1>33, ReturnType, FailType DEF AckInfo, ControlTypeOK
<1>34. CASE CloseInfo
  BY <1>34, ReturnType, FailType DEF CloseInfo, ControlTypeOK
<1> QED
  BY <1>1, <1>2, <1>3, <1>4, <1>5, <1>6, <1>7, <1>8, <1>9, <1>10, <1>11,
     <1>12, <1>13, <1>14, <1>15, <1>16, <1>17, <1>18, <1>19, <1>20, <1>21,
     <1>22, <1>23, <1>24, <1>25, <1>26, <1>27, <1>28, <1>29, <1>30, <1>31,
     <1>32, <1>33, <1>34 DEF ClientNext

LEMMA ClientStreamTypes ==
  ASSUME TypeOK, ClientNext
  PROVE  toSrv' \in Seq(Message) /\ toCli' \in Seq(Message)
<1>a. LinkTypeOK /\ toSrv \in Seq(Message) /\ toCli \in Seq(Message)
  BY DEF TypeOK, LinkTypeOK
<1>b. req \in Request /\ ver \in Nat /\ req.max \in Nat /\ req.method \in MethodSet
  BY DEF TypeOK, ClientTypeOK, Request
<1>c. \A kind : ClientReads(kind) => toSrv' \in Seq(Message) /\ toCli' \in Seq(Message)
  BY <1>a, ClientReadsEffect
<1>d. \A m \in Message : ClientWrites(m) => toSrv' \in Seq(Message) /\ toCli' \in Seq(Message)
  BY <1>a, ClientWritesEffect
<1>e. ClientReadFails \/ ClientWriteFails => toSrv' \in Seq(Message) /\ toCli' \in Seq(Message)
  BY <1>a DEF ClientReadFails, ClientWriteFails
<1>f. \A m \in Message : Append(toSrv, m) \in Seq(Message)
  BY <1>a, AppendProperties
<1> USE <1>a, <1>c, <1>d, <1>e, ClientMessages
<1>1. CASE NotStarted
  BY <1>1 DEF NotStarted, linkVars
<1>2. CASE Connect
  BY <1>2 DEF Connect, linkVars
<1>3. CASE Finish
  BY <1>3 DEF Finish, linkVars
<1>4. CASE SendVersion
  BY <1>4, <1>b DEF SendVersion, linkVars
<1>5. CASE ReadStatus
  BY <1>5 DEF ReadStatus, linkVars
<1>6. CASE ReadOffer
  BY <1>6, <1>b, <1>f, FieldsOfTail DEF ReadOffer, linkVars
<1>7. CASE AcceptOffer
  BY <1>7, <1>b DEF AcceptOffer, linkVars
<1>8. CASE SendMethod
  BY <1>8, <1>b DEF SendMethod, linkVars
<1>9. CASE ReadMethodStatus
  BY <1>9 DEF ReadMethodStatus, linkVars
<1>10. CASE GetText
  BY <1>10 DEF GetText, linkVars
<1>11. CASE AckText
  BY <1>11 DEF AckText, linkVars
<1>12. CASE CloseText
  BY <1>12 DEF CloseText, linkVars
<1>13. CASE StoreText
  BY <1>13 DEF StoreText, linkVars
<1>14. CASE SendText
  BY <1>14 DEF SendText, linkVars
<1>15. CASE ReadTextAck
  BY <1>15 DEF ReadTextAck, linkVars
<1>16. CASE CloseSentText
  BY <1>16 DEF CloseSentText, linkVars
<1>17. CASE SendCount
  BY <1>17 DEF SendCount, linkVars
<1>18. CASE SendFile
  <2>1. \A body \in Bodies(ver) : /\ Msg("name", "ok") \in Message /\ Msg("body", body) \in Message
                                  /\ Append(Append(toSrv, Msg("name", "ok")), Msg("body", body)) \in Seq(Message)
    BY AppendProperties DEF Bodies
  <2>2. QED
    BY <1>18, <2>1 DEF SendFile
<1>19. CASE FilesSent
  BY <1>19 DEF FilesSent, linkVars
<1>20. CASE ReadFilesAck
  BY <1>20 DEF ReadFilesAck, linkVars
<1>21. CASE CloseSentFiles
  BY <1>21 DEF CloseSentFiles, linkVars
<1>22. CASE GetCount
  BY <1>22 DEF GetCount, linkVars
<1>23. CASE GetName
  BY <1>23 DEF GetName, linkVars
<1>24. CASE GetBody
  BY <1>24 DEF GetBody, linkVars
<1>25. CASE Place
  BY <1>25 DEF Place, linkVars
<1>26. CASE AckReceived
  BY <1>26 DEF AckReceived, linkVars
<1>27. CASE CloseReceived
  BY <1>27 DEF CloseReceived, linkVars
<1>28. CASE CutReceived
  BY <1>28 DEF CutReceived, linkVars
<1>29. CASE SendDisplay
  BY <1>29 DEF SendDisplay, linkVars
<1>30. CASE ReadDisplayStatus
  BY <1>30 DEF ReadDisplayStatus, linkVars
<1>31. CASE GetImage
  BY <1>31 DEF GetImage, linkVars
<1>32. CASE GetInfo
  BY <1>32 DEF GetInfo, linkVars
<1>33. CASE AckInfo
  BY <1>33 DEF AckInfo, linkVars
<1>34. CASE CloseInfo
  BY <1>34 DEF CloseInfo, linkVars
<1> QED
  BY <1>1, <1>2, <1>3, <1>4, <1>5, <1>6, <1>7, <1>8, <1>9, <1>10, <1>11,
     <1>12, <1>13, <1>14, <1>15, <1>16, <1>17, <1>18, <1>19, <1>20, <1>21,
     <1>22, <1>23, <1>24, <1>25, <1>26, <1>27, <1>28, <1>29, <1>30, <1>31,
     <1>32, <1>33, <1>34 DEF ClientNext

LEMMA ClientDataTypes ==
  ASSUME TypeOK, FilesLeft, ClientNext
  PROVE  /\ req' \in Request /\ ver' \in Nat /\ left' \in Nat
         /\ clip' \in BOOLEAN /\ disk' \in {"none", "temp", "partly", "placed", "directory"}
         /\ cliOpen' \in BOOLEAN /\ srvOpen' \in BOOLEAN
<1>a. /\ req \in Request /\ ver \in Nat /\ left \in Nat
      /\ clip \in BOOLEAN /\ disk \in {"none", "temp", "partly", "placed", "directory"}
      /\ cliOpen \in BOOLEAN /\ srvOpen \in BOOLEAN /\ LinkTypeOK
  BY DEF TypeOK, ClientTypeOK, LinkTypeOK
<1>b. req.max \in Nat /\ (ver >= 4) \in BOOLEAN
  BY <1>a DEF Request
<1>c. \A kind : ClientReads(kind) => Head(toCli).num \in Nat
  BY <1>a, ClientReadsEffect DEF Message
<1>d. pc = "getBody" => left - 1 \in Nat
  BY <1>a DEF FilesLeft
<1> USE <1>a DEF linkVars
<1>1. CASE NotStarted
  BY <1>1 DEF NotStarted
<1>2. CASE Connect
  BY <1>2 DEF Connect
<1>3. CASE Finish
  BY <1>3 DEF Finish
<1>4. CASE SendVersion
  BY <1>4 DEF SendVersion
<1>5. CASE ReadStatus
  BY <1>5, <1>b DEF ReadStatus
<1>6. CASE ReadOffer
  BY <1>6, <1>c DEF ReadOffer
<1>7. CASE AcceptOffer
  BY <1>7 DEF AcceptOffer
<1>8. CASE SendMethod
  BY <1>8 DEF SendMethod
<1>9. CASE ReadMethodStatus
  BY <1>9 DEF ReadMethodStatus
<1>10. CASE GetText
  BY <1>10, <1>b DEF GetText
<1>11. CASE AckText
  BY <1>11 DEF AckText
<1>12. CASE CloseText
  BY <1>12 DEF CloseText
<1>13. CASE StoreText
  BY <1>13 DEF StoreText
<1>14. CASE SendText
  BY <1>14 DEF SendText
<1>15. CASE ReadTextAck
  BY <1>15 DEF ReadTextAck
<1>16. CASE CloseSentText
  BY <1>16 DEF CloseSentText
<1>17. CASE SendCount
  BY <1>17 DEF SendCount
<1>18. CASE SendFile
  BY <1>18 DEF SendFile, MoreToSend
<1>19. CASE FilesSent
  BY <1>19 DEF FilesSent
<1>20. CASE ReadFilesAck
  BY <1>20 DEF ReadFilesAck
<1>21. CASE CloseSentFiles
  BY <1>21 DEF CloseSentFiles
<1>22. CASE GetCount
  BY <1>22, <1>c DEF GetCount
<1>23. CASE GetName
  BY <1>23 DEF GetName
<1>24. CASE GetBody
  BY <1>24, <1>d DEF GetBody
<1>25. CASE Place
  BY <1>25, <1>b DEF Place
<1>26. CASE AckReceived
  BY <1>26 DEF AckReceived
<1>27. CASE CloseReceived
  BY <1>27 DEF CloseReceived
<1>28. CASE CutReceived
  BY <1>28 DEF CutReceived
<1>29. CASE SendDisplay
  BY <1>29 DEF SendDisplay
<1>30. CASE ReadDisplayStatus
  BY <1>30 DEF ReadDisplayStatus
<1>31. CASE GetImage
  BY <1>31 DEF GetImage
<1>32. CASE GetInfo
  BY <1>32, <1>b DEF GetInfo
<1>33. CASE AckInfo
  BY <1>33 DEF AckInfo
<1>34. CASE CloseInfo
  BY <1>34 DEF CloseInfo
<1> QED
  BY <1>1, <1>2, <1>3, <1>4, <1>5, <1>6, <1>7, <1>8, <1>9, <1>10, <1>11,
     <1>12, <1>13, <1>14, <1>15, <1>16, <1>17, <1>18, <1>19, <1>20, <1>21,
     <1>22, <1>23, <1>24, <1>25, <1>26, <1>27, <1>28, <1>29, <1>30, <1>31,
     <1>32, <1>33, <1>34 DEF ClientNext

-----------------------------------------------------------------------------
(* Types of the server's variables *)

LEMMA ServerStreamTypes ==
  ASSUME TypeOK, ServerNext \/ ServerCrashes
  PROVE  LinkTypeOK'
<1>a. LinkTypeOK /\ out \in Seq(Message)
  BY DEF TypeOK, ServerTypeOK
<1>b. \A kind : ServerReads(kind) => LinkTypeOK'
  BY <1>a, ServerReadsEffect
<1>c. UNCHANGED linkVars => LinkTypeOK'
  BY <1>a DEF linkVars, LinkTypeOK
<1>d. <<>> \in Seq(Message)
  OBVIOUS
<1> USE <1>a, <1>b
<1>1. CASE ServerWrites
  <2>1. PICK m \in {Head(out)} \cup (IF "garbage" \in Faults THEN Garbled(Head(out)) ELSE {}) :
                toCli' = IF cliOpen THEN Append(toCli, m) ELSE toCli
    BY <1>1 DEF ServerWrites
  <2>2. Head(out) \in Message /\ Tail(out) \in Seq(Message)
    BY <1>1, FieldsOfTail DEF ServerWrites
  <2>3. m \in Message
    BY <2>1, <2>2, GarbledType
  <2>4. toCli' \in Seq(Message)
    BY <2>1, <2>3, AppendProperties DEF LinkTypeOK
  <2>5. QED
    BY <1>1, <2>2, <2>4 DEF ServerWrites, LinkTypeOK
<1>2. CASE ServerGivesUp
  BY <1>2, <1>c DEF ServerGivesUp
<1>3. CASE ServerCloses
  BY <1>3 DEF ServerCloses, LinkTypeOK
<1>4. CASE ServerReadsVersion
  BY <1>4 DEF ServerReadsVersion
<1>5. CASE ServerReadsAnswer
  BY <1>5 DEF ServerReadsAnswer
<1>6. CASE ServerReadsMethod
  BY <1>6 DEF ServerReadsMethod
<1>7. CASE ServerSendsFile
  BY <1>7, <1>c DEF ServerSendsFile
<1>8. CASE ServerReadsDisplay
  BY <1>8 DEF ServerReadsDisplay
<1>9. CASE ServerReadsText
  BY <1>9 DEF ServerReadsText
<1>10. CASE ServerReadsCount
  BY <1>10 DEF ServerReadsCount
<1>11. CASE ServerReadsName
  BY <1>11 DEF ServerReadsName
<1>12. CASE ServerReadsBody
  BY <1>12 DEF ServerReadsBody
<1>13. CASE ServerReadsAck
  BY <1>13 DEF ServerReadsAck
<1>14. CASE ServerCrashes
  BY <1>14, <1>d DEF ServerCrashes, LinkTypeOK
<1> QED
  BY <1>1, <1>2, <1>3, <1>4, <1>5, <1>6, <1>7, <1>8, <1>9, <1>10, <1>11,
     <1>12, <1>13, <1>14 DEF ServerNext

LEMMA ServerOutType ==
  ASSUME TypeOK, ServerNext \/ ServerCrashes
  PROVE  out' \in Seq(Message)
<1>a. out \in Seq(Message)
  BY DEF TypeOK, ServerTypeOK
<1>b. <<>> \in Seq(Message)
  OBVIOUS
<1>c. \A m \in Message : <<m>> \in Seq(Message)
  OBVIOUS
<1>d. \A m, n \in Message : <<m, n>> \in Seq(Message)
  OBVIOUS
<1>e. srv.max \in Nat /\ \A n \in 1 .. MaxFiles : n \in Nat
  BY MaxFilesAssumption DEF TypeOK, ServerTypeOK
<1>f. ReplyAfterReceiving(sver) \in Seq(Message)
  BY <1>b, <1>c, ServerMessages DEF ReplyAfterReceiving
<1>1. CASE ServerWrites
  BY <1>1, <1>a, FieldsOfTail DEF ServerWrites
<1>2. CASE ServerGivesUp
  BY <1>2, <1>a DEF ServerGivesUp
<1>3. CASE ServerCloses
  BY <1>3, <1>a DEF ServerCloses
<1>4. CASE ServerReadsVersion
  <2>1. /\ <<Msg("status", "obsolete")>> \in Seq(Message)
        /\ <<Msg("status", "supported")>> \in Seq(Message)
        /\ <<Msg("status", "unknown"), NumMsg("offer", srv.max)>> \in Seq(Message)
    BY <1>c, <1>d, <1>e, ServerMessages
  <2>2. QED
    BY <1>4, <2>1 DEF ServerReadsVersion, Reply
<1>5. CASE ServerReadsAnswer
  BY <1>5, <1>a DEF ServerReadsAnswer
<1>6. CASE ServerReadsMethod
  <2>1. /\ \A status \in {"ok", "noData", "notImplemented", "unknownMethod"} :
             <<Msg("mstatus", status)>> \in Seq(Message)
        /\ <<Msg("mstatus", "ok"), Msg("text", "ok")>> \in Seq(Message)
        /\ <<Msg("mstatus", "ok"), Msg("info", "ok")>> \in Seq(Message)
        /\ <<Msg("mstatus", "ok"), Msg("body", "file")>> \in Seq(Message)
        /\ \A n \in 1 .. MaxFiles : <<Msg("mstatus", "ok"), NumMsg("count", n)>> \in Seq(Message)
    BY <1>c, <1>d, <1>e, ServerMessages
  <2>2. QED
    BY <1>6, <2>1 DEF ServerReadsMethod, Reply
<1>7. CASE ServerSendsFile
  <2>1. \A body \in {"file", "dir"} : <<Msg("name", "ok"), Msg("body", body)>> \in Seq(Message)
    BY <1>d, ServerMessages
  <2>2. QED
    BY <1>7, <1>a, <2>1 DEF ServerSendsFile, Reply
<1>8. CASE ServerReadsDisplay
  <2>1. /\ <<Msg("dstatus", "ok"), Msg("body", "file")>> \in Seq(Message)
        /\ <<Msg("dstatus", "noData")>> \in Seq(Message)
    BY <1>c, <1>d, ServerMessages
  <2>2. QED
    BY <1>8, <2>1 DEF ServerReadsDisplay, Reply
<1>9. CASE ServerReadsText
  BY <1>9, <1>f DEF ServerReadsText, Reply
<1>10. CASE ServerReadsCount
  BY <1>10, <1>a DEF ServerReadsCount
<1>11. CASE ServerReadsName
  BY <1>11, <1>a DEF ServerReadsName
<1>12. CASE ServerReadsBody
  BY <1>12, <1>a, <1>f DEF ServerReadsBody, Reply
<1>13. CASE ServerReadsAck
  BY <1>13, <1>a DEF ServerReadsAck
<1>14. CASE ServerCrashes
  BY <1>14, <1>b DEF ServerCrashes
<1> QED
  BY <1>1, <1>2, <1>3, <1>4, <1>5, <1>6, <1>7, <1>8, <1>9, <1>10, <1>11,
     <1>12, <1>13, <1>14 DEF ServerNext

LEMMA ServerDataTypes ==
  ASSUME TypeOK, FilesLeft, ServerNext \/ ServerCrashes
  PROVE  /\ srv' \in [min : Nat, max : Nat] /\ spc' \in ServerSteps /\ sver' \in Nat
         /\ sleft' \in Nat /\ got' \in BOOLEAN /\ acked' \in BOOLEAN
<1>a. /\ srv \in [min : Nat, max : Nat] /\ spc \in ServerSteps /\ sver \in Nat
      /\ sleft \in Nat /\ got \in BOOLEAN /\ acked \in BOOLEAN
  BY DEF TypeOK, ServerTypeOK
<1>b. \A kind : ServerReads(kind) => Head(toSrv).num \in Nat
  BY ServerReadsEffect DEF TypeOK, Message
<1>c. spc = "body" => sleft - 1 \in Nat
  BY <1>a DEF FilesLeft
<1>d. srv.max \in Nat /\ \A n \in 1 .. MaxFiles : n \in Nat
  BY <1>a, MaxFilesAssumption
<1> USE <1>a DEF ServerSteps, AfterSending
<1>1. CASE ServerWrites
  BY <1>1 DEF ServerWrites
<1>2. CASE ServerGivesUp
  BY <1>2 DEF ServerGivesUp
<1>3. CASE ServerCloses
  BY <1>3 DEF ServerCloses
<1>4. CASE ServerReadsVersion
  BY <1>4, <1>b DEF ServerReadsVersion
<1>5. CASE ServerReadsAnswer
  BY <1>5, <1>d DEF ServerReadsAnswer
<1>6. CASE ServerReadsMethod
  <2>1. sleft' \in Nat /\ spc' \in ServerSteps
    BY <1>6, <1>d DEF ServerReadsMethod
  <2>2. UNCHANGED <<srv, sver, got, acked>>
    BY <1>6 DEF ServerReadsMethod
  <2>3. QED
    BY <2>1, <2>2
<1>7. CASE ServerSendsFile
  BY <1>7 DEF ServerSendsFile
<1>8. CASE ServerReadsDisplay
  BY <1>8 DEF ServerReadsDisplay
<1>9. CASE ServerReadsText
  BY <1>9 DEF ServerReadsText
<1>10. CASE ServerReadsCount
  BY <1>10, <1>b DEF ServerReadsCount
<1>11. CASE ServerReadsName
  BY <1>11 DEF ServerReadsName
<1>12. CASE ServerReadsBody
  BY <1>12, <1>c DEF ServerReadsBody
<1>13. CASE ServerReadsAck
  BY <1>13 DEF ServerReadsAck
<1>14. CASE ServerCrashes
  BY <1>14 DEF ServerCrashes
<1> QED
  BY <1>1, <1>2, <1>3, <1>4, <1>5, <1>6, <1>7, <1>8, <1>9, <1>10, <1>11,
     <1>12, <1>13, <1>14 DEF ServerNext

-----------------------------------------------------------------------------
LEMMA FilesLeftInductive ==
  ASSUME TypeOK, FilesLeft, Next
  PROVE  FilesLeft'
<1>1. ASSUME ClientNext
      PROVE  pc' \in {"getName", "getBody"} => left' > 0
  <2>a. HandlerOf[req.method] \notin {"getName", "getBody"}
    BY DEF TypeOK, ClientTypeOK, Request, MethodSet, Sends, HandlerOf
  <2>b. left \in Nat /\ (pc = "getName" \/ pc = "getBody" => left > 0)
    BY DEF TypeOK, ClientTypeOK, FilesLeft
  <2> USE DEF GoTo, Return, Fail, FailSilently, Received
  <2>1. CASE NotStarted
    BY <2>1 DEF NotStarted
  <2>2. CASE Connect
    BY <2>2 DEF Connect
  <2>3. CASE Finish
    BY <2>3 DEF Finish
  <2>4. CASE SendVersion
    BY <2>4 DEF SendVersion
  <2>5. CASE ReadStatus
    BY <2>5 DEF ReadStatus
  <2>6. CASE ReadOffer
    BY <2>6 DEF ReadOffer
  <2>7. CASE AcceptOffer
    BY <2>7 DEF AcceptOffer
  <2>8. CASE SendMethod
    BY <2>8 DEF SendMethod
  <2>9. CASE ReadMethodStatus
    BY <2>9, <2>a DEF ReadMethodStatus
  <2>10. CASE GetText
    BY <2>10 DEF GetText
  <2>11. CASE AckText
    BY <2>11 DEF AckText
  <2>12. CASE CloseText
    BY <2>12 DEF CloseText
  <2>13. CASE StoreText
    BY <2>13 DEF StoreText
  <2>14. CASE SendText
    BY <2>14 DEF SendText
  <2>15. CASE ReadTextAck
    BY <2>15 DEF ReadTextAck
  <2>16. CASE CloseSentText
    BY <2>16 DEF CloseSentText
  <2>17. CASE SendCount
    BY <2>17 DEF SendCount
  <2>18. CASE SendFile
    BY <2>18 DEF SendFile
  <2>19. CASE FilesSent
    BY <2>19 DEF FilesSent
  <2>20. CASE ReadFilesAck
    BY <2>20 DEF ReadFilesAck
  <2>21. CASE CloseSentFiles
    BY <2>21 DEF CloseSentFiles
  <2>22. CASE GetCount
    BY <2>22, MaxFilesAssumption DEF GetCount
  <2>23. CASE GetName
    BY <2>23, <2>b DEF GetName
  <2>24. CASE GetBody
    BY <2>24, <2>b DEF GetBody
  <2>25. CASE Place
    BY <2>25 DEF Place
  <2>26. CASE AckReceived
    BY <2>26 DEF AckReceived
  <2>27. CASE CloseReceived
    BY <2>27 DEF CloseReceived
  <2>28. CASE CutReceived
    BY <2>28 DEF CutReceived
  <2>29. CASE SendDisplay
    BY <2>29 DEF SendDisplay
  <2>30. CASE ReadDisplayStatus
    BY <2>30 DEF ReadDisplayStatus
  <2>31. CASE GetImage
    BY <2>31 DEF GetImage
  <2>32. CASE GetInfo
    BY <2>32 DEF GetInfo
  <2>33. CASE AckInfo
    BY <2>33 DEF AckInfo
  <2>34. CASE CloseInfo
    BY <2>34 DEF CloseInfo
  <2> QED
    BY <1>1, <2>1, <2>2, <2>3, <2>4, <2>5, <2>6, <2>7, <2>8, <2>9, <2>10, <2>11,
       <2>12, <2>13, <2>14, <2>15, <2>16, <2>17, <2>18, <2>19, <2>20, <2>21,
       <2>22, <2>23, <2>24, <2>25, <2>26, <2>27, <2>28, <2>29, <2>30, <2>31,
       <2>32, <2>33, <2>34 DEF ClientNext
<1>2. ASSUME ServerNext \/ ServerCrashes
      PROVE  spc' \in {"name", "body"} => sleft' > 0
  <2>a. sleft \in Nat /\ (spc = "name" \/ spc = "body" => sleft > 0)
    BY DEF TypeOK, ServerTypeOK, FilesLeft
  <2>b. \A kind : ServerReads(kind) => Head(toSrv).num \in Nat
    BY ServerReadsEffect DEF TypeOK, Message
  <2> USE DEF AfterSending
  <2>1. CASE ServerWrites
    BY <2>1, <2>a DEF ServerWrites
  <2>2. CASE ServerGivesUp
    BY <2>2, <2>a DEF ServerGivesUp
  <2>3. CASE ServerCloses
    BY <2>3, <2>a DEF ServerCloses
  <2>4. CASE ServerReadsVersion
    BY <2>4, <2>a DEF ServerReadsVersion
  <2>5. CASE ServerReadsAnswer
    BY <2>5, <2>a DEF ServerReadsAnswer
  <2>6. CASE ServerReadsMethod
    BY <2>6, <2>a DEF ServerReadsMethod
  <2>7. CASE ServerSendsFile
    BY <2>7, <2>a DEF ServerSendsFile
  <2>8. CASE ServerReadsDisplay
    BY <2>8, <2>a DEF ServerReadsDisplay
  <2>9. CASE ServerReadsText
    BY <2>9, <2>a DEF ServerReadsText
  <2>10. CASE ServerReadsCount
    BY <2>10, <2>a, <2>b DEF ServerReadsCount
  <2>11. CASE ServerReadsName
    BY <2>11, <2>a DEF ServerReadsName
  <2>12. CASE ServerReadsBody
    BY <2>12, <2>a DEF ServerReadsBody
  <2>13. CASE ServerReadsAck
    BY <2>13, <2>a DEF ServerReadsAck
  <2>14. CASE ServerCrashes
    BY <2>14, <2>a DEF ServerCrashes
  <2> QED
    BY <1>2, <2>1, <2>2, <2>3, <2>4, <2>5, <2>6, <2>7, <2>8, <2>9, <2>10, <2>11,
       <2>12, <2>13, <2>14 DEF ServerNext
<1>3. QED
  BY <1>1, <1>2 DEF Next, Terminated, FilesLeft, clientVars, serverVars, vars

LEMMA TypeInductive ==
  ASSUME TypeOK, FilesLeft, [Next]_vars
  PROVE  TypeOK' /\ FilesLeft'
<1>1. CASE ClientNext /\ UNCHANGED serverVars
  <2>1. ControlTypeOK' /\ LinkTypeOK' /\ ClientTypeOK'
    BY <1>1, ClientControlType, ClientStreamTypes, ClientDataTypes
    DEF ControlTypeOK, LinkTypeOK, ClientTypeOK
  <2>2. ServerTypeOK'
    BY <1>1 DEF TypeOK, ServerTypeOK, serverVars
  <2>3. QED
    BY <1>1, <2>1, <2>2, FilesLeftInductive DEF TypeOK, Next
<1>2. CASE (ServerNext \/ ServerCrashes) /\ UNCHANGED clientVars
  <2>1. ClientTypeOK'
    BY <1>2 DEF TypeOK, ClientTypeOK, clientVars
  <2>2. ServerTypeOK'
    BY <1>2, ServerOutType, ServerDataTypes DEF ServerTypeOK
  <2>3. QED
    BY <1>2, <2>1, <2>2, ServerStreamTypes, FilesLeftInductive DEF TypeOK, Next
<1>3. CASE UNCHANGED vars
  BY <1>3 DEF vars, linkVars, clientVars, serverVars, TypeOK, LinkTypeOK, ClientTypeOK, ServerTypeOK,
              FilesLeft
<1>4. QED
  BY <1>1, <1>2, <1>3 DEF Next, Terminated

\* Every variable keeps its type: in particular every field on a stream is one
\* that the programs know, and the number of files left never drops below zero.
THEOREM TypeCorrect == Spec => []TypeOK
<1>1. Init => TypeOK /\ FilesLeft
  <2> SUFFICES ASSUME Init PROVE TypeOK /\ FilesLeft
    OBVIOUS
  <2>a. <<>> \in Seq(Message)
    OBVIOUS
  <2>1. LinkTypeOK
    BY <2>a DEF Init, LinkInit, LinkTypeOK
  <2>2. ClientTypeOK
    BY RequestsAssumption DEF Init, ClientInit, ClientTypeOK, Steps
  <2>3. ServerTypeOK
    BY <2>a, ServerRangesAssumption DEF Init, ServerInit, ServerTypeOK, ServerSteps
  <2>4. QED
    BY <2>1, <2>2, <2>3 DEF TypeOK, FilesLeft, Init, ClientInit, ServerInit
<1>2. QED
  BY <1>1, TypeInductive, PTL DEF Spec

-----------------------------------------------------------------------------
(* The response to the web page *)

LEMMA FirstAnswerKept ==
  ASSUME ans # "none", NEW code
  PROVE  FirstAnswer(code) = ans
  BY DEF FirstAnswer

LEMMA AnswerKept ==
  ASSUME ans # "none", ClientNext
  PROVE  ans' = ans
<1>a. \A code : FirstAnswer(code) = ans
  BY FirstAnswerKept
<1> USE <1>a DEF GoTo, Return, Fail, FailSilently, Received, AckAnswer
<1>1. CASE NotStarted
  BY <1>1 DEF NotStarted, linkVars
<1>2. CASE Connect
  BY <1>2 DEF Connect, linkVars
<1>3. CASE Finish
  BY <1>3 DEF Finish, linkVars
<1>4. CASE SendVersion
  BY <1>4 DEF SendVersion, linkVars
<1>5. CASE ReadStatus
  BY <1>5 DEF ReadStatus, linkVars
<1>6. CASE ReadOffer
  BY <1>6 DEF ReadOffer, linkVars
<1>7. CASE AcceptOffer
  BY <1>7 DEF AcceptOffer, linkVars
<1>8. CASE SendMethod
  BY <1>8 DEF SendMethod, linkVars
<1>9. CASE ReadMethodStatus
  BY <1>9 DEF ReadMethodStatus, linkVars
<1>10. CASE GetText
  BY <1>10 DEF GetText, linkVars
<1>11. CASE AckText
  BY <1>11 DEF AckText, linkVars
<1>12. CASE CloseText
  BY <1>12 DEF CloseText, linkVars
<1>13. CASE StoreText
  BY <1>13 DEF StoreText, linkVars
<1>14. CASE SendText
  BY <1>14 DEF SendText, linkVars
<1>15. CASE ReadTextAck
  BY <1>15 DEF ReadTextAck, linkVars
<1>16. CASE CloseSentText
  BY <1>16 DEF CloseSentText, linkVars
<1>17. CASE SendCount
  BY <1>17 DEF SendCount, linkVars
<1>18. CASE SendFile
  BY <1>18 DEF SendFile, linkVars
<1>19. CASE FilesSent
  BY <1>19 DEF FilesSent, linkVars
<1>20. CASE ReadFilesAck
  BY <1>20 DEF ReadFilesAck, linkVars
<1>21. CASE CloseSentFiles
  BY <1>21 DEF CloseSentFiles, linkVars
<1>22. CASE GetCount
  BY <1>22 DEF GetCount, linkVars
<1>23. CASE GetName
  BY <1>23 DEF GetName, linkVars
<1>24. CASE GetBody
  BY <1>24 DEF GetBody, linkVars
<1>25. CASE Place
  BY <1>25 DEF Place, linkVars
<1>26. CASE AckReceived
  BY <1>26 DEF AckReceived, linkVars
<1>27. CASE CloseReceived
  BY <1>27 DEF CloseReceived, linkVars
<1>28. CASE CutReceived
  BY <1>28 DEF CutReceived, linkVars
<1>29. CASE SendDisplay
  BY <1>29 DEF SendDisplay, linkVars
<1>30. CASE ReadDisplayStatus
  BY <1>30 DEF ReadDisplayStatus, linkVars
<1>31. CASE GetImage
  BY <1>31 DEF GetImage, linkVars
<1>32. CASE GetInfo
  BY <1>32 DEF GetInfo, linkVars
<1>33. CASE AckInfo
  BY <1>33 DEF AckInfo, linkVars
<1>34. CASE CloseInfo
  BY <1>34 DEF CloseInfo, linkVars
<1> QED
  BY <1>1, <1>2, <1>3, <1>4, <1>5, <1>6, <1>7, <1>8, <1>9, <1>10, <1>11,
     <1>12, <1>13, <1>14, <1>15, <1>16, <1>17, <1>18, <1>19, <1>20, <1>21,
     <1>22, <1>23, <1>24, <1>25, <1>26, <1>27, <1>28, <1>29, <1>30, <1>31,
     <1>32, <1>33, <1>34 DEF ClientNext

\* The response that is queued for the web page first is the one it gets: no
\* later report, not even that of a missing acknowledgement, replaces it.
THEOREM AnswerFinal == Spec => AnswerIsFinal
<1>1. [Next]_vars => [ans # "none" => ans' = ans]_vars
  BY AnswerKept DEF Next, Terminated, vars, clientVars
<1>2. QED
  BY <1>1, PTL DEF Spec, AnswerIsFinal

-----------------------------------------------------------------------------
(* Negotiation.  Two programs that negotiate a version never disagree about *)
(* it.  The invariant is about fields still on the streams, so most of the  *)
(* proof says what a step may add to a stream.                              *)

\* What is on the streams while the programs negotiate.  A nonzero answer and
\* an offer that is not garbled name the highest version of the server; "supported"
\* names the highest version of the client, and the server has settled on it.
NegotiationInv ==
    /\ req \in Requests /\ srv \in ServerRanges
    /\ \A m \in Fields(toSrv) :
         /\ m.kind = "version" => m.num = req.max
         /\ m.kind = "answer" /\ m.num # 0 => m.num = srv.max /\ ver = srv.max
    /\ \A m \in Fields(toCli) \cup Fields(out) :
         /\ m.kind = "offer" =>
              \/ m.num \in {0, PROTOCOL_MAX + 1}
              \/ m.num = srv.max /\ sver \in {0, srv.max}
         /\ m.kind = "status" /\ m.val = "supported" =>
              sver = req.max /\ spc \notin {"version", "answer"}
         /\ spc = "version" => m.kind \notin {"status", "offer"}
    /\ spc = "version" => ver = 0 /\ sver = 0
    /\ pc = "acceptOffer" => ver = srv.max
    /\ VersionsAgree

\* What a step of the client adds to the stream to the server.
ClientSays(m) ==
    \/ m \in Fields(toSrv)
    \/ m.kind \notin {"version", "answer", "ack"}
    \/ pc = "sendVersion" /\ m = NumMsg("version", req.max)
    \/ pc = "readOffer" /\ m = NumMsg("answer", 0)
    \/ pc = "acceptOffer" /\ m = NumMsg("answer", ver)
    \/ pc \in {"ackText", "ackReceived", "ackInfo"} /\ m = Msg("ack", "ok")

LEMMA ClientStreams ==
  ASSUME TypeOK, ClientNext
  PROVE  /\ Fields(toCli') \subseteq Fields(toCli)
         /\ \A m \in Fields(toSrv') : ClientSays(m)
<1>a. LinkTypeOK /\ toSrv \in Seq(Message) /\ toCli \in Seq(Message)
  BY DEF TypeOK, LinkTypeOK
<1>b. ver \in Nat /\ req.max \in Nat /\ req.method \in MethodSet
  BY DEF TypeOK, ClientTypeOK, Request
<1>c. \A kind : ClientReads(kind) =>
         toSrv' = toSrv /\ Fields(toCli') \subseteq Fields(toCli)
  BY <1>a, ClientReadsEffect
<1>d. \A m \in Message : ClientWrites(m) =>
         toCli' = toCli /\ Fields(toSrv') \subseteq Fields(toSrv) \cup {m}
  BY <1>a, ClientWritesEffect
<1>e. ClientReadFails \/ ClientWriteFails => toSrv' = toSrv /\ toCli' = toCli
  BY DEF ClientReadFails, ClientWriteFails
<1>f. \A m \in Fields(toSrv) : ClientSays(m)
  BY DEF ClientSays
<1>g. \A m \in Message : m.kind \notin {"version", "answer", "ack"} => ClientSays(m)
  BY DEF ClientSays
<1>h. /\ \A m \in MethodSet : Msg("method", m).kind = "method"
      /\ \A n \in Nat : NumMsg("count", n).kind = "count"
      /\ Msg("text", "ok").kind = "text"
      /\ Msg("name", "ok").kind = "name" /\ Msg("display", "ok").kind = "display"
      /\ \A body \in {"file", "dir"} : Msg("body", body).kind = "body"
  BY DEF Msg, NumMsg
<1> USE <1>a, <1>c, <1>d, <1>e, <1>f, <1>g, <1>h, ClientMessages
<1>1. CASE NotStarted
  BY <1>1 DEF NotStarted, linkVars
<1>2. CASE Connect
  BY <1>2 DEF Connect, linkVars
<1>3. CASE Finish
  BY <1>3 DEF Finish, linkVars
<1>4. CASE SendVersion
  <2>1. ClientSays(NumMsg("version", req.max))
    BY <1>4 DEF SendVersion, ClientSays
  <2>2. QED
    BY <1>4, <1>b, <2>1 DEF SendVersion
<1>5. CASE ReadStatus
  BY <1>5 DEF ReadStatus, linkVars
<1>6. CASE ReadOffer
  <2>1. ClientSays(NumMsg("answer", 0)) /\ NumMsg("answer", 0) \in Message
    BY <1>6 DEF ReadOffer, ClientSays
  <2>2. Fields(Append(toSrv, NumMsg("answer", 0))) = Fields(toSrv) \cup {NumMsg("answer", 0)}
    BY <2>1, FieldsOfAppend
  <2>3. toCli # <<>> => Fields(Tail(toCli)) \subseteq Fields(toCli)
    BY FieldsOfTail
  <2>4. QED
    BY <1>6, <2>1, <2>2, <2>3 DEF ReadOffer
<1>7. CASE AcceptOffer
  <2>1. ClientSays(NumMsg("answer", ver))
    BY <1>7 DEF AcceptOffer, ClientSays
  <2>2. QED
    BY <1>7, <1>b, <2>1 DEF AcceptOffer
<1>8. CASE SendMethod
  BY <1>8, <1>b DEF SendMethod, linkVars
<1>9. CASE ReadMethodStatus
  BY <1>9 DEF ReadMethodStatus, linkVars
<1>10. CASE GetText
  BY <1>10 DEF GetText, linkVars
<1>11. CASE AckText
  <2>1. ClientSays(Msg("ack", "ok"))
    BY <1>11 DEF AckText, ClientSays
  <2> QED
    BY <1>11, <2>1 DEF AckText
<1>12. CASE CloseText
  BY <1>12 DEF CloseText, linkVars
<1>13. CASE StoreText
  BY <1>13 DEF StoreText, linkVars
<1>14. CASE SendText
  BY <1>14 DEF SendText, linkVars
<1>15. CASE ReadTextAck
  BY <1>15 DEF ReadTextAck, linkVars
<1>16. CASE CloseSentText
  BY <1>16 DEF CloseSentText, linkVars
<1>17. CASE SendCount
  BY <1>17 DEF SendCount, linkVars
<1>18. CASE SendFile
  <2>1. \A body \in Bodies(ver) : Msg("name", "ok") \in Message /\ Msg("body", body) \in Message
    BY DEF Bodies
  <2>2. /\ Append(toSrv, Msg("name", "ok")) \in Seq(Message)
        /\ Fields(Append(toSrv, Msg("name", "ok"))) = Fields(toSrv) \cup {Msg("name", "ok")}
    BY FieldsOfAppend
  <2>3. \A body \in Bodies(ver) :
           Fields(Append(Append(toSrv, Msg("name", "ok")), Msg("body", body))) =
                Fields(toSrv) \cup {Msg("name", "ok"), Msg("body", body)}
    <3>a. \A q \in Seq(Message), m \in Message : Fields(Append(q, m)) = Fields(q) \cup {m}
      BY FieldsOfAppend
    <3>1. TAKE body \in Bodies(ver)
    <3>2. Msg("body", body) \in Message
      BY <2>1
    <3>3. Fields(Append(Append(toSrv, Msg("name", "ok")), Msg("body", body))) =
            Fields(Append(toSrv, Msg("name", "ok"))) \cup {Msg("body", body)}
      BY <2>2, <3>a, <3>2
    <3>4. QED
      BY <2>2, <3>3
  <2>4. \A body \in Bodies(ver) : ClientSays(Msg("body", body)) /\ ClientSays(Msg("name", "ok"))
    BY <2>1 DEF Bodies
  <2>5. QED
    BY <1>18, <2>3, <2>4 DEF SendFile
<1>19. CASE FilesSent
  BY <1>19 DEF FilesSent, linkVars
<1>20. CASE ReadFilesAck
  BY <1>20 DEF ReadFilesAck, linkVars
<1>21. CASE CloseSentFiles
  BY <1>21 DEF CloseSentFiles, linkVars
<1>22. CASE GetCount
  BY <1>22 DEF GetCount, linkVars
<1>23. CASE GetName
  BY <1>23 DEF GetName, linkVars
<1>24. CASE GetBody
  BY <1>24 DEF GetBody, linkVars
<1>25. CASE Place
  BY <1>25 DEF Place, linkVars
<1>26. CASE AckReceived
  <2>1. ClientSays(Msg("ack", "ok"))
    BY <1>26 DEF AckReceived, ClientSays
  <2> QED
    BY <1>26, <2>1 DEF AckReceived
<1>27. CASE CloseReceived
  BY <1>27 DEF CloseReceived, linkVars
<1>28. CASE CutReceived
  BY <1>28 DEF CutReceived, linkVars
<1>29. CASE SendDisplay
  BY <1>29 DEF SendDisplay, linkVars
<1>30. CASE ReadDisplayStatus
  BY <1>30 DEF ReadDisplayStatus, linkVars
<1>31. CASE GetImage
  BY <1>31 DEF GetImage, linkVars
<1>32. CASE GetInfo
  BY <1>32 DEF GetInfo, linkVars
<1>33. CASE AckInfo
  <2>1. ClientSays(Msg("ack", "ok"))
    BY <1>33 DEF AckInfo, ClientSays
  <2> QED
    BY <1>33, <2>1 DEF AckInfo
<1>34. CASE CloseInfo
  BY <1>34 DEF CloseInfo, linkVars
<1> QED
  BY <1>1, <1>2, <1>3, <1>4, <1>5, <1>6, <1>7, <1>8, <1>9, <1>10, <1>11,
     <1>12, <1>13, <1>14, <1>15, <1>16, <1>17, <1>18, <1>19, <1>20, <1>21,
     <1>22, <1>23, <1>24, <1>25, <1>26, <1>27, <1>28, <1>29, <1>30, <1>31,
     <1>32, <1>33, <1>34 DEF ClientNext

LEMMA ClientSettles ==
  ASSUME TypeOK, ClientNext
  PROVE  /\ req' = req
         /\ pc' = "acceptOffer" => ReadOffer
         /\ ver' = ver \/ ReadStatus \/ ReadOffer
<1>1. HandlerOf[req.method] # "acceptOffer"
  BY DEF TypeOK, ClientTypeOK, Request, MethodSet, Sends, HandlerOf
<1>2. req' = req /\ (pc' = "acceptOffer" => ReadOffer)
  <2> USE DEF GoTo, Return, Fail, FailSilently, Received
  <2>1. CASE NotStarted
    BY <2>1 DEF NotStarted
  <2>2. CASE Connect
    BY <2>2 DEF Connect
  <2>3. CASE Finish
    BY <2>3 DEF Finish
  <2>4. CASE SendVersion
    BY <2>4 DEF SendVersion
  <2>5. CASE ReadStatus
    BY <2>5 DEF ReadStatus
  <2>6. CASE ReadOffer
    BY <2>6 DEF ReadOffer
  <2>7. CASE AcceptOffer
    BY <2>7 DEF AcceptOffer
  <2>8. CASE SendMethod
    BY <2>8 DEF SendMethod
  <2>9. CASE ReadMethodStatus
    BY <2>9, <1>1 DEF ReadMethodStatus
  <2>10. CASE GetText
    BY <2>10 DEF GetText
  <2>11. CASE AckText
    BY <2>11 DEF AckText
  <2>12. CASE CloseText
    BY <2>12 DEF CloseText
  <2>13. CASE StoreText
    BY <2>13 DEF StoreText
  <2>14. CASE SendText
    BY <2>14 DEF SendText
  <2>15. CASE ReadTextAck
    BY <2>15 DEF ReadTextAck
  <2>16. CASE CloseSentText
    BY <2>16 DEF CloseSentText
  <2>17. CASE SendCount
    BY <2>17 DEF SendCount
  <2>18. CASE SendFile
    BY <2>18 DEF SendFile
  <2>19. CASE FilesSent
    BY <2>19 DEF FilesSent
  <2>20. CASE ReadFilesAck
    BY <2>20 DEF ReadFilesAck
  <2>21. CASE CloseSentFiles
    BY <2>21 DEF CloseSentFiles
  <2>22. CASE GetCount
    BY <2>22 DEF GetCount
  <2>23. CASE GetName
    BY <2>23 DEF GetName
  <2>24. CASE GetBody
    BY <2>24 DEF GetBody
  <2>25. CASE Place
    BY <2>25 DEF Place
  <2>26. CASE AckReceived
    BY <2>26 DEF AckReceived
  <2>27. CASE CloseReceived
    BY <2>27 DEF CloseReceived
  <2>28. CASE CutReceived
    BY <2>28 DEF CutReceived
  <2>29. CASE SendDisplay
    BY <2>29 DEF SendDisplay
  <2>30. CASE ReadDisplayStatus
    BY <2>30 DEF ReadDisplayStatus
  <2>31. CASE GetImage
    BY <2>31 DEF GetImage
  <2>32. CASE GetInfo
    BY <2>32 DEF GetInfo
  <2>33. CASE AckInfo
    BY <2>33 DEF AckInfo
  <2>34. CASE CloseInfo
    BY <2>34 DEF CloseInfo
  <2> QED
    BY <2>1, <2>2, <2>3, <2>4, <2>5, <2>6, <2>7, <2>8, <2>9, <2>10, <2>11,
       <2>12, <2>13, <2>14, <2>15, <2>16, <2>17, <2>18, <2>19, <2>20, <2>21,
       <2>22, <2>23, <2>24, <2>25, <2>26, <2>27, <2>28, <2>29, <2>30, <2>31,
       <2>32, <2>33, <2>34 DEF ClientNext
<1>3. ver' = ver \/ ReadStatus \/ ReadOffer
  <2>1. CASE ReadStatus
    BY <2>1 DEF ReadStatus
  <2>2. CASE ReadOffer
    BY <2>2 DEF ReadOffer
  <2>3. CASE ~ReadStatus /\ ~ReadOffer
    BY <2>3 DEF ClientNext, NotStarted, Connect, Finish, SendVersion,
       AcceptOffer, SendMethod, ReadMethodStatus, GetText, AckText, CloseText,
       StoreText, SendText, ReadTextAck, CloseSentText, SendCount, SendFile,
       FilesSent, ReadFilesAck, CloseSentFiles, GetCount, GetName, GetBody,
       Place, AckReceived, CloseReceived, CutReceived, SendDisplay,
       ReadDisplayStatus, GetImage, GetInfo, AckInfo, CloseInfo
  <2>4. QED
    BY <2>1, <2>2, <2>3
<1>4. QED
  BY <1>2, <1>3

\* What a step of the server adds to the stream to the client: what it had ready
\* to write, or a garbled form of it.
ServerSays(m) ==
    \/ m \in Fields(toCli) \cup Fields(out)
    \/ /\ m.kind = "offer" => m.num \in {0, PROTOCOL_MAX + 1}
       /\ m.kind = "status" => m.val # "supported"
       /\ m.kind = "ack" => m.val # "ok"
       /\ m.kind \in {"offer", "status"} => \E h \in Fields(out) : h.kind = m.kind

LEMMA GarbledSays ==
  ASSUME NEW h \in Message, h \in Fields(out), NEW m \in Garbled(h)
  PROVE  ServerSays(m)
<1>1. m.kind = h.kind
  BY DEF Garbled, Msg, NumMsg
<1>2. m.kind = "offer" => m.num \in {0, PROTOCOL_MAX + 1}
  BY <1>1 DEF Garbled, NumMsg
<1>3. m.kind = "status" => m.val # "supported"
  BY <1>1 DEF Garbled, Msg
<1>4. m.kind = "ack" => m.val # "ok"
  BY <1>1 DEF Garbled, Msg
<1>5. QED
  BY <1>1, <1>2, <1>3, <1>4 DEF ServerSays

LEMMA ServerStreams ==
  ASSUME TypeOK, ServerNext \/ ServerCrashes
  PROVE  /\ Fields(toSrv') \subseteq Fields(toSrv)
         /\ \A m \in Fields(toCli') : ServerSays(m)
         /\ \/ ServerReadsVersion
            \/ \A m \in Fields(out') : m \in Fields(out) \/ m.kind \notin {"status", "offer"}
<1>a. LinkTypeOK /\ toCli \in Seq(Message) /\ out \in Seq(Message)
  BY DEF TypeOK, LinkTypeOK, ServerTypeOK
<1>b. \A kind : ServerReads(kind) => Fields(toSrv') \subseteq Fields(toSrv) /\ toCli' = toCli
  BY <1>a, ServerReadsEffect
<1>c. \A m \in Fields(toCli) : ServerSays(m)
  BY DEF ServerSays
<1>d. Fields(<<>>) = {}
  BY FieldsOfEmpty
<1>e. \A m : Fields(<<m>>) = {m}
  BY DEF Fields
<1>f. \A m, n : Fields(<<m, n>>) = {m, n}
  BY DEF Fields
<1>g. \A val : /\ Msg("mstatus", val).kind = "mstatus" /\ Msg("dstatus", val).kind = "dstatus"
               /\ Msg("text", val).kind = "text" /\ Msg("info", val).kind = "info"
               /\ Msg("body", val).kind = "body" /\ Msg("name", val).kind = "name"
               /\ Msg("ack", val).kind = "ack" /\ NumMsg("count", val).kind = "count"
  BY DEF Msg, NumMsg
<1>h. \A m \in Fields(ReplyAfterReceiving(sver)) : m.kind = "ack"
  BY <1>d, <1>e, <1>g DEF ReplyAfterReceiving
<1> USE <1>b, <1>c
<1>1. CASE ServerWrites
  <2>1. /\ Head(out) \in Message /\ Head(out) \in Fields(out)
        /\ Fields(Tail(out)) \subseteq Fields(out)
    BY <1>a, <1>1, FieldsOfTail DEF ServerWrites
  <2>2. PICK m \in {Head(out)} \cup (IF "garbage" \in Faults THEN Garbled(Head(out)) ELSE {}) :
                toCli' = IF cliOpen THEN Append(toCli, m) ELSE toCli
    BY <1>1 DEF ServerWrites
  <2>3. m \in Message /\ ServerSays(m)
    BY <2>1, <2>2, GarbledType, GarbledSays DEF ServerSays
  <2>4. Fields(Append(toCli, m)) = Fields(toCli) \cup {m}
    BY <1>a, <2>3, FieldsOfAppend
  <2>5. QED
    BY <1>1, <2>1, <2>2, <2>3, <2>4 DEF ServerWrites
<1>2. CASE ServerGivesUp
  BY <1>2 DEF ServerGivesUp, linkVars
<1>3. CASE ServerCloses
  BY <1>3 DEF ServerCloses, linkVars
<1>4. CASE ServerReadsVersion
  BY <1>4 DEF ServerReadsVersion, linkVars
<1>5. CASE ServerReadsAnswer
  BY <1>5 DEF ServerReadsAnswer, linkVars
<1>6. CASE ServerReadsMethod
  <2>1. \A m \in Fields(out') : m.kind \in {"mstatus", "text", "info", "body", "count"}
    BY <1>6, <1>e, <1>f, <1>g DEF ServerReadsMethod, Reply
  <2>2. QED
    BY <1>6, <2>1 DEF ServerReadsMethod
<1>7. CASE ServerSendsFile
  <2>1. \A m \in Fields(out') : m \in Fields(out) \/ m.kind \in {"name", "body"}
    BY <1>7, <1>f, <1>g DEF ServerSendsFile, Reply
  <2>2. QED
    BY <1>7, <2>1 DEF ServerSendsFile, linkVars
<1>8. CASE ServerReadsDisplay
  <2>1. \A m \in Fields(out') : m.kind \in {"dstatus", "body"}
    BY <1>8, <1>e, <1>f, <1>g DEF ServerReadsDisplay, Reply
  <2>2. QED
    BY <1>8, <2>1 DEF ServerReadsDisplay
<1>9. CASE ServerReadsText
  BY <1>9, <1>h DEF ServerReadsText, Reply
<1>10. CASE ServerReadsCount
  BY <1>10 DEF ServerReadsCount, linkVars
<1>11. CASE ServerReadsName
  BY <1>11 DEF ServerReadsName, linkVars
<1>12. CASE ServerReadsBody
  BY <1>12, <1>h DEF ServerReadsBody, Reply
<1>13. CASE ServerReadsAck
  BY <1>13 DEF ServerReadsAck, linkVars
<1>14. CASE ServerCrashes
  BY <1>14, <1>d DEF ServerCrashes, linkVars
<1> QED
  BY <1>1, <1>2, <1>3, <1>4, <1>5, <1>6, <1>7, <1>8, <1>9, <1>10, <1>11,
     <1>12, <1>13, <1>14 DEF ServerNext

LEMMA ServerSettles ==
  ASSUME TypeOK, ServerNext \/ ServerCrashes
  PROVE  /\ srv' = srv
         /\ spc' = "version" => spc = "version"
         /\ spc' = "answer" => spc = "answer" \/ ServerReadsVersion
         /\ sver' = sver \/ ServerReadsVersion \/ ServerReadsAnswer
<1> USE DEF AfterSending
<1>1. CASE ServerWrites
  BY <1>1 DEF ServerWrites, linkVars
<1>2. CASE ServerGivesUp
  BY <1>2 DEF ServerGivesUp, linkVars
<1>3. CASE ServerCloses
  BY <1>3 DEF ServerCloses, linkVars
<1>4. CASE ServerReadsVersion
  BY <1>4 DEF ServerReadsVersion, linkVars
<1>5. CASE ServerReadsAnswer
  BY <1>5 DEF ServerReadsAnswer, linkVars
<1>6. CASE ServerReadsMethod
  BY <1>6 DEF ServerReadsMethod, linkVars
<1>7. CASE ServerSendsFile
  BY <1>7 DEF ServerSendsFile, linkVars
<1>8. CASE ServerReadsDisplay
  BY <1>8 DEF ServerReadsDisplay, linkVars
<1>9. CASE ServerReadsText
  BY <1>9 DEF ServerReadsText, linkVars
<1>10. CASE ServerReadsCount
  BY <1>10 DEF ServerReadsCount, linkVars
<1>11. CASE ServerReadsName
  BY <1>11 DEF ServerReadsName, linkVars
<1>12. CASE ServerReadsBody
  BY <1>12 DEF ServerReadsBody, linkVars
<1>13. CASE ServerReadsAck
  BY <1>13 DEF ServerReadsAck, linkVars
<1>14. CASE ServerCrashes
  BY <1>14 DEF ServerCrashes, linkVars
<1> QED
  BY <1>1, <1>2, <1>3, <1>4, <1>5, <1>6, <1>7, <1>8, <1>9, <1>10, <1>11,
     <1>12, <1>13, <1>14 DEF ServerNext

LEMMA ClientNegotiates ==
  ASSUME TypeOK, NegotiationInv, ClientNext, UNCHANGED serverVars
  PROVE  NegotiationInv'
<1>a. srv' = srv /\ sver' = sver /\ spc' = spc /\ out' = out
  BY DEF serverVars
<1>b. /\ req \in Request /\ req.min \in Nat /\ req.max \in Nat /\ ver \in Nat
      /\ PROTOCOL_MIN <= req.min /\ req.min <= req.max /\ req.max <= PROTOCOL_MAX
      /\ srv.min \in Nat \ {0} /\ srv.max \in Nat \ {0} /\ srv.min <= srv.max
  BY RequestsAssumption, ServerRangesAssumption DEF NegotiationInv, TypeOK, ClientTypeOK, Request
<1>c. req' = req /\ Fields(toCli') \subseteq Fields(toCli)
      /\ \A m \in Fields(toSrv') : ClientSays(m)
  BY ClientStreams, ClientSettles
<1>d. NumMsg("version", req.max).num = req.max /\ NumMsg("version", req.max).kind = "version"
      /\ NumMsg("answer", 0).num = 0 /\ NumMsg("answer", 0).kind = "answer"
      /\ NumMsg("answer", ver).num = ver /\ NumMsg("answer", ver).kind = "answer"
      /\ Msg("ack", "ok").kind = "ack"
  BY DEF NumMsg, Msg
<1>1. CASE ver' = ver /\ pc' # "acceptOffer"
  <2>1. \A m \in Fields(toSrv') :
           /\ m.kind = "version" => m.num = req.max
           /\ m.kind = "answer" /\ m.num # 0 => m.num = srv.max /\ ver = srv.max
    BY <1>c, <1>d DEF NegotiationInv, ClientSays
  <2>2. VersionsAgree'
    BY <1>a, <1>c, <1>1 DEF NegotiationInv, VersionsAgree
  <2>3. QED
    BY <1>a, <1>c, <1>1, <2>1, <2>2 DEF NegotiationInv
<1>2. CASE ReadStatus /\ ver' # ver
  <2>1. /\ Head(toCli) \in Fields(toCli) /\ Head(toCli).kind = "status"
        /\ Head(toCli).val = "supported"
        /\ ver' = req.max /\ pc' = "sendMethod"
    BY <1>2, ClientReadsEffect DEF ReadStatus, GoTo, TypeOK
  <2>2. sver = req.max /\ spc \notin {"version", "answer"}
    BY <2>1 DEF NegotiationInv
  <2>3. req.max # 0 /\ req.max \in srv.min .. srv.max /\ req.max \in req.min .. req.max
    BY <1>b, <2>2, VersionAssumption DEF NegotiationInv, VersionsAgree
  <2>4. VersionsAgree'
    BY <1>a, <1>c, <2>1, <2>2, <2>3 DEF VersionsAgree
  <2>5. \A m \in Fields(toSrv') :
           /\ m.kind = "version" => m.num = req.max
           /\ m.kind = "answer" /\ m.num # 0 => m.num = srv.max /\ ver' = srv.max
    <3>1. TAKE m \in Fields(toSrv')
    <3>2. m \in Fields(toSrv) \/ m.kind \notin {"version", "answer"}
      BY <1>2, <1>c DEF ClientSays, ReadStatus
    <3>3. m.kind = "answer" /\ m.num # 0 /\ m \in Fields(toSrv) => ver = sver
      BY <1>b, <2>2, <2>3 DEF NegotiationInv, VersionsAgree
    <3>4. QED
      BY <2>1, <2>2, <3>2, <3>3 DEF NegotiationInv
  <2>6. QED
    BY <1>a, <1>c, <2>1, <2>2, <2>4, <2>5 DEF NegotiationInv
<1>3. CASE ReadOffer /\ (ver' # ver \/ pc' = "acceptOffer")
  <2>1. /\ ClientReads("offer") /\ Acceptable(Head(toCli).num)
        /\ ver' = Head(toCli).num
    BY <1>3 DEF ReadOffer, Fail, Return
  <2>2. /\ Head(toCli) \in Fields(toCli) /\ Head(toCli).kind = "offer" /\ toSrv' = toSrv
    BY <2>1, ClientReadsEffect DEF TypeOK
  <2>3. Head(toCli).num \notin {0, PROTOCOL_MAX + 1}
    BY <1>b, <2>1, VersionAssumption DEF Acceptable
  <2>4. ver' = srv.max /\ sver \in {0, srv.max} /\ srv.max \in req.min .. req.max
    BY <2>1, <2>2, <2>3 DEF NegotiationInv, Acceptable
  <2>5. VersionsAgree'
    BY <1>a, <1>b, <1>c, <2>4 DEF VersionsAgree
  <2>6. spc # "version"
    BY <2>2 DEF NegotiationInv
  <2>7. QED
    BY <1>a, <1>c, <2>2, <2>4, <2>5, <2>6 DEF NegotiationInv
<1>4. QED
  BY <1>1, <1>2, <1>3, ClientSettles

LEMMA ServerNegotiates ==
  ASSUME TypeOK, NegotiationInv, ServerNext \/ ServerCrashes, UNCHANGED clientVars
  PROVE  NegotiationInv'
<1>a. req' = req /\ ver' = ver /\ pc' = pc /\ srv' = srv
  BY ServerSettles DEF clientVars
<1>b. /\ req \in Request /\ req.min \in Nat /\ req.max \in Nat /\ ver \in Nat /\ sver \in Nat
      /\ PROTOCOL_MIN <= req.min /\ req.min <= req.max /\ req.max <= PROTOCOL_MAX
      /\ srv.min \in Nat \ {0} /\ srv.max \in Nat \ {0} /\ srv.min <= srv.max
  BY RequestsAssumption, ServerRangesAssumption
  DEF NegotiationInv, TypeOK, ClientTypeOK, ServerTypeOK, Request
<1>c. /\ Fields(toSrv') \subseteq Fields(toSrv) /\ \A m \in Fields(toCli') : ServerSays(m)
      /\ \/ ServerReadsVersion
         \/ \A m \in Fields(out') : m \in Fields(out) \/ m.kind \notin {"status", "offer"}
  BY ServerStreams
<1>1. CASE ServerReadsVersion
  <2>1. /\ spc = "version" /\ Head(toSrv) \in Fields(toSrv) /\ Head(toSrv).kind = "version"
        /\ toCli' = toCli
    BY <1>1, ServerReadsEffect DEF ServerReadsVersion, TypeOK
  <2>2. ver = 0 /\ sver = 0 /\ Head(toSrv).num = req.max
        /\ \A m \in Fields(toCli) : m.kind \notin {"status", "offer"}
    BY <2>1 DEF NegotiationInv
  <2>3. \/ /\ out' = <<Msg("status", "obsolete")>> /\ spc' = "linger" /\ sver' = 0
        \/ /\ out' = <<Msg("status", "unknown"), NumMsg("offer", srv.max)>>
           /\ spc' = "answer" /\ sver' = 0
        \/ /\ req.max \in srv.min .. srv.max
           /\ out' = <<Msg("status", "supported")>> /\ spc' = "method" /\ sver' = req.max
    BY <1>1, <2>2 DEF ServerReadsVersion, Reply
  <2>4. \A m \in Fields(out') :
          /\ m.kind = "offer" => m.num = srv.max /\ sver' \in {0, srv.max}
          /\ m.kind = "status" /\ m.val = "supported" =>
               sver' = req.max /\ spc' \notin {"version", "answer"}
    BY <2>3 DEF Fields, Msg, NumMsg
  <2>5. VersionsAgree'
    BY <1>a, <1>b, <2>2, <2>3 DEF VersionsAgree
  <2>6. spc' # "version"
    BY <2>3
  <2>7. QED
    BY <1>a, <1>c, <2>1, <2>2, <2>4, <2>5, <2>6 DEF NegotiationInv
<1>2. CASE ServerReadsAnswer /\ sver' # sver
  <2>1. /\ spc = "answer" /\ Head(toSrv) \in Fields(toSrv) /\ Head(toSrv).kind = "answer"
        /\ toCli' = toCli /\ Head(toSrv).num = srv.max /\ sver' = srv.max /\ spc' = "method"
        /\ out' = out
    BY <1>2, ServerReadsEffect DEF ServerReadsAnswer, TypeOK
  <2>2. ver = srv.max
    BY <1>b, <2>1 DEF NegotiationInv
  <2>3. VersionsAgree'
    BY <1>a, <1>b, <2>1, <2>2 DEF NegotiationInv, VersionsAgree
  <2>4. QED
    BY <1>a, <1>c, <2>1, <2>2, <2>3 DEF NegotiationInv
<1>3. CASE ~ServerReadsVersion /\ sver' = sver
  <2>1. /\ spc' = "version" => spc = "version"
        /\ spc' = "answer" => spc = "answer"
    BY <1>3, ServerSettles
  <2>2. VersionsAgree'
    BY <1>a, <1>3 DEF NegotiationInv, VersionsAgree
  <2>3. \A m \in Fields(toCli') \cup Fields(out') :
          /\ m.kind = "offer" =>
               \/ m.num \in {0, PROTOCOL_MAX + 1}
               \/ m.num = srv.max /\ sver \in {0, srv.max}
          /\ m.kind = "status" /\ m.val = "supported" =>
               sver = req.max /\ spc' \notin {"version", "answer"}
          /\ spc' = "version" => m.kind \notin {"status", "offer"}
    BY <1>3, <1>c, <2>1 DEF NegotiationInv, ServerSays
  <2>4. QED
    BY <1>a, <1>c, <1>3, <2>1, <2>2, <2>3 DEF NegotiationInv
<1>4. QED
  BY <1>1, <1>2, <1>3, ServerSettles

\* The invariant holds in every state.
LEMMA NegotiationAlways == Spec => []NegotiationInv
<1>1. Init => NegotiationInv
  BY FieldsOfEmpty DEF Init, LinkInit, ClientInit, ServerInit, NegotiationInv, VersionsAgree
<1>2. TypeOK /\ NegotiationInv /\ [Next]_vars => NegotiationInv'
  <2> SUFFICES ASSUME TypeOK, NegotiationInv, [Next]_vars PROVE NegotiationInv'
    OBVIOUS
  <2>1. CASE UNCHANGED vars
    BY <2>1 DEF vars, linkVars, clientVars, serverVars, NegotiationInv, VersionsAgree
  <2>2. QED
    BY <2>1, ClientNegotiates, ServerNegotiates DEF Next, Terminated
<1>3. QED
  BY <1>1, <1>2, TypeCorrect, PTL DEF Spec

\* Both programs use a version only if both support it, and when both have settled
\* it is the same one, whatever the network loses and whatever the server garbles.
THEOREM VersionsAgreed == Spec => []VersionsAgree
<1>1. NegotiationInv => VersionsAgree
  BY DEF NegotiationInv
<1>2. QED
  BY <1>1, NegotiationAlways, PTL

-----------------------------------------------------------------------------
(* Outcomes.  An answer and an acknowledgement speak of data that is in     *)
(* place.  The invariant says which methods each handler carries out, what *)
(* is settled before an answer or a result is given, and that whoever      *)
(* acknowledges has what it acknowledges and will not change it any more.  *)

\* The methods whose data is an image.
Pictures == Images \cup {"GET_SCREENSHOT"}

\* Each handler carries out the methods it was chosen for.
Handling ==
    /\ pc \in {"getText", "ackText", "closeText", "storeText"} => req.method = "GET_TEXT"
    /\ pc \in {"sendText", "readTextAck", "closeSentText"} => req.method = "SEND_TEXT"
    /\ pc = "closeSentText" => ver < 4
    /\ pc \in {"sendCount", "sendFile", "readFilesAck", "closeSentFiles"} => req.method = "SEND_FILE"
    /\ pc \in {"getCount", "getName", "getBody", "place"} => req.method = "GET_FILE"
    /\ pc \in {"sendDisplay", "readDisplayStatus"} => req.method = "GET_SCREENSHOT"
    /\ pc = "getImage" => req.method \in Pictures
    /\ pc \in {"ackReceived", "closeReceived", "cutReceived"} =>
          req.method \in Pictures \cup {"GET_FILE"} /\ Arrived
    /\ pc \in {"getInfo", "ackInfo", "closeInfo"} => req.method = "INFO"

\* Nothing is reported before it is settled.
Reported ==
    /\ left # 0 => pc \in {"sendFile", "getName", "getBody", "returned", "done"}
    /\ ret # "none" => pc \in {"returned", "done"}
    /\ ans # "none" =>
          pc \in {"closeText", "storeText", "readFilesAck", "closeSentFiles", "closeReceived",
                  "cutReceived", "ackInfo", "closeInfo", "returned", "done"}
    /\ ans = "OK" =>
          \/ Arrived
          \/ req.method = "SEND_FILE" /\ (pc \in {"returned", "done"} => ret = "SUCCESS")
          \/ req.method = "SEND_TEXT" /\ ver < 4 /\ ret = "SUCCESS"

\* A field that tells the other side that everything arrived.
IsAck(m) == m.kind = "ack" /\ m.val = "ok"

\* What the client may still change is not what it has acknowledged.
Kept == Arrived /\ left = 0 /\ pc \in {"closeReceived", "cutReceived", "returned", "done"}

\* Either side acknowledges only what it has.
Acknowledged ==
    /\ \A m \in Fields(toCli) \cup Fields(out) : IsAck(m) => got
    /\ acked \/ (\E m \in Fields(toSrv) : m.kind = "ack") =>
          req.method \in {"GET_TEXT", "INFO"} \/ Kept

OutcomeInv == Handling /\ Reported /\ Acknowledged

-----------------------------------------------------------------------------
(* The control of the client *)

\* HandlerOf picks the handler by the method, and a handler goes only to its own steps.
LEMMA HandlingStep ==
  ASSUME TypeOK, Handling, ClientNext, UNCHANGED serverVars
  PROVE  Handling'
<1>a. got' = got /\ req' = req
  BY ClientSettles DEF serverVars
<1>b. req.method \in MethodSet /\ ver \in Nat
  BY DEF TypeOK, ClientTypeOK, Request
<1> USE <1>a, <1>b DEF Handling, Pictures, Images
<1>1. CASE NotStarted
  BY <1>1 DEF NotStarted
<1>2. CASE Connect
  BY <1>2 DEF Connect, GoTo
<1>3. CASE Finish
  BY <1>3 DEF Finish, GoTo, Return, Fail, FailSilently, linkVars, Arrived, Delivered
<1>4. CASE SendVersion
  BY <1>4 DEF SendVersion, GoTo, Return, Fail, FailSilently, linkVars, Arrived, Delivered
<1>5. CASE ReadStatus
  BY <1>5 DEF ReadStatus, GoTo, Return, Fail, FailSilently, linkVars, Arrived, Delivered
<1>6. CASE ReadOffer
  BY <1>6 DEF ReadOffer, GoTo, Return, Fail, FailSilently, linkVars, Arrived, Delivered
<1>7. CASE AcceptOffer
  BY <1>7 DEF AcceptOffer, GoTo, Return, Fail, FailSilently, linkVars, Arrived, Delivered
<1>8. CASE SendMethod
  BY <1>8 DEF SendMethod, GoTo, Return, Fail, FailSilently, linkVars, Arrived, Delivered
<1>9. CASE ReadMethodStatus
  BY <1>9 DEF ReadMethodStatus, GoTo, Return, Fail, HandlerOf, MethodSet, Sends
<1>10. CASE GetText
  BY <1>10 DEF GetText, GoTo, Return, Fail, FailSilently, linkVars, Arrived, Delivered
<1>11. CASE AckText
  BY <1>11 DEF AckText, GoTo, Return, Fail, FailSilently, linkVars, Arrived, Delivered
<1>12. CASE CloseText
  BY <1>12 DEF CloseText, GoTo, Return, Fail, FailSilently, linkVars, Arrived, Delivered
<1>13. CASE StoreText
  BY <1>13 DEF StoreText, GoTo, Return, Fail, FailSilently, linkVars, Arrived, Delivered
<1>14. CASE SendText
  BY <1>14 DEF SendText, GoTo, Return, Fail, FailSilently, linkVars, Arrived, Delivered
<1>15. CASE ReadTextAck
  BY <1>15 DEF ReadTextAck, GoTo, Return, Fail, FailSilently, linkVars, Arrived, Delivered
<1>16. CASE CloseSentText
  BY <1>16 DEF CloseSentText, GoTo, Return, Fail, FailSilently, linkVars, Arrived, Delivered
<1>17. CASE SendCount
  BY <1>17 DEF SendCount, GoTo, Return, Fail, FailSilently, linkVars, Arrived, Delivered
<1>18. CASE SendFile
  BY <1>18 DEF SendFile, GoTo, Return, Fail, FailSilently, linkVars, Arrived, Delivered
<1>19. CASE FilesSent
  BY <1>19 DEF FilesSent, GoTo, Return, Fail, FailSilently, linkVars, Arrived, Delivered
<1>20. CASE ReadFilesAck
  BY <1>20 DEF ReadFilesAck, GoTo, Return, Fail, FailSilently, linkVars, Arrived, Delivered
<1>21. CASE CloseSentFiles
  BY <1>21 DEF CloseSentFiles, GoTo, Return, Fail, FailSilently, linkVars, Arrived, Delivered
<1>22. CASE GetCount
  BY <1>22 DEF GetCount, GoTo, Return, Fail, FailSilently, linkVars, Arrived, Delivered
<1>23. CASE GetName
  BY <1>23 DEF GetName, GoTo, Return, Fail, FailSilently, linkVars, Arrived, Delivered
<1>24. CASE GetBody
  BY <1>24 DEF GetBody, GoTo, Return, Fail, FailSilently, linkVars, Arrived, Delivered
<1>25. CASE Place
  BY <1>25 DEF Place, GoTo, Return, Fail, FailSilently, Received, Arrived, Delivered, Sends
<1>26. CASE AckReceived
  BY <1>26 DEF AckReceived, GoTo, Return, Fail, FailSilently, linkVars, Arrived, Delivered
<1>27. CASE CloseReceived
  BY <1>27 DEF CloseReceived, Received, FailSilently, Arrived, Delivered
<1>28. CASE CutReceived
  BY <1>28 DEF CutReceived, GoTo, Return, Fail, FailSilently, linkVars, Arrived, Delivered
<1>29. CASE SendDisplay
  BY <1>29 DEF SendDisplay, GoTo, Return, Fail, FailSilently, linkVars, Arrived, Delivered
<1>30. CASE ReadDisplayStatus
  BY <1>30 DEF ReadDisplayStatus, GoTo, Return, Fail, FailSilently, linkVars, Arrived, Delivered
<1>31. CASE GetImage
  BY <1>31 DEF GetImage, GoTo, Return, Fail, Received, FailSilently, Arrived, Delivered, Sends
<1>32. CASE GetInfo
  BY <1>32 DEF GetInfo, GoTo, Return, Fail, FailSilently, linkVars, Arrived, Delivered
<1>33. CASE AckInfo
  BY <1>33 DEF AckInfo, GoTo, Return, Fail, FailSilently, linkVars, Arrived, Delivered
<1>34. CASE CloseInfo
  BY <1>34 DEF CloseInfo, GoTo, Return, Fail, FailSilently, linkVars, Arrived, Delivered
<1> QED
  BY <1>1, <1>2, <1>3, <1>4, <1>5, <1>6, <1>7, <1>8, <1>9, <1>10, <1>11, <1>12, <1>13,
     <1>14, <1>15, <1>16, <1>17, <1>18, <1>19, <1>20, <1>21, <1>22, <1>23, <1>24, <1>25,
     <1>26, <1>27, <1>28, <1>29, <1>30, <1>31, <1>32, <1>33, <1>34 DEF ClientNext

\* What the callback and the handlers may set, and where the data of an OK is.
LEMMA ReportedStep ==
  ASSUME TypeOK, Handling, Reported, Acknowledged, ClientNext, UNCHANGED serverVars
  PROVE  Reported'
<1>a. got' = got /\ req' = req
  BY ClientSettles DEF serverVars
<1>b. req.method \in MethodSet /\ ver \in Nat /\ left \in Nat
  BY DEF TypeOK, ClientTypeOK, Request
<1>c. \A code : FirstAnswer(code) \in {ans, code} /\ (ans # "none" => FirstAnswer(code) = ans)
  BY DEF FirstAnswer
<1> USE <1>a, <1>b, <1>c DEF Handling, Reported, Pictures, Images
<1>1. CASE NotStarted
  BY <1>1 DEF NotStarted, GoTo, Return, Fail, FailSilently, linkVars, Arrived, Delivered, Sends
<1>2. CASE Connect
  BY <1>2 DEF Connect, GoTo, Return, Fail, FailSilently, linkVars, Arrived, Delivered, Sends
<1>3. CASE Finish
  BY <1>3 DEF Finish, GoTo, Return, Fail, FailSilently, linkVars, Arrived, Delivered, Sends
<1>4. CASE SendVersion
  BY <1>4 DEF SendVersion, GoTo, Return, Fail, FailSilently, linkVars, Arrived, Delivered, Sends
<1>5. CASE ReadStatus
  BY <1>5 DEF ReadStatus, GoTo, Return, Fail, FailSilently, linkVars, Arrived, Delivered, Sends
<1>6. CASE ReadOffer
  BY <1>6 DEF ReadOffer, GoTo, Return, Fail, FailSilently, linkVars, Arrived, Delivered, Sends
<1>7. CASE AcceptOffer
  BY <1>7 DEF AcceptOffer, GoTo, Return, Fail, FailSilently, linkVars, Arrived, Delivered, Sends
<1>8. CASE SendMethod
  BY <1>8 DEF SendMethod, GoTo, Return, Fail, FailSilently, linkVars, Arrived, Delivered, Sends
<1>9. CASE ReadMethodStatus
  BY <1>9 DEF ReadMethodStatus, GoTo, Return, Fail, FailSilently, linkVars, Arrived, Delivered, Sends
<1>10. CASE GetText
  BY <1>10 DEF GetText, GoTo, Return, Fail, FailSilently, linkVars, Arrived, Delivered, Sends
<1>11. CASE AckText
  BY <1>11 DEF AckText, GoTo, Return, Fail, FailSilently, linkVars, Arrived, Delivered, Sends
<1>12. CASE CloseText
  BY <1>12 DEF CloseText, GoTo, Return, Fail, FailSilently, linkVars, Arrived, Delivered, Sends
<1>13. CASE StoreText
  BY <1>13 DEF StoreText, GoTo, Return, Fail, FailSilently, linkVars, Arrived, Delivered, Sends
<1>14. CASE SendText
  BY <1>14 DEF SendText, GoTo, Return, Fail, FailSilently, linkVars, Arrived, Delivered, Sends
<1>15. CASE ReadTextAck
  <2>1. ans = "none" /\ pc' = "returned" /\ ret' = "SUCCESS" /\ UNCHANGED <<left, disk, clip, ver>>
    BY <1>15 DEF ReadTextAck
  <2>2. ans' = "OK" => got
    <3>1. CASE ClientReads("ack") /\ ans' = AckAnswer(Head(toCli).val = "ok") /\ Head(toCli).val = "ok"
      BY <3>1, ClientReadsEffect DEF Acknowledged, IsAck, TypeOK
    <3>2. CASE ans' = AckAnswer(FALSE)
      BY <2>1, <3>2 DEF AckAnswer, FirstAnswer
    <3> QED
      BY <1>15, <3>1, <3>2 DEF ReadTextAck
  <2>3. req.method = "SEND_TEXT" /\ (got => Arrived')
    BY <1>15 DEF ReadTextAck, Arrived, Delivered, Sends
  <2> QED
    BY <2>1, <2>2, <2>3
<1>16. CASE CloseSentText
  BY <1>16 DEF CloseSentText, GoTo, Return, Fail, FailSilently, linkVars, Arrived, Delivered, Sends
<1>17. CASE SendCount
  BY <1>17 DEF SendCount, GoTo, Return, Fail, FailSilently, linkVars, Arrived, Delivered, Sends
<1>18. CASE SendFile
  BY <1>18 DEF SendFile, GoTo, Return, Fail, FailSilently, linkVars, Arrived, Delivered, Sends
<1>19. CASE FilesSent
  <2>1. /\ pc' \in {"readFilesAck", "closeSentFiles"} /\ req.method = "SEND_FILE"
        /\ left = 0 /\ left' = left /\ ret' = ret /\ ret = "none"
    BY <1>19 DEF FilesSent, MoreToSend
  <2> QED
    BY <2>1
<1>20. CASE ReadFilesAck
  BY <1>20 DEF ReadFilesAck, GoTo, Return, Fail, FailSilently, linkVars, Arrived, Delivered, Sends
<1>21. CASE CloseSentFiles
  BY <1>21 DEF CloseSentFiles, GoTo, Return, Fail, FailSilently, linkVars, Arrived, Delivered, Sends
<1>22. CASE GetCount
  BY <1>22 DEF GetCount, GoTo, Return, Fail, FailSilently, linkVars, Arrived, Delivered, Sends
<1>23. CASE GetName
  BY <1>23 DEF GetName, GoTo, Return, Fail, FailSilently, linkVars, Arrived, Delivered, Sends
<1>24. CASE GetBody
  BY <1>24 DEF GetBody, GoTo, Return, Fail, FailSilently, linkVars, Arrived, Delivered, Sends
<1>25. CASE Place
  BY <1>25 DEF Place, Received, GoTo, Return, Fail, FailSilently, linkVars, Arrived, Delivered, Sends
<1>26. CASE AckReceived
  BY <1>26 DEF AckReceived, GoTo, Return, Fail, FailSilently, linkVars, Arrived, Delivered, Sends
<1>27. CASE CloseReceived
  BY <1>27 DEF CloseReceived, Received, GoTo, Return, Fail, FailSilently, linkVars, Arrived, Delivered, Sends
<1>28. CASE CutReceived
  BY <1>28 DEF CutReceived, GoTo, Return, Fail, FailSilently, linkVars, Arrived, Delivered, Sends
<1>29. CASE SendDisplay
  BY <1>29 DEF SendDisplay, GoTo, Return, Fail, FailSilently, linkVars, Arrived, Delivered, Sends
<1>30. CASE ReadDisplayStatus
  BY <1>30 DEF ReadDisplayStatus, GoTo, Return, Fail, FailSilently, linkVars, Arrived, Delivered, Sends
<1>31. CASE GetImage
  BY <1>31 DEF GetImage, Received, GoTo, Return, Fail, FailSilently, linkVars, Arrived, Delivered, Sends
<1>32. CASE GetInfo
  BY <1>32 DEF GetInfo, GoTo, Return, Fail, FailSilently, linkVars, Arrived, Delivered, Sends
<1>33. CASE AckInfo
  BY <1>33 DEF AckInfo, GoTo, Return, Fail, FailSilently, linkVars, Arrived, Delivered, Sends
<1>34. CASE CloseInfo
  BY <1>34 DEF CloseInfo, GoTo, Return, Fail, FailSilently, linkVars, Arrived, Delivered, Sends
<1> QED
  BY <1>1, <1>2, <1>3, <1>4, <1>5, <1>6, <1>7, <1>8, <1>9, <1>10, <1>11, <1>12, <1>13,
     <1>14, <1>15, <1>16, <1>17, <1>18, <1>19, <1>20, <1>21, <1>22, <1>23, <1>24, <1>25,
     <1>26, <1>27, <1>28, <1>29, <1>30, <1>31, <1>32, <1>33, <1>34 DEF ClientNext

-----------------------------------------------------------------------------
(* Acknowledgements *)

\* What the server acknowledges it has, and what it takes for an acknowledgement
\* is one.
LEMMA ServerAcks ==
  ASSUME TypeOK, ServerNext \/ ServerCrashes
  PROVE  /\ got => got'
         /\ \A m \in Fields(out') : IsAck(m) => m \in Fields(out) \/ got'
         /\ acked' => acked \/ (\E m \in Fields(toSrv) : m.kind = "ack")
<1>a. LinkTypeOK /\ out \in Seq(Message) /\ got \in BOOLEAN
  BY DEF TypeOK, ServerTypeOK
<1>b. Fields(<<>>) = {}
  BY FieldsOfEmpty
<1>c. \A m : Fields(<<m>>) = {m}
  BY DEF Fields
<1>d. \A m, n : Fields(<<m, n>>) = {m, n}
  BY DEF Fields
<1>e. \A val : /\ ~IsAck(Msg("mstatus", val)) /\ ~IsAck(Msg("dstatus", val)) /\ ~IsAck(Msg("status", val))
               /\ ~IsAck(Msg("text", val)) /\ ~IsAck(Msg("info", val)) /\ ~IsAck(Msg("name", val))
               /\ ~IsAck(Msg("body", val)) /\ ~IsAck(NumMsg("count", val)) /\ ~IsAck(NumMsg("offer", val))
  BY DEF Msg, NumMsg, IsAck
<1>1. CASE ServerWrites
  <2>1. Fields(Tail(out)) \subseteq Fields(out)
    BY <1>a, <1>1, FieldsOfTail DEF ServerWrites
  <2> QED
    BY <1>1, <2>1 DEF ServerWrites
<1>2. CASE ServerGivesUp
  BY <1>2 DEF ServerGivesUp
<1>3. CASE ServerCloses
  BY <1>3 DEF ServerCloses
<1>4. CASE ServerReadsVersion
  BY <1>4, <1>c, <1>d, <1>e DEF ServerReadsVersion, Reply
<1>5. CASE ServerReadsAnswer
  BY <1>5 DEF ServerReadsAnswer
<1>6. CASE ServerReadsMethod
  BY <1>6, <1>c, <1>d, <1>e DEF ServerReadsMethod, Reply
<1>7. CASE ServerSendsFile
  BY <1>7, <1>c, <1>d, <1>e DEF ServerSendsFile, Reply
<1>8. CASE ServerReadsDisplay
  BY <1>8, <1>c, <1>d, <1>e DEF ServerReadsDisplay, Reply
<1>9. CASE ServerReadsText
  BY <1>9 DEF ServerReadsText
<1>10. CASE ServerReadsCount
  BY <1>10 DEF ServerReadsCount
<1>11. CASE ServerReadsName
  BY <1>11 DEF ServerReadsName
<1>12. CASE ServerReadsBody
  BY <1>12 DEF ServerReadsBody
<1>13. CASE ServerReadsAck
  BY <1>13, <1>a, ServerReadsEffect DEF ServerReadsAck
<1>14. CASE ServerCrashes
  BY <1>14, <1>b DEF ServerCrashes
<1> QED
  BY <1>1, <1>2, <1>3, <1>4, <1>5, <1>6, <1>7, <1>8, <1>9, <1>10, <1>11, <1>12, <1>13,
     <1>14 DEF ServerNext

\* Once everything is kept, no step of the client changes what it has.
LEMMA KeptStays ==
  ASSUME TypeOK, Handling, Kept, ClientNext, UNCHANGED serverVars
  PROVE  Kept'
<1>a. pc \in {"closeReceived", "cutReceived", "returned", "done"} /\ req' = req /\ got' = got
  BY ClientSettles DEF Kept, serverVars
<1>b. CloseReceived \/ CutReceived \/ Finish
  BY <1>a DEF ClientNext, NotStarted, Connect, Finish, SendVersion, ReadStatus, ReadOffer,
         AcceptOffer, SendMethod, ReadMethodStatus, GetText, AckText, CloseText,
         StoreText, SendText, ReadTextAck, CloseSentText, SendCount, SendFile,
         FilesSent, ReadFilesAck, CloseSentFiles, GetCount, GetName, GetBody,
         Place, AckReceived, CloseReceived, CutReceived, SendDisplay,
         ReadDisplayStatus, GetImage, GetInfo, AckInfo, CloseInfo
<1>c. UNCHANGED <<left, clip, disk>> /\ pc' \in {"cutReceived", "returned", "done"}
  BY <1>b DEF CloseReceived, CutReceived, Finish, Received, FailSilently
<1> QED
  BY <1>a, <1>c DEF Kept, Arrived, Delivered

\* At this step of the client there is one action.
LEMMA StepOf ==
  ASSUME ClientNext
  PROVE  /\ pc = "ackReceived" => AckReceived
  BY DEF ClientNext, NotStarted, Connect, Finish, SendVersion, ReadStatus, ReadOffer,
         AcceptOffer, SendMethod, ReadMethodStatus, GetText, AckText, CloseText,
         StoreText, SendText, ReadTextAck, CloseSentText, SendCount, SendFile,
         FilesSent, ReadFilesAck, CloseSentFiles, GetCount, GetName, GetBody,
         Place, AckReceived, CloseReceived, CutReceived, SendDisplay,
         ReadDisplayStatus, GetImage, GetInfo, AckInfo, CloseInfo

\* An acknowledgement is written only after everything is kept, and stays true.
LEMMA AcknowledgedStep ==
  ASSUME TypeOK, Handling, Reported, Acknowledged, Next
  PROVE  Acknowledged'
<1>1. CASE ClientNext /\ UNCHANGED serverVars
  <2>1. req' = req /\ got' = got /\ acked' = acked /\ out' = out
    BY <1>1, ClientSettles DEF serverVars
  <2>2. \A m \in Fields(toCli') \cup Fields(out') : IsAck(m) => got'
    BY <1>1, <2>1, ClientStreams DEF Acknowledged
  <2>3. CASE acked \/ (\E m \in Fields(toSrv) : m.kind = "ack")
    <3>1. req.method \in {"GET_TEXT", "INFO"} \/ Kept
      BY <2>3 DEF Acknowledged
    <3>2. Kept => Kept'
      BY <1>1, <2>1, KeptStays
    <3> QED
      BY <2>1, <2>2, <3>1, <3>2 DEF Acknowledged
  <2>4. CASE ~acked /\ ~(\E m \in Fields(toSrv) : m.kind = "ack")
    <3> SUFFICES ASSUME NEW m \in Fields(toSrv'), m.kind = "ack", req.method \notin {"GET_TEXT", "INFO"}
                 PROVE  Kept'
      BY <2>1, <2>2, <2>4 DEF Acknowledged
    <3>1. pc \in {"ackText", "ackReceived", "ackInfo"}
      BY <1>1, <2>4, ClientStreams DEF ClientSays, NumMsg
    <3>2. pc = "ackReceived" /\ AckReceived
      BY <1>1, <3>1, StepOf DEF Handling
    <3> QED
      BY <2>1, <3>2 DEF AckReceived, Handling, Reported, Kept, Arrived, Delivered
  <2> QED
    BY <2>3, <2>4
<1>2. CASE (ServerNext \/ ServerCrashes) /\ UNCHANGED clientVars
  <2>1. /\ got => got'
        /\ \A m \in Fields(out') : IsAck(m) => m \in Fields(out) \/ got'
        /\ acked' => acked \/ (\E m \in Fields(toSrv) : m.kind = "ack")
    BY <1>2, ServerAcks
  <2>2. /\ Fields(toSrv') \subseteq Fields(toSrv)
        /\ \A m \in Fields(toCli') : IsAck(m) => m \in Fields(toCli) \cup Fields(out)
    BY <1>2, ServerStreams DEF ServerSays, IsAck
  <2>3. UNCHANGED <<req, pc, ver, left, clip, disk>>
    BY <1>2 DEF clientVars
  <2>4. Arrived => Arrived'
    BY <2>1, <2>3 DEF Arrived, Delivered
  <2>5. Kept => Kept'
    BY <2>3, <2>4 DEF Kept
  <2> QED
    BY <2>1, <2>2, <2>3, <2>5 DEF Acknowledged
<1>3. CASE UNCHANGED vars
  BY <1>3 DEF vars, linkVars, clientVars, serverVars, Acknowledged, Kept, Arrived, Delivered
<1> QED
  BY <1>1, <1>2, <1>3 DEF Next, Terminated

\* Every step of either program keeps the invariant.
LEMMA OutcomeStep ==
  ASSUME TypeOK, OutcomeInv, [Next]_vars
  PROVE  OutcomeInv'
<1> USE DEF OutcomeInv
<1>1. CASE ClientNext /\ UNCHANGED serverVars
  BY <1>1, HandlingStep, ReportedStep, AcknowledgedStep DEF Next
<1>2. CASE (ServerNext \/ ServerCrashes) /\ UNCHANGED clientVars
  <2>1. (got => got') /\ UNCHANGED <<req, pc, ver, left, ans, ret, clip, disk>>
    BY <1>2, ServerAcks DEF clientVars
  <2>2. Arrived => Arrived'
    BY <2>1 DEF Arrived, Delivered
  <2> QED
    BY <1>2, <2>1, <2>2, AcknowledgedStep DEF Next, Handling, Reported
<1>3. CASE UNCHANGED vars
  BY <1>3 DEF vars, linkVars, clientVars, serverVars, Handling, Reported, Acknowledged, Kept, Arrived, Delivered
<1> QED
  BY <1>1, <1>2, <1>3 DEF Next, Terminated

\* The invariant holds in every state.
LEMMA OutcomeAlways == Spec => []OutcomeInv
<1>1. Init => OutcomeInv
  BY FieldsOfEmpty DEF Init, LinkInit, ClientInit, ServerInit, OutcomeInv, Handling, Reported, Acknowledged
<1> QED
  BY <1>1, OutcomeStep, TypeCorrect, PTL DEF Spec

\* Whatever fails: a request that is answered with OK and failed has its data in
\* place, and with version 4 so has every request answered with OK but the one that
\* sends files, whose answer comes before the acknowledgement.
THEOREM OkIsTrue == Spec => []OkSurvivesFaults
<1>1. TypeOK /\ OutcomeInv => OkSurvivesFaults
  BY DEF TypeOK, ClientTypeOK, OutcomeInv, Reported, OkSurvivesFaults, Done
<1> QED
  BY <1>1, TypeCorrect, OutcomeAlways, PTL

\* Whatever fails: what the client acknowledged is in the working directory, and no
\* file of the transfer is left.
THEOREM AckIsTrue == Spec => []AckMeansPlaced
<1>1. OutcomeInv => AckMeansPlaced
  BY DEF OutcomeInv, Acknowledged, Kept, AckMeansPlaced
<1> QED
  BY <1>1, OutcomeAlways, PTL
=============================================================================
