---------------------------- MODULE FramingProofs ---------------------------
(***************************************************************************)
(* Both programs cut the byte streams into the same fields, whatever fails. *)
(* That a reader meets the field it expects is not inductive: what matters *)
(* is everything on its way, including the replies the server has not      *)
(* written yet.  The invariant says in which order fields follow each      *)
(* other on each stream, and whose turn it is: while something is on its   *)
(* way to the server it has answered what came before, and while nothing   *)
(* is, it waits for what the client is about to write.  The second half    *)
(* proves from it that SUCCESS means delivery when nothing fails, and the  *)
(* last part that a request then implements Exchange.                      *)
(***************************************************************************)
EXTENDS SessionProofs, FiniteSetTheorems, FunctionTheorems

\* Where the client has something to write, and where it may still read.
Talks == {"sendVersion", "acceptOffer", "sendMethod", "sendText", "sendCount", "sendFile", "sendDisplay"}
Awaits == DOMAIN ClientExpects
Listening == pc \in Awaits \cup Talks \cup {"start"}

\* The server reads no more.
Dead == spc \in {"linger", "closed"}

\* Everything on its way to the client, written or about to be.
Incoming == toCli \o out

FirstOf(q) == q[1]
LastOf(q)  == q[Len(q)]

\* Which field follows which on the stream to the server.
Follows == {<<"answer", "method">>, <<"count", "name">>, <<"name", "body">>, <<"body", "name">>}

Sequel(q) == \A k \in 1 .. Len(q) - 1 : <<q[k].kind, q[k + 1].kind>> \in Follows

SentInOrder ==
    /\ Sequel(toSrv)
    /\ toSrv # <<>> => /\ spc \in DOMAIN ServerExpects => FirstOf(toSrv).kind = ServerExpects[spc]
                       /\ spc = "sendFiles" => FirstOf(toSrv).kind = "ack"
    /\ \A m \in Fields(toSrv) : m.kind = "method" => m.val = req.method

\* The field after the status of a method.
FirstField == [GET_TEXT |-> "text", INFO |-> "info", GET_IMAGE |-> "body",
               GET_COPIED_IMAGE |-> "body", GET_FILE |-> "count"]

\* Field b may follow a on the stream to the client: after a status that lets it
\* read on, it is the one the client reads next.
Continues(method, a, b) ==
    /\ a.kind \in {"status", "mstatus", "dstatus", "count", "name", "body"}
    /\ a.kind = "status" => a.val \notin {"supported", "obsolete"} /\ b.kind = "offer"
    /\ a.kind = "mstatus" /\ a.val = "ok" =>
          method \in DOMAIN FirstField /\ b.kind = FirstField[method]
    /\ a.kind = "count" => b.kind = "name"
    /\ a.kind \in {"name", "dstatus"} => b.kind = "body"
    /\ a.kind = "body" => b.kind = "name"

Connected(method, q) == \A k \in 1 .. Len(q) - 1 : Continues(method, q[k], q[k + 1])

ReceivedInOrder ==
    Listening =>
       /\ Connected(req.method, Incoming)
       /\ Incoming # <<>> => \/ pc \in Awaits /\ FirstOf(Incoming).kind = ClientExpects[pc]
                             \/ pc = "sendFile" /\ FirstOf(Incoming).kind = "ack"

\* What the server does once it has granted the method.
Turn == CASE req.method = "SEND_TEXT" -> {"text"}
          [] req.method = "SEND_FILE" -> {IF ver = 1 THEN "name" ELSE "count"}
          [] req.method = "GET_SCREENSHOT" -> {"display"}
          [] req.method = "GET_FILE" -> {"sendFiles", "ack"}
          [] OTHER -> {"ack"}

\* Nothing is on its way to a server that reads: it waits for what the client is
\* about to write, or has answered.
ServersTurn ==
    /\ pc \in {"start", "sendVersion"} => spc = "version"
    /\ pc \in {"readOffer", "acceptOffer"} => spc = "answer"
    /\ pc = "sendMethod" => spc = "method"
    /\ pc = "sendText" => spc = "text"
    /\ pc = "sendCount" => spc = IF ver = 1 THEN "name" ELSE "count"
    /\ pc = "sendDisplay" => spc = "display"
    /\ pc = "sendFile" => spc = "name" /\ Incoming = <<>>
    /\ pc \in {"getText", "getInfo", "getImage", "ackText", "ackInfo"} => spc = "ack"
    /\ pc \in {"getCount", "getName", "getBody", "place", "ackReceived"} => spc \in {"ack", "sendFiles"}
    /\ pc \in Awaits /\ Incoming # <<>> =>
          LET val == FirstOf(Incoming).val
          IN  /\ pc = "readStatus" /\ val = "supported" => spc = "method"
              /\ pc = "readStatus" /\ val = "unknown" => spc = "answer"
              /\ pc = "readMethodStatus" /\ val = "ok" => spc \in Turn
              /\ pc = "readDisplayStatus" /\ val = "ok" => spc = "ack"

\* What the client waits for while the server has something to read.
ReplyTo == [version |-> "readStatus", answer |-> "readMethodStatus", method |-> "readMethodStatus",
            text |-> "readTextAck", count |-> "readFilesAck", name |-> "readFilesAck",
            body |-> "readFilesAck", display |-> "readDisplayStatus"]

\* Something is on its way to the server: the client has nothing to read before
\* the server has read it.
ClientsTurn ==
    /\ pc \notin {"start", "sendVersion", "acceptOffer", "sendText", "sendCount", "sendDisplay",
                  "place", "ackText", "ackReceived", "ackInfo"}
    /\ pc = "sendMethod" => Len(toSrv) = 1 /\ FirstOf(toSrv).kind = "answer"
    /\ pc = "sendFile" => LastOf(toSrv).kind \in {"count", "body"}
    /\ pc \in Awaits \ {"readFilesAck"} => Incoming = <<>>
    /\ ~Dead => /\ pc = "sendMethod" => spc = "answer"
                /\ pc = "sendFile" => spc \in {"count", "name", "body"} /\ Incoming = <<>>
                /\ pc \in Awaits => Incoming = <<>> /\ spc \in DOMAIN ReplyTo /\ pc = ReplyTo[spc]

\* The files the server is still going to send come after a count or a body.
Streaming ==
    spc = "sendFiles" /\ Listening =>
       /\ Incoming # <<>> => LastOf(Incoming).kind \in {"count", "body"}
       /\ Incoming = <<>> => pc = "getName"

Turns ==
    /\ pc = "start" => ~srvOpen
    /\ Listening /\ pc # "start" => cliOpen /\ (srvOpen \/ Dead)
    /\ pc \in {"acceptOffer", "sendMethod", "readMethodStatus", "sendCount"} => ver # 0
    /\ spc = "method" => sver # 0
    /\ toSrv = <<>> /\ ~Dead => ServersTurn
    /\ toSrv # <<>> => ClientsTurn
    /\ Streaming

FramingInv == SentInOrder /\ ReceivedInOrder /\ Turns

-----------------------------------------------------------------------------
(* Sequences of fields *)

\* The ends of a stream that loses its first field.
LEMMA EndsOfTail ==
  ASSUME NEW S, NEW q \in Seq(S), q # <<>>
  PROVE  /\ Tail(q) \in Seq(S) /\ Head(q) \in S /\ Head(q) = FirstOf(q)
         /\ Len(q) \in Nat \ {0} /\ Len(Tail(q)) = Len(q) - 1
         /\ Tail(q) # <<>> => Len(q) > 1 /\ FirstOf(Tail(q)) = q[2] /\ LastOf(Tail(q)) = LastOf(q)
         /\ \A i \in 1 .. Len(q) - 1 : Tail(q)[i] = q[i + 1]
<1>1. /\ Tail(q) \in Seq(S) /\ Head(q) \in S /\ Head(q) = q[1]
      /\ Len(q) \in Nat \ {0} /\ Len(Tail(q)) = Len(q) - 1
      /\ \A i \in 1 .. Len(Tail(q)) : Tail(q)[i] = q[i + 1]
  BY HeadTailProperties, LenProperties, EmptySeq
<1>2. Tail(q) # <<>> => Len(Tail(q)) # 0
  BY <1>1, EmptySeq
<1> QED
  BY <1>1, <1>2 DEF FirstOf, LastOf

\* The ends of a stream that gains a field.
LEMMA EndsOfAppend ==
  ASSUME NEW S, NEW q \in Seq(S), NEW m \in S
  PROVE  /\ Append(q, m) \in Seq(S) /\ Append(q, m) # <<>>
         /\ Len(q) \in Nat /\ Len(Append(q, m)) = Len(q) + 1 /\ LastOf(Append(q, m)) = m
         /\ FirstOf(Append(q, m)) = IF q = <<>> THEN m ELSE FirstOf(q)
         /\ q = <<>> <=> Len(q) = 0
         /\ \A i \in 1 .. Len(q) : Append(q, m)[i] = q[i]
<1>1. /\ Append(q, m) \in Seq(S) /\ Append(q, m) # <<>>
      /\ Len(Append(q, m)) = Len(q) + 1
      /\ \A i \in 1 .. Len(q) : Append(q, m)[i] = q[i]
      /\ Append(q, m)[Len(q) + 1] = m
      /\ Len(q) \in Nat
      /\ q = <<>> <=> Len(q) = 0
  BY AppendProperties, EmptySeq, LenProperties
<1> QED
  BY <1>1 DEF FirstOf, LastOf

\* Reading a field keeps the order of the rest.
LEMMA SequelOfTail ==
  ASSUME NEW q \in Seq(Message), q # <<>>, Sequel(q)
  PROVE  /\ Sequel(Tail(q))
         /\ Tail(q) # <<>> => <<FirstOf(q).kind, FirstOf(Tail(q)).kind>> \in Follows
<1> HIDE DEF Follows, Message
<1> USE EndsOfTail DEF Sequel
<1>1. Sequel(Tail(q))
  <2> SUFFICES ASSUME NEW k \in 1 .. Len(Tail(q)) - 1
               PROVE  <<Tail(q)[k].kind, Tail(q)[k + 1].kind>> \in Follows
    BY DEF Sequel
  <2>1. Tail(q)[k] = q[k + 1] /\ Tail(q)[k + 1] = q[k + 2] /\ k + 1 \in 1 .. Len(q) - 1
    OBVIOUS
  <2>2. <<q[k + 1].kind, q[(k + 1) + 1].kind>> \in Follows
    BY <2>1
  <2> QED
    BY <2>1, <2>2
<1>2. Tail(q) # <<>> => <<q[1].kind, q[1 + 1].kind>> \in Follows
  OBVIOUS
<1> QED
  BY <1>1, <1>2 DEF FirstOf

\* Writing the right field keeps the order.
LEMMA SequelOfAppend ==
  ASSUME NEW q \in Seq(Message), NEW m \in Message, Sequel(q),
         q # <<>> => <<LastOf(q).kind, m.kind>> \in Follows
  PROVE  Sequel(Append(q, m))
<1> HIDE DEF Follows, Message
<1> DEFINE a == Append(q, m)
<1>1. /\ Len(q) \in Nat /\ Len(a) = Len(q) + 1 /\ a[Len(q) + 1] = m
      /\ \A i \in 1 .. Len(q) : a[i] = q[i]
      /\ q # <<>> <=> Len(q) # 0
  BY EndsOfAppend DEF LastOf
<1> SUFFICES ASSUME NEW k \in 1 .. Len(a) - 1
             PROVE  <<a[k].kind, a[k + 1].kind>> \in Follows
  BY DEF Sequel
<1>2. CASE k < Len(q)
  BY <1>1, <1>2 DEF Sequel
<1>3. CASE k = Len(q)
  BY <1>1, <1>3 DEF LastOf
<1>4. k < Len(q) \/ k = Len(q)
  BY <1>1
<1> QED
  BY <1>2, <1>3, <1>4

\* The same for the stream to the client, after a read ...
LEMMA ConnectedTail ==
  ASSUME NEW method, NEW q \in Seq(Message), q # <<>>, Connected(method, q)
  PROVE  /\ Connected(method, Tail(q))
         /\ Tail(q) # <<>> => Continues(method, FirstOf(q), FirstOf(Tail(q)))
<1> HIDE DEF Continues, Message
<1> USE EndsOfTail DEF Connected
<1>1. Connected(method, Tail(q))
  <2> SUFFICES ASSUME NEW k \in 1 .. Len(Tail(q)) - 1
               PROVE  Continues(method, Tail(q)[k], Tail(q)[k + 1])
    BY DEF Connected
  <2>1. Tail(q)[k] = q[k + 1] /\ Tail(q)[k + 1] = q[k + 2] /\ k + 1 \in 1 .. Len(q) - 1
    OBVIOUS
  <2>2. Continues(method, q[k + 1], q[(k + 1) + 1])
    BY <2>1
  <2> QED
    BY <2>1, <2>2
<1>2. Tail(q) # <<>> => Continues(method, q[1], q[1 + 1])
  OBVIOUS
<1> QED
  BY <1>1, <1>2 DEF FirstOf

\* ... and after a write.
LEMMA ConnectedAppend ==
  ASSUME NEW method, NEW q \in Seq(Message), NEW m \in Message, Connected(method, q),
         q # <<>> => Continues(method, LastOf(q), m)
  PROVE  Connected(method, Append(q, m))
<1> HIDE DEF Continues, Message
<1> DEFINE a == Append(q, m)
<1>1. /\ Len(q) \in Nat /\ Len(a) = Len(q) + 1 /\ a[Len(q) + 1] = m
      /\ \A i \in 1 .. Len(q) : a[i] = q[i]
      /\ q # <<>> <=> Len(q) # 0
  BY EndsOfAppend DEF LastOf
<1> SUFFICES ASSUME NEW k \in 1 .. Len(a) - 1
             PROVE  Continues(method, a[k], a[k + 1])
  BY DEF Connected
<1>2. CASE k < Len(q)
  BY <1>1, <1>2 DEF Connected
<1>3. CASE k = Len(q)
  BY <1>1, <1>3 DEF LastOf
<1>4. k < Len(q) \/ k = Len(q)
  BY <1>1
<1> QED
  BY <1>2, <1>3, <1>4

-----------------------------------------------------------------------------
(* What is on its way to the client *)

\* Reading a field takes the first one of everything on its way.
LEMMA AfterRead ==
  ASSUME NEW q \in Seq(Message), NEW r \in Seq(Message), q # <<>>
  PROVE  /\ q \o r \in Seq(Message) /\ q \o r # <<>> /\ FirstOf(q \o r) = Head(q)
         /\ Tail(q) \o r = Tail(q \o r)
<1> HIDE DEF Message
<1> DEFINE s == q \o r
           t == Tail(q) \o r
<1>1. /\ Tail(q) \in Seq(Message) /\ Head(q) = q[1] /\ Len(q) \in Nat \ {0} /\ Len(Tail(q)) = Len(q) - 1
      /\ \A i \in 1 .. Len(q) - 1 : Tail(q)[i] = q[i + 1]
      /\ Len(r) \in Nat
  BY EndsOfTail, LenProperties DEF FirstOf
<1>2. /\ s \in Seq(Message) /\ Len(s) = Len(q) + Len(r)
      /\ \A i \in 1 .. Len(q) + Len(r) : s[i] = IF i <= Len(q) THEN q[i] ELSE r[i - Len(q)]
  BY ConcatProperties
<1>3. /\ t \in Seq(Message) /\ Len(t) = Len(q) - 1 + Len(r)
      /\ \A i \in 1 .. Len(q) - 1 + Len(r) : t[i] = IF i <= Len(q) - 1 THEN Tail(q)[i] ELSE r[i - (Len(q) - 1)]
  BY <1>1, ConcatProperties
<1> HIDE DEF s, t
<1>4. s # <<>> /\ s[1] = q[1]
  BY <1>1, <1>2, EmptySeq
<1>5. /\ Tail(s) \in Seq(Message) /\ Len(Tail(s)) = Len(s) - 1
      /\ \A i \in 1 .. Len(s) - 1 : Tail(s)[i] = s[i + 1]
  BY <1>2, <1>4, EndsOfTail
<1>6. Len(t) = Len(Tail(s))
  BY <1>1, <1>2, <1>3, <1>5
<1>7. ASSUME NEW i \in 1 .. Len(t) PROVE t[i] = Tail(s)[i]
  <2>0. i \in 1 .. Len(q) - 1 + Len(r)
    BY <1>3
  <2>1. CASE i <= Len(q) - 1
    <3>1. t[i] = Tail(q)[i] /\ i \in 1 .. Len(q) - 1
      BY <1>1, <1>3, <2>0, <2>1
    <3>2. Tail(s)[i] = s[i + 1] /\ i + 1 \in 1 .. Len(q) + Len(r) /\ i + 1 <= Len(q)
      BY <1>1, <1>2, <1>5, <3>1
    <3>3. s[i + 1] = q[i + 1] /\ Tail(q)[i] = q[i + 1]
      BY <1>1, <1>2, <3>1, <3>2
    <3> QED
      BY <3>1, <3>2, <3>3
  <2>2. CASE i > Len(q) - 1
    <3>1. t[i] = r[i - (Len(q) - 1)] /\ Tail(s)[i] = s[i + 1] /\ i + 1 \in 1 .. Len(q) + Len(r) /\ i + 1 > Len(q)
      BY <1>1, <1>2, <1>3, <1>5, <1>6, <2>2
    <3>2. s[i + 1] = r[(i + 1) - Len(q)] /\ (i + 1) - Len(q) = i - (Len(q) - 1)
      BY <1>1, <1>2, <3>1
    <3> QED
      BY <3>1, <3>2
  <2>3. i <= Len(q) - 1 \/ i > Len(q) - 1
    BY <1>1, <2>0
  <2> QED
    BY <2>1, <2>2, <2>3
<1>8. t = Tail(s)
  BY <1>3, <1>5, <1>6, <1>7, SeqEqual
<1> QED
  BY <1>1, <1>2, <1>4, <1>8 DEF s, t, FirstOf

\* A reply goes to the end of what is on its way.
LEMMA AfterReply ==
  ASSUME NEW q \in Seq(Message), NEW m \in Message, NEW n \in Message
  PROVE  /\ q \o <<>> = q
         /\ q \o <<m>> = Append(q, m)
         /\ q \o <<m, n>> = Append(Append(q, m), n)
<1> HIDE DEF Message
<1>1. Append(q, m) \in Seq(Message) /\ <<m>> \in Seq(Message) /\ <<n>> \in Seq(Message)
  BY AppendProperties
<1>2. <<m>> \o <<n>> = <<m, n>>
  <2>1. <<m, n>> \in Seq(Message)
    OBVIOUS
  <2>2. /\ <<m>> \o <<n>> \in Seq(Message) /\ Len(<<m>> \o <<n>>) = 2
        /\ (<<m>> \o <<n>>)[1] = m /\ (<<m>> \o <<n>>)[2] = n
    BY <1>1, ConcatProperties
  <2>3. \A i \in 1 .. 2 : (<<m>> \o <<n>>)[i] = <<m, n>>[i]
    BY <2>2
  <2> QED
    BY <2>1, <2>2, <2>3, SeqEqual
<1>3. (q \o <<m>>) \o <<n>> = q \o (<<m>> \o <<n>>)
  BY <1>1, ConcatAssociative
<1> QED
  BY <1>1, <1>2, <1>3, ConcatEmptySeq, AppendIsConcat

\* A field and what the server may write instead of it.
Alike(m, n) ==
    /\ n.kind = m.kind
    /\ m.kind \in {"status", "mstatus", "dstatus"} => n.val \in {m.val, "garbage"}

\* What the server writes is like what it was about to write.
LEMMA GarbledAlike ==
  ASSUME NEW m, NEW n \in {m} \cup Garbled(m)
  PROVE  Alike(m, n)
  BY DEF Garbled, Alike, Msg, NumMsg

\* Writing a field, garbled or not, keeps the order of what is on its way.
LEMMA AfterWrite ==
  ASSUME NEW q \in Seq(Message), NEW r \in Seq(Message), r # <<>>, NEW n \in Message,
         Alike(Head(r), n), NEW method, Connected(method, q \o r)
  PROVE  LET s == q \o r
             t == Append(q, n) \o Tail(r)
         IN  /\ t \in Seq(Message) /\ s # <<>> /\ t # <<>>
             /\ Connected(method, t)
             /\ Alike(FirstOf(s), FirstOf(t)) /\ LastOf(t).kind = LastOf(s).kind
<1> HIDE DEF Message
<1> DEFINE s == q \o r
           t == Append(q, n) \o Tail(r)
<1>1. /\ Tail(r) \in Seq(Message) /\ Head(r) = r[1] /\ Len(r) \in Nat \ {0} /\ Len(Tail(r)) = Len(r) - 1
      /\ \A i \in 1 .. Len(r) - 1 : Tail(r)[i] = r[i + 1]
      /\ Len(q) \in Nat
  BY EndsOfTail, LenProperties DEF FirstOf
<1>2. /\ Append(q, n) \in Seq(Message) /\ Len(Append(q, n)) = Len(q) + 1
      /\ Append(q, n)[Len(q) + 1] = n /\ \A i \in 1 .. Len(q) : Append(q, n)[i] = q[i]
  BY AppendProperties
<1>3. /\ s \in Seq(Message) /\ Len(s) = Len(q) + Len(r)
      /\ \A i \in 1 .. Len(q) + Len(r) : s[i] = IF i <= Len(q) THEN q[i] ELSE r[i - Len(q)]
  BY ConcatProperties
<1>4. /\ t \in Seq(Message) /\ Len(t) = Len(q) + 1 + (Len(r) - 1)
      /\ \A i \in 1 .. Len(q) + 1 + (Len(r) - 1) :
            t[i] = IF i <= Len(q) + 1 THEN Append(q, n)[i] ELSE Tail(r)[i - (Len(q) + 1)]
  BY <1>1, <1>2, ConcatProperties
<1> HIDE DEF s, t
<1>5. Len(t) = Len(s) /\ Len(s) \in Nat \ {0}
  BY <1>1, <1>3, <1>4
<1>6. ASSUME NEW i \in 1 .. Len(s) PROVE Alike(s[i], t[i])
  <2>1. CASE i <= Len(q)
    <3>1. i \in 1 .. Len(q) + Len(r) /\ i \in 1 .. Len(q) + 1 + (Len(r) - 1)
      BY <1>1, <1>3
    <3>2. s[i] = q[i] /\ t[i] = Append(q, n)[i]
      BY <1>1, <1>3, <1>4, <2>1, <3>1
    <3>3. Append(q, n)[i] = q[i]
      BY <1>1, <1>2, <2>1, <3>1
    <3> QED
      BY <3>2, <3>3 DEF Alike
  <2>2. CASE i = Len(q) + 1
    <3>1. i \in 1 .. Len(q) + Len(r) /\ i \in 1 .. Len(q) + 1 + (Len(r) - 1) /\ i - Len(q) = 1
      BY <1>1, <1>3, <2>2
    <3>2. s[i] = r[i - Len(q)]
      BY <1>1, <1>3, <2>2, <3>1
    <3>3. t[i] = Append(q, n)[i]
      BY <1>1, <1>4, <2>2, <3>1
    <3> QED
      BY <1>1, <1>2, <2>2, <3>1, <3>2, <3>3
  <2>3. CASE i > Len(q) + 1
    <3>1. /\ t[i] = Tail(r)[i - (Len(q) + 1)] /\ s[i] = r[i - Len(q)]
          /\ i - (Len(q) + 1) \in 1 .. Len(r) - 1 /\ (i - (Len(q) + 1)) + 1 = i - Len(q)
      BY <1>1, <1>3, <1>4, <2>3
    <3>2. t[i] = s[i]
      BY <1>1, <3>1
    <3> QED
      BY <3>2 DEF Alike
  <2> QED
    BY <1>1, <1>3, <2>1, <2>2, <2>3
<1>7. \A a, b, c, d : Continues(method, a, b) /\ Alike(a, c) /\ Alike(b, d) => Continues(method, c, d)
  BY DEF Continues, Alike
<1>8. Connected(method, s) => Connected(method, t)
  <2> SUFFICES ASSUME Connected(method, s), NEW k \in 1 .. Len(t) - 1
               PROVE  Continues(method, t[k], t[k + 1])
    BY DEF Connected
  <2>1. Continues(method, s[k], s[k + 1]) /\ k \in 1 .. Len(s) /\ k + 1 \in 1 .. Len(s)
    BY <1>5 DEF Connected
  <2> QED
    BY <1>6, <1>7, <2>1
<1>9. Alike(s[1], t[1]) /\ Alike(s[Len(s)], t[Len(t)])
  BY <1>5, <1>6
<1>10. s # <<>> /\ t # <<>>
  BY <1>5, EmptySeq
<1> QED
  BY <1>4, <1>8, <1>9, <1>10 DEF s, t, FirstOf, LastOf, Alike

-----------------------------------------------------------------------------
(* The client keeps in step *)

\* Steps at which the client has nothing more to read, write or acknowledge.
Quiet == {"closeText", "storeText", "closeSentText", "closeSentFiles", "closeReceived",
          "cutReceived", "closeInfo", "returned", "done"}

\* The tables of the fields, row by row.
LEMMA ClientTables ==
  /\ Awaits = {"readStatus", "readOffer", "readMethodStatus", "getText", "readTextAck",
               "readFilesAck", "getCount", "getName", "getBody", "readDisplayStatus",
               "getImage", "getInfo"}
  /\ ClientExpects["readStatus"] = "status" /\ ClientExpects["readOffer"] = "offer"
  /\ ClientExpects["readMethodStatus"] = "mstatus" /\ ClientExpects["getText"] = "text"
  /\ ClientExpects["readTextAck"] = "ack" /\ ClientExpects["readFilesAck"] = "ack"
  /\ ClientExpects["getCount"] = "count" /\ ClientExpects["getName"] = "name"
  /\ ClientExpects["getBody"] = "body" /\ ClientExpects["readDisplayStatus"] = "dstatus"
  /\ ClientExpects["getImage"] = "body" /\ ClientExpects["getInfo"] = "info"
  BY DEF Awaits, ClientExpects

\* The same for the server.
LEMMA ServerTables ==
  /\ DOMAIN ServerExpects = {"version", "answer", "method", "text", "count", "name", "body",
                             "display", "ack"}
  /\ \A step \in DOMAIN ServerExpects : ServerExpects[step] = step
  /\ DOMAIN ReplyTo = DOMAIN ServerExpects \ {"ack"}
  /\ ReplyTo["version"] = "readStatus" /\ ReplyTo["answer"] = "readMethodStatus"
  /\ ReplyTo["method"] = "readMethodStatus" /\ ReplyTo["text"] = "readTextAck"
  /\ ReplyTo["count"] = "readFilesAck" /\ ReplyTo["name"] = "readFilesAck"
  /\ ReplyTo["body"] = "readFilesAck" /\ ReplyTo["display"] = "readDisplayStatus"
  BY DEF ServerExpects, ReplyTo

\* The same for the methods.
LEMMA FirstFields ==
  /\ DOMAIN FirstField = {"GET_TEXT", "INFO", "GET_IMAGE", "GET_COPIED_IMAGE", "GET_FILE"}
  /\ FirstField["GET_TEXT"] = "text" /\ FirstField["INFO"] = "info"
  /\ FirstField["GET_IMAGE"] = "body" /\ FirstField["GET_COPIED_IMAGE"] = "body"
  /\ FirstField["GET_FILE"] = "count"
  BY DEF FirstField

\* A client that has nothing more to read or write has nothing to be out of step with.
LEMMA QuietStep ==
  ASSUME SentInOrder', pc' \in Quiet, spc' = "method" => sver' # 0
  PROVE  FramingInv'
<1>1. ~Listening' /\ pc' \notin Awaits
  BY ClientTables DEF Quiet, Listening, Talks
<1> QED
  BY <1>1 DEF FramingInv, ReceivedInOrder, Turns, ServersTurn, ClientsTurn, Streaming, Quiet

\* The client writes nothing, and nothing of what follows matters to it.
LEMMA ClientLeaves ==
  ASSUME FramingInv, UNCHANGED <<serverVars, toSrv, req>>, pc' \in Quiet
  PROVE  FramingInv'
  BY QuietStep DEF FramingInv, SentInOrder, Turns, serverVars

\* The ends of a stream after one write.
LEMMA OneWritten ==
  ASSUME NEW q \in Seq(Message), NEW m \in Message, NEW s, s = Append(q, m)
  PROVE  /\ s # <<>> /\ LastOf(s) = m
         /\ FirstOf(s) = IF q = <<>> THEN m ELSE FirstOf(q)
         /\ q = <<>> => Len(s) = 1
<1>1. /\ s # <<>> /\ LastOf(s) = m /\ FirstOf(s) = IF q = <<>> THEN m ELSE FirstOf(q)
      /\ Len(s) = Len(q) + 1 /\ (q = <<>> => Len(q) = 0)
  BY EndsOfAppend
<1> QED
  BY <1>1

\* The field the server waits for keeps the stream to it in order.
LEMMA SentAfterWrite ==
  ASSUME TypeOK, SentInOrder, UNCHANGED <<spc, req>>, NEW m \in Message,
         toSrv' \in {toSrv, Append(toSrv, m)},
         toSrv = <<>> => /\ spc \in DOMAIN ServerExpects => m.kind = ServerExpects[spc]
                         /\ spc = "sendFiles" => m.kind = "ack",
         toSrv # <<>> => <<LastOf(toSrv).kind, m.kind>> \in Follows,
         m.kind = "method" => m.val = req.method
  PROVE  SentInOrder'
<1>1. CASE toSrv' = toSrv
  BY <1>1 DEF SentInOrder
<1>2. CASE toSrv' = Append(toSrv, m)
  <2>1. toSrv \in Seq(Message)
    BY DEF TypeOK, LinkTypeOK
  <2>2. Fields(toSrv') = Fields(toSrv) \cup {m}
    BY <1>2, <2>1, FieldsOfAppend
  <2>3. Sequel(toSrv') /\ FirstOf(toSrv') = (IF toSrv = <<>> THEN m ELSE FirstOf(toSrv))
    BY <1>2, <2>1, SequelOfAppend, EndsOfAppend DEF SentInOrder
  <2> QED
    BY <2>2, <2>3 DEF SentInOrder
<1> QED
  BY <1>1, <1>2

\* What the client knows when it has read a field.
LEMMA ClientReadsOn ==
  ASSUME TypeOK, FramingInv, UNCHANGED <<serverVars, toSrv, req>>,
         pc \in Awaits \ {"readFilesAck"}, toCli # <<>>, toCli' = Tail(toCli)
  PROVE  /\ toSrv = <<>> /\ toSrv' = <<>>
         /\ Incoming # <<>> /\ Head(toCli) = FirstOf(Incoming)
         /\ Head(toCli).kind = ClientExpects[pc]
         /\ Connected(req.method, Incoming')
         /\ Incoming' # <<>> => /\ Continues(req.method, Head(toCli), FirstOf(Incoming'))
                                /\ LastOf(Incoming') = LastOf(Incoming)
         /\ Incoming' = <<>> => LastOf(Incoming) = FirstOf(Incoming)
<1>1. toCli \in Seq(Message) /\ out \in Seq(Message) /\ out' = out
  BY DEF TypeOK, LinkTypeOK, ServerTypeOK, serverVars
<1>2. /\ Incoming \in Seq(Message) /\ Incoming # <<>> /\ Head(toCli) = FirstOf(Incoming)
      /\ Incoming' = Tail(Incoming)
  BY <1>1, AfterRead DEF Incoming
<1>3. Listening /\ pc # "sendFile"
  BY ClientTables DEF Listening
<1>4. Connected(req.method, Incoming) /\ FirstOf(Incoming).kind = ClientExpects[pc]
  BY <1>2, <1>3 DEF FramingInv, ReceivedInOrder
<1>5. toSrv = <<>>
  BY <1>2 DEF FramingInv, Turns, ClientsTurn
<1>6. Incoming' = <<>> => LastOf(Incoming) = FirstOf(Incoming)
  <2> SUFFICES ASSUME Incoming' = <<>> PROVE Len(Incoming) = 1
    BY DEF FirstOf, LastOf
  <2>1. Len(Tail(Incoming)) = 0 /\ Len(Incoming) \in Nat
    BY <1>2, EmptySeq, LenProperties
  <2> QED
    BY <1>2, <2>1, EndsOfTail
<1> QED
  BY <1>2, <1>4, <1>5, <1>6, ConnectedTail, EndsOfTail

\* An empty stream is in order.
LEMMA SentNothing ==
  ASSUME toSrv' = <<>>
  PROVE  SentInOrder'
  BY FieldsOfEmpty DEF SentInOrder, Sequel

\* The table of the handlers, row by row.
LEMMA Handlers ==
  /\ HandlerOf["GET_TEXT"] = "getText" /\ HandlerOf["SEND_TEXT"] = "sendText"
  /\ HandlerOf["GET_FILE"] = "getCount" /\ HandlerOf["SEND_FILE"] = "sendCount"
  /\ HandlerOf["GET_IMAGE"] = "getImage" /\ HandlerOf["GET_COPIED_IMAGE"] = "getImage"
  /\ HandlerOf["GET_SCREENSHOT"] = "sendDisplay" /\ HandlerOf["INFO"] = "getInfo"
  /\ MethodSet = {"GET_TEXT", "SEND_TEXT", "GET_FILE", "SEND_FILE", "GET_IMAGE",
                  "GET_COPIED_IMAGE", "GET_SCREENSHOT", "INFO"}
  BY DEF HandlerOf, MethodSet, Sends

\* No step of the client gets the streams out of step.
LEMMA ClientInStep ==
  ASSUME TypeOK, NegotiationInv, FramingInv, ClientNext, UNCHANGED serverVars
  PROVE  FramingInv'
<1>a. /\ req.method \in MethodSet /\ ver \in Nat /\ req.max \in Nat \ {0} /\ req.min \in Nat \ {0}
  BY RequestsAssumption, VersionAssumption DEF TypeOK, ClientTypeOK, Request, NegotiationInv
<1>b. req' = req /\ TypeOK /\ FramingInv /\ UNCHANGED serverVars /\ UNCHANGED <<spc, sver, out>>
  BY ClientSettles DEF serverVars
<1>c. spc = "method" => sver # 0
  BY DEF FramingInv, Turns
<1>e. toSrv \in Seq(Message)
  BY DEF TypeOK, LinkTypeOK
<1>d. /\ srvOpen' = srvOpen \/ pc = "start"
  BY DEF ClientNext, NotStarted, Connect, Finish, SendVersion, ReadStatus, ReadOffer,
         AcceptOffer, SendMethod, ReadMethodStatus, GetText, AckText, CloseText,
         StoreText, SendText, ReadTextAck, CloseSentText, SendCount, SendFile,
         FilesSent, ReadFilesAck, CloseSentFiles, GetCount, GetName, GetBody,
         Place, AckReceived, CloseReceived, CutReceived, SendDisplay,
         ReadDisplayStatus, GetImage, GetInfo, AckInfo, CloseInfo, linkVars
<1>1. CASE NotStarted
  BY <1>1, <1>b, ClientLeaves DEF NotStarted, linkVars, Quiet
<1>2. CASE Connect
  <2>1. UNCHANGED <<toSrv, toCli, out, ver>> /\ pc' = "sendVersion" /\ cliOpen' /\ srvOpen' /\ pc = "start"
    BY <1>2, <1>b DEF Connect, GoTo
  <2>2. Incoming' = Incoming
    BY <2>1 DEF Incoming
  <2>3. ReceivedInOrder'
    BY <1>b, <2>1, <2>2, ClientTables DEF FramingInv, ReceivedInOrder, Listening, Talks
  <2>4. SentInOrder'
    BY <1>b, <2>1 DEF FramingInv, SentInOrder
  <2>5. Turns'
    BY <1>b, <2>1, <2>2, ClientTables DEF FramingInv, ReceivedInOrder, Turns, ServersTurn,
       ClientsTurn, Streaming, Listening, Talks, Dead
  <2> QED
    BY <2>3, <2>4, <2>5 DEF FramingInv
<1>3. CASE Finish
  BY <1>3, <1>b, ClientLeaves DEF Finish, Quiet
<1>4. CASE SendVersion
  <2>1. CASE pc' \in Quiet /\ toSrv' = toSrv
    BY <1>b, <2>1, ClientLeaves
  <2>2. CASE toSrv' = (IF srvOpen THEN Append(toSrv, NumMsg("version", req.max)) ELSE toSrv)
             /\ UNCHANGED <<toCli, cliOpen, srvOpen, ver>> /\ pc' = "readStatus"
    <3>1. toSrv = <<>> /\ (Dead \/ spc = "version") /\ (srvOpen \/ Dead) /\ Incoming = <<>>
      BY <1>4, <1>a, <1>b, ClientTables DEF SendVersion, FramingInv, Turns, ServersTurn,
         ClientsTurn, Dead, Talks, Listening, ReceivedInOrder
    <3>2. NumMsg("version", req.max) \in Message /\ NumMsg("version", req.max).kind = "version"
      BY <1>a, ClientMessages DEF Msg, NumMsg
    <3>3. SentInOrder'
      BY <1>4, <1>b, <2>2, <3>1, <3>2, SentAfterWrite, ServerTables DEF FramingInv, Dead,
         Follows, Msg
    <3>4. Incoming' = Incoming
      BY <1>b, <2>2 DEF Incoming
    <3>5. ReceivedInOrder'
      BY <1>4, <1>b, <2>2, <3>1, <3>4, ClientTables DEF SendVersion, FramingInv,
         ReceivedInOrder, Listening, Talks
    <3>6. \/ toSrv' = toSrv /\ ~srvOpen
          \/ /\ toSrv' # <<>> /\ LastOf(toSrv') = NumMsg("version", req.max)
             /\ FirstOf(toSrv') = (IF toSrv = <<>> THEN NumMsg("version", req.max) ELSE FirstOf(toSrv))
             /\ toSrv = <<>> => Len(toSrv') = 1
      <4>1. CASE srvOpen
        <5>1. \A m \in Message : toSrv' = Append(toSrv, m) =>
                 /\ toSrv' # <<>> /\ LastOf(toSrv') = m
                 /\ FirstOf(toSrv') = (IF toSrv = <<>> THEN m ELSE FirstOf(toSrv))
                 /\ toSrv = <<>> => Len(toSrv') = 1
          BY <1>e, OneWritten
        <5> QED
          BY <2>2, <3>2, <4>1, <5>1
      <4>2. CASE ~srvOpen
        BY <2>2, <4>2
      <4> QED
        BY <4>1, <4>2
    <3>7. Turns'
      BY <1>4, <1>a, <1>b, <1>c, <1>d, <1>e, <2>2, <3>1, <3>2, <3>4, <3>6, ClientTables,
         ServerTables
      DEF SendVersion, FramingInv, Turns, ServersTurn, ClientsTurn, Streaming, Listening, Talks, Dead
    <3> QED
      BY <3>3, <3>5, <3>7 DEF FramingInv
  <2> QED
    BY <1>4, <2>1, <2>2 DEF SendVersion, ClientWrites, GoTo, Return, Fail, ClientWriteFails,
       Quiet
<1>5. CASE ReadStatus
  <2>1. CASE pc' \in Quiet /\ toSrv' = toSrv
    BY <1>b, <2>1, ClientLeaves
  <2>2. CASE toCli # <<>> /\ toCli' = Tail(toCli) /\ toSrv' = toSrv /\ UNCHANGED cliOpen
                  /\ \/ Head(toCli).val = "supported" /\ pc' = "sendMethod" /\ ver' = req.max
                     \/ Head(toCli).val = "unknown" /\ pc' = "readOffer" /\ ver' = ver
    <3>1. pc \in Awaits \ {"readFilesAck"}
      BY <1>5, ClientTables DEF ReadStatus
    <3>2. /\ toSrv = <<>> /\ toSrv' = <<>> /\ Incoming # <<>> /\ Head(toCli) = FirstOf(Incoming)
          /\ Head(toCli).kind = ClientExpects[pc] /\ Connected(req.method, Incoming')
          /\ Incoming' # <<>> => /\ Continues(req.method, Head(toCli), FirstOf(Incoming'))
                                 /\ LastOf(Incoming') = LastOf(Incoming)
          /\ Incoming' = <<>> => LastOf(Incoming) = FirstOf(Incoming)
      BY <1>b, <2>2, <3>1, ClientReadsOn
    <3>3. ReceivedInOrder'
      BY <1>5, <1>b, <1>d, <2>2, <3>2, ClientTables DEF ReadStatus, ReceivedInOrder,
         Continues, Listening, Talks
    <3>4. Turns'
      BY <1>5, <1>a, <1>b, <1>c, <1>d, <2>2, <3>2, ClientTables DEF ReadStatus, FramingInv,
         Turns, ServersTurn, ClientsTurn, Streaming, Listening, Talks, Dead
    <3> QED
      BY <3>2, <3>3, <3>4, SentNothing DEF FramingInv
  <2> QED
    BY <1>5, <2>1, <2>2 DEF ReadStatus, GoTo, Return, Fail, ClientReads, ClientReadFails, Quiet
<1>6. CASE ReadOffer
  <2>1. CASE pc' \in Quiet /\ toSrv' = toSrv
    BY <1>b, <2>1, ClientLeaves
  <2>2. CASE toCli # <<>> /\ toCli' = Tail(toCli) /\ toSrv' = toSrv /\ UNCHANGED cliOpen /\ pc' = "acceptOffer" /\ ver' = Head(toCli).num /\ Acceptable(ver')
    <3>1. pc \in Awaits \ {"readFilesAck"}
      BY <1>6, ClientTables DEF ReadOffer
    <3>2. /\ toSrv = <<>> /\ toSrv' = <<>> /\ Incoming # <<>> /\ Head(toCli) = FirstOf(Incoming)
          /\ Head(toCli).kind = ClientExpects[pc] /\ Connected(req.method, Incoming')
          /\ Incoming' # <<>> => /\ Continues(req.method, Head(toCli), FirstOf(Incoming'))
                                 /\ LastOf(Incoming') = LastOf(Incoming)
          /\ Incoming' = <<>> => LastOf(Incoming) = FirstOf(Incoming)
      BY <1>b, <2>2, <3>1, ClientReadsOn
    <3>3. ReceivedInOrder'
      BY <1>6, <1>b, <1>d, <2>2, <3>2, ClientTables DEF ReadOffer, ReceivedInOrder, Continues,
         Listening, Talks
    <3>4. Turns'
      BY <1>6, <1>a, <1>b, <1>c, <1>d, <2>2, <3>2, ClientTables DEF ReadOffer, FramingInv,
         Turns, ServersTurn, ClientsTurn, Streaming, Listening, Talks, Dead, Acceptable
    <3> QED
      BY <3>2, <3>3, <3>4, SentNothing DEF FramingInv
  <2>3. CASE pc' \in Quiet /\ toSrv' \in {toSrv, Append(toSrv, NumMsg("answer", 0))} /\ toCli # <<>>
    <3>1. Incoming # <<>>
      BY <1>e, <2>3, AfterRead DEF Incoming, TypeOK, ServerTypeOK, LinkTypeOK
    <3>2. toSrv = <<>> /\ (Dead \/ spc = "answer")
      BY <1>6, <3>1, ClientTables DEF ReadOffer, FramingInv, Turns, ServersTurn, ClientsTurn
    <3>3. SentInOrder'
      BY <1>b, <2>3, <3>2, SentAfterWrite, ClientMessages, ServerTables DEF FramingInv, Dead,
         NumMsg
    <3> QED
      BY <1>b, <1>c, <2>3, <3>3, QuietStep
  <2> QED
    BY <1>6, <2>1, <2>2, <2>3 DEF ReadOffer, GoTo, Return, Fail, ClientReads, ClientReadFails,
       Quiet, Acceptable
<1>7. CASE AcceptOffer
  <2>1. CASE pc' \in Quiet /\ toSrv' = toSrv
    BY <1>b, <2>1, ClientLeaves
  <2>2. CASE toSrv' = (IF srvOpen THEN Append(toSrv, NumMsg("answer", ver)) ELSE toSrv)
             /\ UNCHANGED <<toCli, cliOpen, srvOpen, ver>> /\ pc' = "sendMethod"
    <3>1. toSrv = <<>> /\ (Dead \/ spc = "answer") /\ (srvOpen \/ Dead) /\ Incoming = <<>>
      BY <1>7, <1>a, <1>b, ClientTables DEF AcceptOffer, FramingInv, Turns, ServersTurn,
         ClientsTurn, Dead, Talks, Listening, ReceivedInOrder
    <3>2. NumMsg("answer", ver) \in Message /\ NumMsg("answer", ver).kind = "answer"
      BY <1>a, ClientMessages DEF Msg, NumMsg
    <3>3. SentInOrder'
      BY <1>7, <1>b, <2>2, <3>1, <3>2, SentAfterWrite, ServerTables DEF FramingInv, Dead,
         Follows, Msg
    <3>4. Incoming' = Incoming
      BY <1>b, <2>2 DEF Incoming
    <3>5. ReceivedInOrder'
      BY <1>7, <1>b, <2>2, <3>1, <3>4, ClientTables DEF AcceptOffer, FramingInv,
         ReceivedInOrder, Listening, Talks
    <3>6. \/ toSrv' = toSrv /\ ~srvOpen
          \/ /\ toSrv' # <<>> /\ LastOf(toSrv') = NumMsg("answer", ver)
             /\ FirstOf(toSrv') = (IF toSrv = <<>> THEN NumMsg("answer", ver) ELSE FirstOf(toSrv))
             /\ toSrv = <<>> => Len(toSrv') = 1
      <4>1. CASE srvOpen
        <5>1. \A m \in Message : toSrv' = Append(toSrv, m) =>
                 /\ toSrv' # <<>> /\ LastOf(toSrv') = m
                 /\ FirstOf(toSrv') = (IF toSrv = <<>> THEN m ELSE FirstOf(toSrv))
                 /\ toSrv = <<>> => Len(toSrv') = 1
          BY <1>e, OneWritten
        <5> QED
          BY <2>2, <3>2, <4>1, <5>1
      <4>2. CASE ~srvOpen
        BY <2>2, <4>2
      <4> QED
        BY <4>1, <4>2
    <3>7. Turns'
      BY <1>7, <1>a, <1>b, <1>c, <1>d, <1>e, <2>2, <3>1, <3>2, <3>4, <3>6, ClientTables,
         ServerTables
      DEF AcceptOffer, FramingInv, Turns, ServersTurn, ClientsTurn, Streaming, Listening, Talks, Dead
    <3> QED
      BY <3>3, <3>5, <3>7 DEF FramingInv
  <2> QED
    BY <1>7, <2>1, <2>2 DEF AcceptOffer, ClientWrites, GoTo, Return, Fail, ClientWriteFails,
       Quiet
<1>8. CASE SendMethod
  <2>1. CASE pc' \in Quiet /\ toSrv' = toSrv
    BY <1>b, <2>1, ClientLeaves
  <2>2. CASE toSrv' = (IF srvOpen THEN Append(toSrv, Msg("method", req.method)) ELSE toSrv)
             /\ UNCHANGED <<toCli, cliOpen, srvOpen, ver>> /\ pc' = "readMethodStatus"
    <3>1. /\ srvOpen \/ Dead
          /\ Incoming = <<>>
          /\ toSrv = <<>> => Dead \/ spc = "method"
          /\ toSrv # <<>> => LastOf(toSrv).kind = "answer" /\ (Dead \/ spc = "answer")
      BY <1>8, <1>a, <1>b, ClientTables DEF SendMethod, FramingInv, Turns, ServersTurn,
         ClientsTurn, Dead, Talks, Listening, ReceivedInOrder, FirstOf, LastOf
    <3>2. Msg("method", req.method) \in Message /\ Msg("method", req.method).kind = "method"
      BY <1>a, ClientMessages DEF Msg, NumMsg
    <3>3. SentInOrder'
      BY <1>8, <1>b, <2>2, <3>1, <3>2, SentAfterWrite, ServerTables DEF FramingInv, Dead,
         Follows, Msg
    <3>4. Incoming' = Incoming
      BY <1>b, <2>2 DEF Incoming
    <3>5. ReceivedInOrder'
      BY <1>8, <1>b, <2>2, <3>1, <3>4, ClientTables DEF SendMethod, FramingInv,
         ReceivedInOrder, Listening, Talks
    <3>6. \/ toSrv' = toSrv /\ ~srvOpen
          \/ /\ toSrv' # <<>> /\ LastOf(toSrv') = Msg("method", req.method)
             /\ FirstOf(toSrv') = (IF toSrv = <<>> THEN Msg("method", req.method) ELSE FirstOf(toSrv))
             /\ toSrv = <<>> => Len(toSrv') = 1
      <4>1. CASE srvOpen
        <5>1. \A m \in Message : toSrv' = Append(toSrv, m) =>
                 /\ toSrv' # <<>> /\ LastOf(toSrv') = m
                 /\ FirstOf(toSrv') = (IF toSrv = <<>> THEN m ELSE FirstOf(toSrv))
                 /\ toSrv = <<>> => Len(toSrv') = 1
          BY <1>e, OneWritten
        <5> QED
          BY <2>2, <3>2, <4>1, <5>1
      <4>2. CASE ~srvOpen
        BY <2>2, <4>2
      <4> QED
        BY <4>1, <4>2
    <3>7. Turns'
      BY <1>8, <1>a, <1>b, <1>c, <1>d, <1>e, <2>2, <3>1, <3>2, <3>4, <3>6, ClientTables,
         ServerTables
      DEF SendMethod, FramingInv, Turns, ServersTurn, ClientsTurn, Streaming, Listening, Talks, Dead
    <3> QED
      BY <3>3, <3>5, <3>7 DEF FramingInv
  <2> QED
    BY <1>8, <2>1, <2>2 DEF SendMethod, ClientWrites, GoTo, Return, Fail, FailSilently,
       ClientWriteFails, Quiet
<1>9. CASE ReadMethodStatus
  <2>1. CASE pc' \in Quiet /\ toSrv' = toSrv
    BY <1>b, <2>1, ClientLeaves
  <2>2. CASE toCli # <<>> /\ toCli' = Tail(toCli) /\ toSrv' = toSrv /\ UNCHANGED <<cliOpen, ver>>
                  /\ Head(toCli).val = "ok" /\ pc' = HandlerOf[req.method]
    <3>1. pc \in Awaits \ {"readFilesAck"}
      BY <1>9, ClientTables DEF ReadMethodStatus
    <3>2. /\ toSrv = <<>> /\ toSrv' = <<>> /\ Incoming # <<>> /\ Head(toCli) = FirstOf(Incoming)
          /\ Head(toCli).kind = ClientExpects[pc] /\ Connected(req.method, Incoming')
          /\ Incoming' # <<>> => /\ Continues(req.method, Head(toCli), FirstOf(Incoming'))
                                 /\ LastOf(Incoming') = LastOf(Incoming)
          /\ Incoming' = <<>> => LastOf(Incoming) = FirstOf(Incoming)
      BY <1>b, <2>2, <3>1, ClientReadsOn
    <3>3. ReceivedInOrder'
      BY <1>9, <1>b, <1>d, <2>2, <3>2, ClientTables, FirstFields, Handlers
         DEF ReadMethodStatus, ReceivedInOrder, Continues, Listening, Talks
    <3>4. Turns'
      BY <1>9, <1>a, <1>b, <1>c, <1>d, <2>2, <3>2, ClientTables, Handlers
         DEF ReadMethodStatus, FramingInv, Turns, ServersTurn, ClientsTurn, Streaming, Listening,
         Talks, Dead, Turn
    <3> QED
      BY <3>2, <3>3, <3>4, SentNothing DEF FramingInv
  <2> QED
    BY <1>9, <2>1, <2>2 DEF ReadMethodStatus, GoTo, Return, Fail, ClientReads,
       ClientReadFails, Quiet, Turn
<1>10. CASE GetText
  <2>1. CASE pc' \in Quiet /\ toSrv' = toSrv
    BY <1>b, <2>1, ClientLeaves
  <2>2. CASE toCli # <<>> /\ toCli' = Tail(toCli) /\ toSrv' = toSrv /\ UNCHANGED ver /\ pc' = "ackText"
    <3>1. pc \in Awaits \ {"readFilesAck"}
      BY <1>10, ClientTables DEF GetText
    <3>2. /\ toSrv = <<>> /\ toSrv' = <<>> /\ Incoming # <<>> /\ Head(toCli) = FirstOf(Incoming)
          /\ Head(toCli).kind = ClientExpects[pc] /\ Connected(req.method, Incoming')
          /\ Incoming' # <<>> => /\ Continues(req.method, Head(toCli), FirstOf(Incoming'))
                                 /\ LastOf(Incoming') = LastOf(Incoming)
          /\ Incoming' = <<>> => LastOf(Incoming) = FirstOf(Incoming)
      BY <1>b, <2>2, <3>1, ClientReadsOn
    <3>3. ReceivedInOrder'
      BY <1>10, <1>b, <1>d, <2>2, <3>2, ClientTables DEF GetText, ReceivedInOrder, Continues,
         Listening, Talks
    <3>4. Turns'
      BY <1>10, <1>a, <1>b, <1>c, <1>d, <2>2, <3>2, ClientTables DEF GetText, FramingInv,
         Turns, ServersTurn, ClientsTurn, Streaming, Listening, Talks, Dead
    <3> QED
      BY <3>2, <3>3, <3>4, SentNothing DEF FramingInv
  <2> QED
    BY <1>10, <2>1, <2>2 DEF GetText, GoTo, Return, Fail, ClientReads, ClientReadFails, Quiet
<1>11. CASE AckText
  <2>1. toSrv = <<>> /\ (Dead \/ spc \in {"ack"})
    BY <1>11 DEF AckText, FramingInv, Turns, ServersTurn, ClientsTurn
  <2>2. pc' \in Quiet /\ toSrv' \in {toSrv, Append(toSrv, Msg("ack", "ok"))}
    BY <1>11 DEF AckText, ClientWrites, ClientWriteFails, Quiet
  <2>3. SentInOrder'
    BY <1>b, <2>1, <2>2, SentAfterWrite, ClientMessages, ServerTables DEF FramingInv, Dead, Msg
  <2> QED
    BY <1>b, <1>c, <2>2, <2>3, QuietStep
<1>12. CASE CloseText
  BY <1>12, <1>b, ClientLeaves DEF CloseText, GoTo, Quiet
<1>13. CASE StoreText
  BY <1>13, <1>b, ClientLeaves DEF StoreText, Return, linkVars, Quiet
<1>14. CASE SendText
  <2>1. CASE pc' \in Quiet /\ toSrv' = toSrv
    BY <1>b, <2>1, ClientLeaves
  <2>2. CASE toSrv' = (IF srvOpen THEN Append(toSrv, Msg("text", "ok")) ELSE toSrv)
             /\ UNCHANGED <<toCli, cliOpen, srvOpen, ver>> /\ pc' \in {"readTextAck", "closeSentText"}
    <3>1. toSrv = <<>> /\ (Dead \/ spc = "text") /\ (srvOpen \/ Dead) /\ Incoming = <<>>
      BY <1>14, <1>a, <1>b, ClientTables DEF SendText, FramingInv, Turns, ServersTurn,
         ClientsTurn, Dead, Talks, Listening, ReceivedInOrder
    <3>2. Msg("text", "ok") \in Message /\ Msg("text", "ok").kind = "text"
      BY <1>a, ClientMessages DEF Msg, NumMsg
    <3>3. SentInOrder'
      BY <1>14, <1>b, <2>2, <3>1, <3>2, SentAfterWrite, ServerTables DEF FramingInv, Dead,
         Follows, Msg
    <3>4. Incoming' = Incoming
      BY <1>b, <2>2 DEF Incoming
    <3>5. ReceivedInOrder'
      BY <1>14, <1>b, <2>2, <3>1, <3>4, ClientTables DEF SendText, FramingInv,
         ReceivedInOrder, Listening, Talks
    <3>6. \/ toSrv' = toSrv /\ ~srvOpen
          \/ /\ toSrv' # <<>> /\ LastOf(toSrv') = Msg("text", "ok")
             /\ FirstOf(toSrv') = (IF toSrv = <<>> THEN Msg("text", "ok") ELSE FirstOf(toSrv))
             /\ toSrv = <<>> => Len(toSrv') = 1
      <4>1. CASE srvOpen
        <5>1. \A m \in Message : toSrv' = Append(toSrv, m) =>
                 /\ toSrv' # <<>> /\ LastOf(toSrv') = m
                 /\ FirstOf(toSrv') = (IF toSrv = <<>> THEN m ELSE FirstOf(toSrv))
                 /\ toSrv = <<>> => Len(toSrv') = 1
          BY <1>e, OneWritten
        <5> QED
          BY <2>2, <3>2, <4>1, <5>1
      <4>2. CASE ~srvOpen
        BY <2>2, <4>2
      <4> QED
        BY <4>1, <4>2
    <3>7. Turns'
      BY <1>14, <1>a, <1>b, <1>c, <1>d, <1>e, <2>2, <3>1, <3>2, <3>4, <3>6, ClientTables,
         ServerTables
      DEF SendText, FramingInv, Turns, ServersTurn, ClientsTurn, Streaming, Listening, Talks, Dead
    <3> QED
      BY <3>3, <3>5, <3>7 DEF FramingInv
  <2> QED
    BY <1>14, <2>1, <2>2 DEF SendText, ClientWrites, GoTo, Return, Fail, ClientWriteFails, Quiet
<1>15. CASE ReadTextAck
  BY <1>15, <1>b, ClientLeaves DEF ReadTextAck, ClientReads, ClientReadFails, Quiet
<1>16. CASE CloseSentText
  BY <1>16, <1>b, ClientLeaves DEF CloseSentText, Return, Quiet
<1>17. CASE SendCount
  <2>1. CASE pc' \in Quiet /\ toSrv' = toSrv
    BY <1>b, <2>1, ClientLeaves
  <2>2. CASE toSrv' = (IF srvOpen THEN Append(toSrv, NumMsg("count", left')) ELSE toSrv)
             /\ UNCHANGED <<toCli, cliOpen, srvOpen, ver>> /\ pc' = "sendFile" /\ ver > 1 /\ left' \in Nat
    <3>1. toSrv = <<>> /\ (Dead \/ spc = "count") /\ (srvOpen \/ Dead) /\ Incoming = <<>>
      BY <1>17, <1>a, <1>b, <2>2, ClientTables DEF SendCount, FramingInv, Turns, ServersTurn,
         ClientsTurn, Dead, Talks, Listening, SendsCount, ReceivedInOrder
    <3>2. NumMsg("count", left') \in Message /\ NumMsg("count", left').kind = "count"
      BY <2>2, ClientMessages DEF Msg, NumMsg
    <3>3. SentInOrder'
      BY <1>17, <1>b, <2>2, <3>1, <3>2, SentAfterWrite, ServerTables DEF FramingInv, Dead,
         Follows, Msg
    <3>4. Incoming' = Incoming
      BY <1>b, <2>2 DEF Incoming
    <3>5. ReceivedInOrder'
      BY <1>17, <1>b, <2>2, <3>1, <3>4, ClientTables DEF SendCount, FramingInv,
         ReceivedInOrder, Listening, Talks
    <3>6. \/ toSrv' = toSrv /\ ~srvOpen
          \/ /\ toSrv' # <<>> /\ LastOf(toSrv') = NumMsg("count", left')
             /\ FirstOf(toSrv') = (IF toSrv = <<>> THEN NumMsg("count", left') ELSE FirstOf(toSrv))
             /\ toSrv = <<>> => Len(toSrv') = 1
      <4>1. CASE srvOpen
        <5>1. \A m \in Message : toSrv' = Append(toSrv, m) =>
                 /\ toSrv' # <<>> /\ LastOf(toSrv') = m
                 /\ FirstOf(toSrv') = (IF toSrv = <<>> THEN m ELSE FirstOf(toSrv))
                 /\ toSrv = <<>> => Len(toSrv') = 1
          BY <1>e, OneWritten
        <5> QED
          BY <2>2, <3>2, <4>1, <5>1
      <4>2. CASE ~srvOpen
        BY <2>2, <4>2
      <4> QED
        BY <4>1, <4>2
    <3>7. Turns'
      BY <1>17, <1>a, <1>b, <1>c, <1>d, <1>e, <2>2, <3>1, <3>2, <3>4, <3>6, ClientTables,
         ServerTables
      DEF SendCount, FramingInv, Turns, ServersTurn, ClientsTurn, Streaming, Listening, Talks, Dead
    <3> QED
      BY <3>3, <3>5, <3>7 DEF FramingInv
  <2>3. CASE UNCHANGED <<toSrv, toCli, cliOpen, srvOpen, ver>> /\ ver = 1 /\ pc' = "sendFile"
    <3>1. toSrv = <<>> /\ (Dead \/ spc = "name") /\ Incoming = <<>>
      BY <1>17, <2>3, ClientTables DEF SendCount, FramingInv, Turns, ServersTurn, ClientsTurn,
         ReceivedInOrder, Listening, Talks
    <3>2. Incoming' = Incoming
      BY <1>b, <2>3 DEF Incoming
    <3>3. ReceivedInOrder'
      BY <3>1, <3>2, <1>17, <1>b, ClientTables DEF SendCount, FramingInv, ReceivedInOrder,
         Listening, Talks
    <3>4. Turns'
      BY <1>17, <1>b, <1>d, <2>3, <3>1, <3>2, ClientTables DEF SendCount, FramingInv, Turns,
         ServersTurn, ClientsTurn, Streaming, Listening, Talks, Dead
    <3> QED
      BY <2>3, <3>1, <3>3, <3>4, SentNothing DEF FramingInv
  <2>4. CASE \E n \in 1 .. MaxFiles : /\ SendsCount(ver) /\ left' = n
                                       /\ ClientWrites(NumMsg("count", n)) /\ GoTo("sendFile")
    BY <1>17, <2>2, <2>4, MaxFilesAssumption DEF SendCount, SendsCount, ClientWrites, GoTo
  <2>5. ver # 0
    BY <1>17 DEF SendCount, FramingInv, Turns
  <2> QED
    BY <1>17, <1>a, <2>1, <2>3, <2>4, <2>5 DEF SendCount, SendsCount, GoTo, Return, Fail,
       FailSilently, ClientWriteFails, Quiet
<1>18. CASE SendFile
  <2>a. Msg("name", "ok") \in Message /\ Msg("name", "ok").kind = "name"
        /\ \A body \in {"file", "dir"} : Msg("body", body) \in Message /\ Msg("body", body).kind = "body"
    BY ClientMessages DEF Msg
  <2>b. /\ srvOpen \/ Dead
        /\ toSrv = <<>> => Dead \/ (spc = "name" /\ Incoming = <<>>)
        /\ toSrv # <<>> => /\ LastOf(toSrv).kind \in {"count", "body"}
                           /\ Dead \/ (spc \in {"count", "name", "body"} /\ Incoming = <<>>)
    BY <1>18, ClientTables DEF SendFile, FramingInv, Turns, ServersTurn, ClientsTurn,
       Listening, Talks
  <2>1. CASE pc' \in Quiet /\ toSrv' \in {toSrv, Append(toSrv, Msg("name", "ok"))}
    <3>1. SentInOrder'
      BY <1>b, <2>1, <2>a, <2>b, SentAfterWrite, ServerTables DEF FramingInv, Dead, Follows
    <3> QED
      BY <1>b, <1>c, <2>1, <3>1, QuietStep
  <2>2. ASSUME NEW body \in {"file", "dir"}, pc' = "sendFile", UNCHANGED <<toCli, cliOpen, srvOpen, ver>>,
               toSrv' = IF srvOpen THEN Append(Append(toSrv, Msg("name", "ok")), Msg("body", body)) ELSE toSrv
        PROVE  FramingInv'
    <3> DEFINE named == Append(toSrv, Msg("name", "ok"))
               both  == Append(named, Msg("body", body))
    <3>1. /\ named \in Seq(Message) /\ named # <<>> /\ LastOf(named) = Msg("name", "ok")
          /\ FirstOf(named) = IF toSrv = <<>> THEN Msg("name", "ok") ELSE FirstOf(toSrv)
          /\ Sequel(named) /\ Fields(named) = Fields(toSrv) \cup {Msg("name", "ok")}
      BY <1>e, <2>a, <2>b, EndsOfAppend, SequelOfAppend, FieldsOfAppend DEF FramingInv,
         SentInOrder, Follows
    <3>2. /\ both # <<>> /\ LastOf(both) = Msg("body", body)
          /\ FirstOf(both) = IF toSrv = <<>> THEN Msg("name", "ok") ELSE FirstOf(toSrv)
          /\ Sequel(both) /\ Fields(both) = Fields(toSrv) \cup {Msg("name", "ok"), Msg("body", body)}
      <4> HIDE DEF named
      <4> QED
        BY <2>a, <3>1, EndsOfAppend, SequelOfAppend, FieldsOfAppend DEF Follows
    <3>3. (toSrv' = toSrv /\ ~srvOpen) \/ toSrv' = both
      BY <2>2
    <3> HIDE DEF named, both
    <3>4. SentInOrder'
      <4>1. CASE toSrv' = toSrv
        BY <1>b, <4>1 DEF FramingInv, SentInOrder
      <4>2. CASE toSrv' = both
        BY <1>b, <2>a, <2>b, <3>2, <4>2, ServerTables DEF FramingInv, SentInOrder, Dead
      <4> QED
        BY <3>3, <4>1, <4>2
    <3>5. Incoming' = Incoming
      BY <1>b, <2>2 DEF Incoming
    <3>6. ReceivedInOrder'
      BY <1>18, <1>b, <2>2, <3>5, ClientTables DEF SendFile, FramingInv, ReceivedInOrder,
         Listening, Talks
    <3>7. Turns'
      <4>1. toSrv' # <<>> => LastOf(toSrv').kind \in {"count", "body"}
        BY <1>18, <2>2, <2>a, <2>b, <3>2, <3>3 DEF SendFile
      <4>2. toSrv' = <<>> => toSrv = <<>> /\ Dead
        BY <2>b, <3>2, <3>3
      <4>a. spc' = spc /\ spc # "sendFiles" /\ Dead' = Dead
        BY <1>b, <2>b DEF Dead
      <4>b. cliOpen /\ (spc = "method" => sver # 0)
        BY <1>18 DEF SendFile, FramingInv, Turns, Listening, Talks
      <4>3. /\ cliOpen' /\ (srvOpen' \/ Dead') /\ (spc' = "method" => sver' # 0)
            /\ Dead' = Dead /\ spc' = spc /\ spc' # "sendFiles"
        BY <1>b, <2>2, <2>b, <4>a, <4>b
      <4>4. ServersTurn' \/ Dead' \/ toSrv' # <<>>
        BY <4>2, <4>3
      <4>5. toSrv' # <<>> => ClientsTurn'
        <5>1. pc' = "sendFile" /\ pc' \notin Awaits
          BY <2>2, ClientTables
        <5>2. Dead \/ (spc \in {"count", "name", "body"} /\ Incoming = <<>>)
          BY <2>b
        <5> QED
          BY <3>5, <4>1, <4>3, <5>1, <5>2 DEF ClientsTurn
      <4> QED
        BY <2>2, <4>3, <4>4, <4>5 DEF Turns, Streaming
    <3> QED
      BY <3>4, <3>6, <3>7 DEF FramingInv
  <2>3. \/ pc' \in Quiet /\ toSrv' \in {toSrv, Append(toSrv, Msg("name", "ok"))}
        \/ \E body \in {"file", "dir"} :
              /\ pc' = "sendFile" /\ UNCHANGED <<toCli, cliOpen, srvOpen, ver>>
              /\ toSrv' = IF srvOpen THEN Append(Append(toSrv, Msg("name", "ok")), Msg("body", body)) ELSE toSrv
    BY <1>18 DEF SendFile, Bodies, ClientWrites, GoTo, Return, Fail, FailSilently,
       ClientWriteFails, Quiet
  <2> QED
    BY <2>1, <2>2, <2>3
<1>19. CASE FilesSent
  <2>1. UNCHANGED <<toSrv, toCli, out, ver, cliOpen, srvOpen>> /\ pc' \in {"readFilesAck", "closeSentFiles"}
    BY <1>19, <1>b DEF FilesSent, linkVars
  <2>2. Incoming' = Incoming
    BY <2>1 DEF Incoming
  <2>3. ReceivedInOrder'
    BY <1>19, <1>b, <2>1, <2>2, ClientTables DEF FilesSent, FramingInv, ReceivedInOrder,
       Listening, Talks
  <2>4. SentInOrder'
    BY <1>b, <2>1 DEF FramingInv, SentInOrder
  <2>5. Turns'
    BY <1>19, <1>b, <2>1, <2>2, <2>4, ClientTables, ServerTables DEF FilesSent, FramingInv,
       Turns, ServersTurn, ClientsTurn, Streaming, Listening, Talks, Dead
  <2> QED
    BY <2>3, <2>4, <2>5 DEF FramingInv
<1>20. CASE ReadFilesAck
  BY <1>20, <1>b, ClientLeaves DEF ReadFilesAck, ClientReads, ClientReadFails, Quiet
<1>21. CASE CloseSentFiles
  BY <1>21, <1>b, ClientLeaves DEF CloseSentFiles, Quiet
<1>22. CASE GetCount
  <2>1. CASE pc' \in Quiet /\ toSrv' = toSrv
    BY <1>b, <2>1, ClientLeaves
  <2>2. CASE toCli # <<>> /\ toCli' = Tail(toCli) /\ toSrv' = toSrv /\ UNCHANGED <<cliOpen, ver>> /\ pc' = "getName"
    <3>1. pc \in Awaits \ {"readFilesAck"}
      BY <1>22, ClientTables DEF GetCount
    <3>2. /\ toSrv = <<>> /\ toSrv' = <<>> /\ Incoming # <<>> /\ Head(toCli) = FirstOf(Incoming)
          /\ Head(toCli).kind = ClientExpects[pc] /\ Connected(req.method, Incoming')
          /\ Incoming' # <<>> => /\ Continues(req.method, Head(toCli), FirstOf(Incoming'))
                                 /\ LastOf(Incoming') = LastOf(Incoming)
          /\ Incoming' = <<>> => LastOf(Incoming) = FirstOf(Incoming)
      BY <1>b, <2>2, <3>1, ClientReadsOn
    <3>3. ReceivedInOrder'
      BY <1>22, <1>b, <1>d, <2>2, <3>2, ClientTables DEF GetCount, ReceivedInOrder, Continues,
         Listening, Talks
    <3>4. Turns'
      BY <1>22, <1>a, <1>b, <1>c, <1>d, <2>2, <3>2, ClientTables DEF GetCount, FramingInv,
         Turns, ServersTurn, ClientsTurn, Streaming, Listening, Talks, Dead
    <3> QED
      BY <3>2, <3>3, <3>4, SentNothing DEF FramingInv
  <2> QED
    BY <1>22, <2>1, <2>2 DEF GetCount, GoTo, Return, Fail, FailSilently, ClientReads,
       ClientReadFails, Quiet
<1>23. CASE GetName
  <2>1. CASE pc' \in Quiet /\ toSrv' = toSrv
    BY <1>b, <2>1, ClientLeaves
  <2>2. CASE toCli # <<>> /\ toCli' = Tail(toCli) /\ toSrv' = toSrv /\ UNCHANGED <<cliOpen, ver>> /\ pc' = "getBody"
    <3>1. pc \in Awaits \ {"readFilesAck"}
      BY <1>23, ClientTables DEF GetName
    <3>2. /\ toSrv = <<>> /\ toSrv' = <<>> /\ Incoming # <<>> /\ Head(toCli) = FirstOf(Incoming)
          /\ Head(toCli).kind = ClientExpects[pc] /\ Connected(req.method, Incoming')
          /\ Incoming' # <<>> => /\ Continues(req.method, Head(toCli), FirstOf(Incoming'))
                                 /\ LastOf(Incoming') = LastOf(Incoming)
          /\ Incoming' = <<>> => LastOf(Incoming) = FirstOf(Incoming)
      BY <1>b, <2>2, <3>1, ClientReadsOn
    <3>3. ReceivedInOrder'
      BY <1>23, <1>b, <1>d, <2>2, <3>2, ClientTables DEF GetName, ReceivedInOrder, Continues,
         Listening, Talks
    <3>4. Turns'
      BY <1>23, <1>a, <1>b, <1>c, <1>d, <2>2, <3>2, ClientTables DEF GetName, FramingInv,
         Turns, ServersTurn, ClientsTurn, Streaming, Listening, Talks, Dead
    <3> QED
      BY <3>2, <3>3, <3>4, SentNothing DEF FramingInv
  <2> QED
    BY <1>23, <2>1, <2>2 DEF GetName, GoTo, Return, Fail, FailSilently, ClientReads,
       ClientReadFails, Quiet
<1>24. CASE GetBody
  <2>1. CASE pc' \in Quiet /\ toSrv' = toSrv
    BY <1>b, <2>1, ClientLeaves
  <2>2. CASE toCli # <<>> /\ toCli' = Tail(toCli) /\ toSrv' = toSrv /\ UNCHANGED <<cliOpen, ver>> /\ pc' \in {"getName", "place"}
    <3>1. pc \in Awaits \ {"readFilesAck"}
      BY <1>24, ClientTables DEF GetBody
    <3>2. /\ toSrv = <<>> /\ toSrv' = <<>> /\ Incoming # <<>> /\ Head(toCli) = FirstOf(Incoming)
          /\ Head(toCli).kind = ClientExpects[pc] /\ Connected(req.method, Incoming')
          /\ Incoming' # <<>> => /\ Continues(req.method, Head(toCli), FirstOf(Incoming'))
                                 /\ LastOf(Incoming') = LastOf(Incoming)
          /\ Incoming' = <<>> => LastOf(Incoming) = FirstOf(Incoming)
      BY <1>b, <2>2, <3>1, ClientReadsOn
    <3>3. ReceivedInOrder'
      BY <1>24, <1>b, <1>d, <2>2, <3>2, ClientTables DEF GetBody, ReceivedInOrder, Continues,
         Listening, Talks
    <3>4. Turns'
      BY <1>24, <1>a, <1>b, <1>c, <1>d, <2>2, <3>2, ClientTables DEF GetBody, FramingInv,
         Turns, ServersTurn, ClientsTurn, Streaming, Listening, Talks, Dead
    <3> QED
      BY <3>2, <3>3, <3>4, SentNothing DEF FramingInv
  <2> QED
    BY <1>24, <2>1, <2>2 DEF GetBody, GoTo, Return, Fail, FailSilently, ClientReads,
       ClientReadFails, Quiet
<1>25. CASE Place
  <2>1. CASE pc' \in Quiet /\ toSrv' = toSrv
    BY <1>b, <2>1, ClientLeaves
  <2>2. CASE pc' = "ackReceived" /\ UNCHANGED <<toSrv, toCli>> /\ pc = "place"
    <3>1. SentInOrder' /\ ReceivedInOrder'
      BY <1>b, <2>2, ClientTables DEF FramingInv, SentInOrder, ReceivedInOrder, Listening, Talks
    <3>2. Turns'
      BY <1>b, <2>2, ClientTables DEF FramingInv, Turns, ServersTurn, ClientsTurn, Streaming,
         Listening, Talks, Dead
    <3> QED
      BY <3>1, <3>2 DEF FramingInv
  <2> QED
    BY <1>25, <2>1, <2>2 DEF Place, GoTo, Return, Fail, FailSilently, Received, Quiet
<1>26. CASE AckReceived
  <2>1. toSrv = <<>> /\ (Dead \/ spc \in {"ack", "sendFiles"})
    BY <1>26 DEF AckReceived, FramingInv, Turns, ServersTurn, ClientsTurn
  <2>2. pc' \in Quiet /\ toSrv' \in {toSrv, Append(toSrv, Msg("ack", "ok"))}
    BY <1>26 DEF AckReceived, ClientWrites, ClientWriteFails, Quiet
  <2>3. SentInOrder'
    BY <1>b, <2>1, <2>2, SentAfterWrite, ClientMessages, ServerTables DEF FramingInv, Dead, Msg
  <2> QED
    BY <1>b, <1>c, <2>2, <2>3, QuietStep
<1>27. CASE CloseReceived
  BY <1>27, <1>b, ClientLeaves DEF CloseReceived, FailSilently, Received, Quiet
<1>28. CASE CutReceived
  BY <1>28, <1>b, ClientLeaves DEF CutReceived, linkVars, Quiet
<1>29. CASE SendDisplay
  <2>1. CASE pc' \in Quiet /\ toSrv' = toSrv
    BY <1>b, <2>1, ClientLeaves
  <2>2. CASE toSrv' = (IF srvOpen THEN Append(toSrv, Msg("display", "ok")) ELSE toSrv)
             /\ UNCHANGED <<toCli, cliOpen, srvOpen, ver>> /\ pc' = "readDisplayStatus"
    <3>1. toSrv = <<>> /\ (Dead \/ spc = "display") /\ (srvOpen \/ Dead) /\ Incoming = <<>>
      BY <1>29, <1>a, <1>b, ClientTables DEF SendDisplay, FramingInv, Turns, ServersTurn,
         ClientsTurn, Dead, Talks, Listening, ReceivedInOrder
    <3>2. Msg("display", "ok") \in Message /\ Msg("display", "ok").kind = "display"
      BY <1>a, ClientMessages DEF Msg, NumMsg
    <3>3. SentInOrder'
      BY <1>29, <1>b, <2>2, <3>1, <3>2, SentAfterWrite, ServerTables DEF FramingInv, Dead,
         Follows, Msg
    <3>4. Incoming' = Incoming
      BY <1>b, <2>2 DEF Incoming
    <3>5. ReceivedInOrder'
      BY <1>29, <1>b, <2>2, <3>1, <3>4, ClientTables DEF SendDisplay, FramingInv,
         ReceivedInOrder, Listening, Talks
    <3>6. \/ toSrv' = toSrv /\ ~srvOpen
          \/ /\ toSrv' # <<>> /\ LastOf(toSrv') = Msg("display", "ok")
             /\ FirstOf(toSrv') = (IF toSrv = <<>> THEN Msg("display", "ok") ELSE FirstOf(toSrv))
             /\ toSrv = <<>> => Len(toSrv') = 1
      <4>1. CASE srvOpen
        <5>1. \A m \in Message : toSrv' = Append(toSrv, m) =>
                 /\ toSrv' # <<>> /\ LastOf(toSrv') = m
                 /\ FirstOf(toSrv') = (IF toSrv = <<>> THEN m ELSE FirstOf(toSrv))
                 /\ toSrv = <<>> => Len(toSrv') = 1
          BY <1>e, OneWritten
        <5> QED
          BY <2>2, <3>2, <4>1, <5>1
      <4>2. CASE ~srvOpen
        BY <2>2, <4>2
      <4> QED
        BY <4>1, <4>2
    <3>7. Turns'
      BY <1>29, <1>a, <1>b, <1>c, <1>d, <1>e, <2>2, <3>1, <3>2, <3>4, <3>6, ClientTables,
         ServerTables
      DEF SendDisplay, FramingInv, Turns, ServersTurn, ClientsTurn, Streaming, Listening, Talks, Dead
    <3> QED
      BY <3>3, <3>5, <3>7 DEF FramingInv
  <2> QED
    BY <1>29, <2>1, <2>2 DEF SendDisplay, ClientWrites, GoTo, Return, Fail, ClientWriteFails,
       Quiet
<1>30. CASE ReadDisplayStatus
  <2>1. CASE pc' \in Quiet /\ toSrv' = toSrv
    BY <1>b, <2>1, ClientLeaves
  <2>2. CASE toCli # <<>> /\ toCli' = Tail(toCli) /\ toSrv' = toSrv /\ UNCHANGED <<cliOpen, ver>>
                  /\ Head(toCli).val = "ok" /\ pc' = "getImage"
    <3>1. pc \in Awaits \ {"readFilesAck"}
      BY <1>30, ClientTables DEF ReadDisplayStatus
    <3>2. /\ toSrv = <<>> /\ toSrv' = <<>> /\ Incoming # <<>> /\ Head(toCli) = FirstOf(Incoming)
          /\ Head(toCli).kind = ClientExpects[pc] /\ Connected(req.method, Incoming')
          /\ Incoming' # <<>> => /\ Continues(req.method, Head(toCli), FirstOf(Incoming'))
                                 /\ LastOf(Incoming') = LastOf(Incoming)
          /\ Incoming' = <<>> => LastOf(Incoming) = FirstOf(Incoming)
      BY <1>b, <2>2, <3>1, ClientReadsOn
    <3>3. ReceivedInOrder'
      BY <1>30, <1>b, <1>d, <2>2, <3>2, ClientTables DEF ReadDisplayStatus, ReceivedInOrder,
         Continues, Listening, Talks
    <3>4. Turns'
      BY <1>30, <1>a, <1>b, <1>c, <1>d, <2>2, <3>2, ClientTables DEF ReadDisplayStatus,
         FramingInv, Turns, ServersTurn, ClientsTurn, Streaming, Listening, Talks, Dead
    <3> QED
      BY <3>2, <3>3, <3>4, SentNothing DEF FramingInv
  <2> QED
    BY <1>30, <2>1, <2>2 DEF ReadDisplayStatus, GoTo, Return, Fail, ClientReads,
       ClientReadFails, Quiet
<1>31. CASE GetImage
  <2>1. CASE pc' \in Quiet /\ toSrv' = toSrv
    BY <1>b, <2>1, ClientLeaves
  <2>2. CASE toCli # <<>> /\ toCli' = Tail(toCli) /\ toSrv' = toSrv /\ UNCHANGED ver /\ pc' = "ackReceived"
    <3>1. pc \in Awaits \ {"readFilesAck"}
      BY <1>31, ClientTables DEF GetImage
    <3>2. /\ toSrv = <<>> /\ toSrv' = <<>> /\ Incoming # <<>> /\ Head(toCli) = FirstOf(Incoming)
          /\ Head(toCli).kind = ClientExpects[pc] /\ Connected(req.method, Incoming')
          /\ Incoming' # <<>> => /\ Continues(req.method, Head(toCli), FirstOf(Incoming'))
                                 /\ LastOf(Incoming') = LastOf(Incoming)
          /\ Incoming' = <<>> => LastOf(Incoming) = FirstOf(Incoming)
      BY <1>b, <2>2, <3>1, ClientReadsOn
    <3>3. ReceivedInOrder'
      BY <1>31, <1>b, <1>d, <2>2, <3>2, ClientTables DEF GetImage, ReceivedInOrder, Continues,
         Listening, Talks
    <3>4. Turns'
      BY <1>31, <1>a, <1>b, <1>c, <1>d, <2>2, <3>2, ClientTables DEF GetImage, FramingInv,
         Turns, ServersTurn, ClientsTurn, Streaming, Listening, Talks, Dead
    <3> QED
      BY <3>2, <3>3, <3>4, SentNothing DEF FramingInv
  <2> QED
    BY <1>31, <2>1, <2>2 DEF GetImage, GoTo, Return, Fail, FailSilently, Received,
       ClientReads, ClientReadFails, Quiet
<1>32. CASE GetInfo
  <2>1. CASE pc' \in Quiet /\ toSrv' = toSrv
    BY <1>b, <2>1, ClientLeaves
  <2>2. CASE toCli # <<>> /\ toCli' = Tail(toCli) /\ toSrv' = toSrv /\ UNCHANGED ver /\ pc' = "ackInfo"
    <3>1. pc \in Awaits \ {"readFilesAck"}
      BY <1>32, ClientTables DEF GetInfo
    <3>2. /\ toSrv = <<>> /\ toSrv' = <<>> /\ Incoming # <<>> /\ Head(toCli) = FirstOf(Incoming)
          /\ Head(toCli).kind = ClientExpects[pc] /\ Connected(req.method, Incoming')
          /\ Incoming' # <<>> => /\ Continues(req.method, Head(toCli), FirstOf(Incoming'))
                                 /\ LastOf(Incoming') = LastOf(Incoming)
          /\ Incoming' = <<>> => LastOf(Incoming) = FirstOf(Incoming)
      BY <1>b, <2>2, <3>1, ClientReadsOn
    <3>3. ReceivedInOrder'
      BY <1>32, <1>b, <1>d, <2>2, <3>2, ClientTables DEF GetInfo, ReceivedInOrder, Continues,
         Listening, Talks
    <3>4. Turns'
      BY <1>32, <1>a, <1>b, <1>c, <1>d, <2>2, <3>2, ClientTables DEF GetInfo, FramingInv,
         Turns, ServersTurn, ClientsTurn, Streaming, Listening, Talks, Dead
    <3> QED
      BY <3>2, <3>3, <3>4, SentNothing DEF FramingInv
  <2> QED
    BY <1>32, <2>1, <2>2 DEF GetInfo, Return, Fail, ClientReads, ClientReadFails, Quiet
<1>33. CASE AckInfo
  <2>1. toSrv = <<>> /\ (Dead \/ spc \in {"ack"})
    BY <1>33 DEF AckInfo, FramingInv, Turns, ServersTurn, ClientsTurn
  <2>2. pc' \in Quiet /\ toSrv' \in {toSrv, Append(toSrv, Msg("ack", "ok"))}
    BY <1>33 DEF AckInfo, GoTo, FailSilently, ClientWrites, ClientWriteFails, Quiet
  <2>3. SentInOrder'
    BY <1>b, <2>1, <2>2, SentAfterWrite, ClientMessages, ServerTables DEF FramingInv, Dead, Msg
  <2> QED
    BY <1>b, <1>c, <2>2, <2>3, QuietStep
<1>34. CASE CloseInfo
  BY <1>34, <1>b, ClientLeaves DEF CloseInfo, Quiet
<1> QED
  BY <1>1, <1>2, <1>3, <1>4, <1>5, <1>6, <1>7, <1>8, <1>9, <1>10, <1>11, <1>12, <1>13,
     <1>14, <1>15, <1>16, <1>17, <1>18, <1>19, <1>20, <1>21, <1>22, <1>23, <1>24, <1>25,
     <1>26, <1>27, <1>28, <1>29, <1>30, <1>31, <1>32, <1>33, <1>34 DEF ClientNext

-----------------------------------------------------------------------------
(* The server keeps in step *)

\* One field, or two that belong together, make a reply in order.
LEMMA Replies ==
  ASSUME NEW method, NEW m \in Message, NEW n \in Message
  PROVE  /\ FirstOf(<<m>>) = m /\ LastOf(<<m>>) = m /\ <<m>> # <<>> /\ Connected(method, <<m>>)
         /\ FirstOf(<<m, n>>) = m /\ LastOf(<<m, n>>) = n /\ <<m, n>> # <<>>
         /\ Continues(method, m, n) => Connected(method, <<m, n>>)
         /\ Connected(method, <<>>)
<1>1. Continues(method, m, n) => Connected(method, <<m, n>>)
  <2> SUFFICES ASSUME Continues(method, m, n), NEW k \in 1 .. Len(<<m, n>>) - 1
               PROVE  Continues(method, <<m, n>>[k], <<m, n>>[k + 1])
    BY DEF Connected
  <2>1. k = 1 /\ <<m, n>>[1] = m /\ <<m, n>>[1 + 1] = n
    OBVIOUS
  <2> HIDE DEF Continues
  <2> QED
    BY <2>1
<1> QED
  BY <1>1 DEF FirstOf, LastOf, Connected

\* What holds when the server has read a field.
HasRead(kind) ==
    /\ toSrv # <<>> /\ Head(toSrv).kind = kind /\ Head(toSrv) \in Message
    /\ UNCHANGED <<toCli, cliOpen, srvOpen>> /\ srvOpen /\ out = <<>>
    /\ kind = "method" => Head(toSrv).val = req.method
    /\ Sequel(toSrv') /\ \A m \in Fields(toSrv') : m.kind = "method" => m.val = req.method
    /\ toSrv' # <<>> => <<kind, FirstOf(toSrv').kind>> \in Follows /\ LastOf(toSrv') = LastOf(toSrv)
    /\ toSrv' = <<>> => LastOf(toSrv).kind = kind
    /\ pc \notin {"start", "sendVersion", "acceptOffer", "sendText", "sendCount", "sendDisplay",
                  "place", "ackText", "ackReceived", "ackInfo"}
    /\ pc = "sendFile" => LastOf(toSrv).kind \in {"count", "body"}
    /\ Listening => /\ toCli = <<>> /\ Incoming = <<>>
                    /\ \/ pc = "sendMethod" /\ kind = "answer" /\ toSrv' = <<>>
                       \/ pc = "sendFile" /\ kind \in {"count", "name", "body"}
                       \/ pc \in Awaits /\ kind \in DOMAIN ReplyTo /\ pc = ReplyTo[kind]

\* What reading a field tells the server about the client.
LEMMA ServerReadsOn ==
  ASSUME TypeOK, FramingInv, NEW kind, kind \in DOMAIN ServerExpects, spc = kind,
         ServerReads(kind), UNCHANGED clientVars
  PROVE  HasRead(kind)
<1>1. /\ toSrv \in Seq(Message) /\ toSrv # <<>> /\ toSrv' = Tail(toSrv) /\ Head(toSrv).kind = kind
      /\ out = <<>> /\ srvOpen /\ UNCHANGED <<toCli, cliOpen, srvOpen>>
      /\ toCli \in Seq(Message)
  BY DEF ServerReads, TypeOK, LinkTypeOK
<1>2. /\ Head(toSrv) = FirstOf(toSrv) /\ Head(toSrv) \in Message /\ Head(toSrv) \in Fields(toSrv)
      /\ Fields(toSrv') \subseteq Fields(toSrv)
      /\ Len(toSrv) \in Nat /\ Len(toSrv') = Len(toSrv) - 1 /\ toSrv' \in Seq(Message)
      /\ toSrv' # <<>> => Len(toSrv) > 1 /\ LastOf(toSrv') = LastOf(toSrv)
  BY <1>1, EndsOfTail, FieldsOfTail
<1>3. /\ Sequel(toSrv')
      /\ toSrv' # <<>> => <<FirstOf(toSrv).kind, FirstOf(toSrv').kind>> \in Follows
  BY <1>1, SequelOfTail DEF FramingInv, SentInOrder
<1>4. toSrv' = <<>> => LastOf(toSrv) = FirstOf(toSrv)
  <2> SUFFICES ASSUME toSrv' = <<>> PROVE Len(toSrv) = 1
    BY DEF FirstOf, LastOf
  <2>1. Len(toSrv') = 0
    BY <1>2, EmptySeq
  <2> QED
    BY <1>2, <2>1
<1>5. Len(toSrv) = 1 => toSrv' = <<>>
  BY <1>2
<1>6. ClientsTurn /\ ~Dead
  BY <1>1, ServerTables DEF FramingInv, Turns, Dead
<1>7. Listening => pc \in Awaits \/ pc \in {"sendMethod", "sendFile"}
  BY <1>6 DEF Listening, Talks, ClientsTurn
<1>8. Listening => Incoming = <<>>
  BY <1>6, <1>7, ClientTables DEF ClientsTurn, FramingInv, ReceivedInOrder
<1>9. toCli = Incoming
  BY <1>1, AfterReply DEF Incoming
<1> QED
  BY <1>1, <1>2, <1>3, <1>4, <1>5, <1>6, <1>7, <1>8, <1>9 DEF ClientsTurn, FramingInv,
     SentInOrder, HasRead

\* The reply to a client that waits for it.
LEMMA ReceivedReply ==
  ASSUME UNCHANGED <<pc, req>>, Listening => Incoming' = out', Connected(req.method, out'),
         Listening /\ out' # <<>> => \/ pc \in Awaits /\ FirstOf(out').kind = ClientExpects[pc]
                                     \/ pc = "sendFile" /\ FirstOf(out').kind = "ack"
  PROVE  ReceivedInOrder'
  BY DEF ReceivedInOrder, Listening

\* Two fields at once, the second one of a given kind.
PairOf(q, kind, val, next) ==
    \E m, n \in Message : q = <<m, n>> /\ m.kind = kind /\ m.val = val /\ n.kind = next

\* Such a reply is in order.
LEMMA PairAnswer ==
  ASSUME NEW q, NEW method, NEW kind, NEW val, NEW next, PairOf(q, kind, val, next),
         \/ kind = "status" /\ val = "unknown" /\ next = "offer"
         \/ kind \in {"dstatus", "name"} /\ next = "body"
         \/ /\ kind = "mstatus" /\ method \in DOMAIN FirstField
            /\ next = FirstField[method]
  PROVE  /\ q # <<>> /\ Connected(method, q)
         /\ FirstOf(q).kind = kind /\ FirstOf(q).val = val /\ LastOf(q).kind = next
<1>1. PICK m \in Message, n \in Message : q = <<m, n>> /\ m.kind = kind /\ m.val = val /\ n.kind = next
  BY DEF PairOf
<1>2. Continues(method, m, n)
  BY <1>1 DEF Continues
<1> QED
  BY <1>1, <1>2, Replies

\* What is left when the rest is lost.
LEMMA Beginning ==
  ASSUME NEW q \in Seq(Message), NEW r \in Seq(Message)
  PROVE  /\ q # <<>> => q \o r # <<>> /\ FirstOf(q \o r) = FirstOf(q)
         /\ \A method : Connected(method, q \o r) => Connected(method, q)
<1> HIDE DEF Message
<1> DEFINE s == q \o r
<1>1. /\ s \in Seq(Message) /\ Len(s) = Len(q) + Len(r) /\ Len(q) \in Nat /\ Len(r) \in Nat
      /\ \A i \in 1 .. Len(q) + Len(r) : s[i] = IF i <= Len(q) THEN q[i] ELSE r[i - Len(q)]
  BY ConcatProperties, LenProperties
<1> HIDE DEF s
<1>2. \A i \in 1 .. Len(q) : s[i] = q[i] /\ i \in 1 .. Len(s)
  BY <1>1
<1>3. ASSUME NEW method, Connected(method, s) PROVE Connected(method, q)
  <2> SUFFICES ASSUME NEW k \in 1 .. Len(q) - 1 PROVE Continues(method, q[k], q[k + 1])
    BY DEF Connected
  <2>1. k \in 1 .. Len(s) - 1 /\ k \in 1 .. Len(q) /\ k + 1 \in 1 .. Len(q)
    BY <1>1
  <2>2. Continues(method, s[k], s[k + 1])
    BY <1>3, <2>1 DEF Connected
  <2> QED
    BY <1>2, <2>1, <2>2
<1> QED
  BY <1>3, AfterRead, EndsOfTail DEF s, FirstOf

\* No step of the server, and no crash, gets the streams out of step.
LEMMA ServerInStep ==
  ASSUME TypeOK, TypeOK', NegotiationInv, FramingInv, ServerNext \/ ServerCrashes, UNCHANGED clientVars
  PROVE  FramingInv'
<1>a. /\ TypeOK /\ FramingInv /\ UNCHANGED clientVars /\ UNCHANGED <<req, pc, ver>>
      /\ out \in Seq(Message) /\ toCli \in Seq(Message) /\ toSrv \in Seq(Message)
  BY DEF clientVars, TypeOK, LinkTypeOK, ServerTypeOK
<1>b. out' \in Seq(Message) /\ toCli' \in Seq(Message)
  BY DEF TypeOK, LinkTypeOK, ServerTypeOK
<1>c. /\ srv.min \in Nat \ {0} /\ srv.max \in Nat \ {0} /\ ver \in Nat /\ sver \in Nat
      /\ ver # 0 /\ sver # 0 => ver = sver
  BY ServerRangesAssumption DEF NegotiationInv, VersionsAgree, TypeOK, ClientTypeOK,
     ServerTypeOK
<1>d. /\ \A kind, val : Msg(kind, val).kind = kind /\ Msg(kind, val).val = val
      /\ \A kind, n : NumMsg(kind, n).kind = kind
      /\ \A val \in {"supported", "obsolete", "unknown"} : Msg("status", val) \in Message
      /\ \A val \in {"ok", "noData", "notImplemented", "unknownMethod"} :
            Msg("mstatus", val) \in Message /\ Msg("dstatus", val) \in Message
      /\ \A n \in Nat : NumMsg("offer", n) \in Message /\ NumMsg("count", n) \in Message
      /\ Msg("text", "ok") \in Message /\ Msg("info", "ok") \in Message /\ Msg("ack", "ok") \in Message
      /\ \A val \in {"file", "dir"} : Msg("body", val) \in Message
      /\ Msg("name", "ok") \in Message /\ NumMsg("offer", srv.max) \in Message
  BY <1>c, ServerMessages, ClientMessages DEF Msg, NumMsg
<1>f. \A m \in Message : /\ FirstOf(<<m>>) = m /\ LastOf(<<m>>) = m /\ <<m>> # <<>>
                          /\ Connected(req.method, <<m>>)
  BY Replies
<1>g. \A m, n \in Message : /\ FirstOf(<<m, n>>) = m /\ LastOf(<<m, n>>) = n /\ <<m, n>> # <<>>
                             /\ Continues(req.method, m, n) => Connected(req.method, <<m, n>>)
  BY Replies
<1>h. Connected(req.method, <<>>)
  BY <1>d, Replies
<1>e. spc = "method" /\ pc = "readMethodStatus" => ver = sver /\ ver # 0
  BY <1>c DEF FramingInv, Turns
<1>1. CASE ServerWrites
  <2>1. /\ out # <<>> /\ Head(out) \in Message /\ srvOpen /\ out' = Tail(out)
        /\ UNCHANGED <<toSrv, cliOpen, srvOpen, spc, sver>>
    BY <1>1, <1>a, EndsOfTail DEF ServerWrites
  <2>2. PICK m \in {Head(out)} \cup Garbled(Head(out)) : toCli' = IF cliOpen THEN Append(toCli, m) ELSE toCli
    BY <1>1 DEF ServerWrites
  <2>3. m \in Message /\ Alike(Head(out), m)
    BY <2>1, GarbledType, GarbledAlike
  <2>4. Listening => pc # "start" /\ cliOpen
    BY <1>a, <2>1 DEF FramingInv, Turns
  <2>5. Listening => /\ Incoming # <<>> /\ Incoming' # <<>> /\ Connected(req.method, Incoming')
                     /\ Alike(FirstOf(Incoming), FirstOf(Incoming'))
                     /\ LastOf(Incoming').kind = LastOf(Incoming).kind
    <3> SUFFICES ASSUME Listening PROVE /\ Incoming # <<>> /\ Incoming' # <<>> /\ Connected(req.method, Incoming')
                                        /\ Alike(FirstOf(Incoming), FirstOf(Incoming'))
                                        /\ LastOf(Incoming').kind = LastOf(Incoming).kind
      OBVIOUS
    <3>1. Connected(req.method, toCli \o out)
      BY <1>a DEF FramingInv, ReceivedInOrder, Incoming
    <3>2. Incoming' = Append(toCli, m) \o Tail(out)
      BY <2>1, <2>2, <2>4 DEF Incoming
    <3>3. LET t == Append(toCli, m) \o Tail(out)
          IN  /\ toCli \o out # <<>> /\ t # <<>> /\ Connected(req.method, t)
              /\ Alike(FirstOf(toCli \o out), FirstOf(t)) /\ LastOf(t).kind = LastOf(toCli \o out).kind
      BY <1>a, <2>1, <2>3, <3>1, AfterWrite
    <3> QED
      BY <3>2, <3>3 DEF Incoming
  <2>6. Listening' = Listening
    BY <1>a DEF Listening
  <2>7. SentInOrder'
    BY <1>a, <2>1 DEF FramingInv, SentInOrder
  <2>8. ReceivedInOrder'
    BY <1>a, <2>5, <2>6 DEF FramingInv, ReceivedInOrder, Alike
  <2>9. toSrv = <<>> /\ ~Dead => ServersTurn'
    <3> SUFFICES ASSUME toSrv = <<>>, ~Dead PROVE ServersTurn'
      OBVIOUS
    <3>1. ServersTurn
      BY <1>a DEF FramingInv, Turns
    <3>2. pc # "sendFile"
      BY <2>5, <3>1 DEF ServersTurn, Listening, Talks
    <3>3. pc \in Awaits => /\ Incoming # <<>> /\ FirstOf(Incoming).kind = ClientExpects[pc]
                           /\ Alike(FirstOf(Incoming), FirstOf(Incoming'))
      BY <1>a, <2>5, <3>2 DEF FramingInv, ReceivedInOrder, Listening
    <3>4. Turn' = Turn
      BY <1>a DEF Turn
    <3>5. pc \in {"readStatus", "readMethodStatus", "readDisplayStatus"} =>
             FirstOf(Incoming').val \in {FirstOf(Incoming).val, "garbage"}
      BY <3>3, ClientTables DEF Alike
    <3> QED
      BY <1>a, <2>1, <3>1, <3>2, <3>3, <3>4, <3>5 DEF ServersTurn
  <2>10. toSrv # <<>> => ClientsTurn'
    <3> SUFFICES ASSUME toSrv # <<>> PROVE ClientsTurn'
      OBVIOUS
    <3>1. ClientsTurn
      BY <1>a DEF FramingInv, Turns
    <3> QED
      BY <1>a, <2>1, <2>5, <3>1 DEF ClientsTurn, Listening, Dead, Talks
  <2>11. Streaming'
    BY <1>a, <2>1, <2>5, <2>6 DEF FramingInv, Turns, Streaming
  <2>12. Turns'
    BY <1>a, <2>1, <2>6, <2>9, <2>10, <2>11 DEF FramingInv, Turns, Dead
  <2> QED
    BY <2>7, <2>8, <2>12 DEF FramingInv
<1>2. CASE ServerGivesUp
  <2>1. UNCHANGED <<toSrv, toCli, cliOpen, srvOpen, out, sver>> /\ spc' = "linger" /\ Incoming' = Incoming
    BY <1>2, <1>a DEF ServerGivesUp, linkVars, Incoming
  <2>2. SentInOrder'
    BY <1>a, <2>1, ServerTables DEF FramingInv, SentInOrder
  <2>3. ReceivedInOrder'
    BY <1>a, <2>1 DEF FramingInv, ReceivedInOrder, Listening
  <2>4. Turns'
    BY <1>a, <2>1 DEF FramingInv, Turns, ClientsTurn, Streaming, Listening, Dead
  <2> QED
    BY <2>2, <2>3, <2>4 DEF FramingInv
<1>3. CASE ServerCloses
  <2>1. UNCHANGED <<toSrv, toCli, cliOpen, out, sver>> /\ spc' = "closed" /\ Incoming' = Incoming
        /\ srvOpen /\ srvOpen' = FALSE
    BY <1>3, <1>a DEF ServerCloses, Incoming
  <2>2. SentInOrder'
    BY <1>a, <2>1, ServerTables DEF FramingInv, SentInOrder
  <2>3. ReceivedInOrder'
    BY <1>a, <2>1 DEF FramingInv, ReceivedInOrder, Listening
  <2>4. Turns'
    BY <1>a, <2>1 DEF FramingInv, Turns, ClientsTurn, Streaming, Listening, Dead
  <2> QED
    BY <2>2, <2>3, <2>4 DEF FramingInv
<1>4. CASE ServerReadsVersion
  <2>1. HasRead("version")
    BY <1>4, <1>a, ServerReadsOn, ServerTables DEF ServerReadsVersion
  <2>2. \/ /\ out' = <<Msg("status", "obsolete")>> /\ spc' = "linger"
        \/ /\ PairOf(out', "status", "unknown", "offer") /\ spc' = "answer"
        \/ /\ out' = <<Msg("status", "supported")>> /\ spc' = "method" /\ sver' # 0
    <3>1. Msg("status", "unknown") \in Message /\ NumMsg("offer", srv.max) \in Message
      BY <1>d
    <3>2. out' = <<Msg("status", "unknown"), NumMsg("offer", srv.max)>> => PairOf(out', "status", "unknown", "offer")
      BY <1>d, <3>1 DEF PairOf
    <3> QED
      BY <1>4, <2>1, <1>c, <3>2 DEF ServerReadsVersion, Reply, HasRead
  <2>3. SentInOrder'
    BY <1>a, <2>1, <2>2, ServerTables DEF SentInOrder, HasRead, Follows
  <2>4. Listening => Incoming' = out'
    BY <2>1, <1>b, ConcatEmptySeq DEF HasRead, Incoming
  <2>5. Connected(req.method, out') /\ (out' # <<>> => FirstOf(out').kind = "status"
                                                        /\ (FirstOf(out').val = "unknown" => spc' = "answer")
                                                        /\ (FirstOf(out').val = "supported" => spc' = "method" /\ sver' # 0)
                                                        /\ spc' # "sendFiles")
    <3>1. CASE PairOf(out', "status", "unknown", "offer") /\ spc' = "answer"
      BY <3>1, PairAnswer
    <3>2. CASE out' = <<Msg("status", "obsolete")>> /\ spc' = "linger"
      BY <3>2, <1>d, <1>f
    <3>3. CASE out' = <<Msg("status", "supported")>> /\ spc' = "method" /\ sver' # 0
      BY <3>3, <1>d, <1>f
    <3> QED
      BY <2>2, <3>1, <3>2, <3>3
  <2>r. ReceivedInOrder'
    BY <1>a, <2>1, <2>2, <2>4, <2>5, ReceivedReply, ClientTables, ServerTables DEF HasRead
  <2>6. Turns'
    BY <1>4, <1>a, <1>c, <2>1, <2>2, <2>4, <2>5, <1>f, <1>g, ClientTables, ServerTables, <1>d
       DEF ServerReadsVersion, HasRead, FramingInv, Follows, Turns, ServersTurn, ClientsTurn,
       Streaming, Listening, Talks, Dead
  <2> QED
    BY <2>3, <2>r, <2>6 DEF FramingInv
<1>5. CASE ServerReadsAnswer
  <2>1. HasRead("answer")
    BY <1>5, <1>a, ServerReadsOn, ServerTables DEF ServerReadsAnswer
  <2>2. out' = <<>> /\ (spc' = "linger" \/ (spc' = "method" /\ sver' # 0))
    BY <1>5, <2>1, <1>c DEF ServerReadsAnswer, HasRead
  <2>3. SentInOrder'
    BY <1>a, <2>1, <2>2, ServerTables DEF SentInOrder, HasRead, Follows
  <2>4. Listening => Incoming' = out'
    BY <2>1, <1>b, ConcatEmptySeq DEF HasRead, Incoming
  <2>5. Connected(req.method, out') /\ (out' # <<>> => FirstOf(out').kind = "ack")
    BY <2>2, <1>f, <1>h, <1>d
  <2>r. ReceivedInOrder'
    BY <1>a, <2>1, <2>2, <2>4, <2>5, ReceivedReply, ClientTables, ServerTables DEF HasRead
  <2>6. Turns'
    BY <1>5, <1>a, <1>c, <2>1, <2>2, <2>4, <2>5, <1>f, <1>g, ClientTables, ServerTables, <1>d
       DEF ServerReadsAnswer, HasRead, FramingInv, Follows, Turns, ServersTurn, ClientsTurn,
       Streaming, Listening, Talks, Dead
  <2> QED
    BY <2>3, <2>r, <2>6 DEF FramingInv
<1>6. CASE ServerReadsMethod
  <2>1. HasRead("method")
    BY <1>6, <1>a, ServerReadsOn, ServerTables DEF ServerReadsMethod
  <2>2. \/ /\ \E status \in {"noData", "notImplemented", "unknownMethod"} : out' = <<Msg("mstatus", status)>>
           /\ spc' = "linger"
        \/ /\ req.method \in DOMAIN FirstField
           /\ PairOf(out', "mstatus", "ok", FirstField[req.method])
           /\ spc' \in IF req.method = "GET_FILE" THEN {"sendFiles"} ELSE {"ack", "linger"}
        \/ /\ out' = <<Msg("mstatus", "ok")>> /\ req.method \notin DOMAIN FirstField
           /\ spc' \notin {"sendFiles", "method"}
           /\ pc = "readMethodStatus" => spc' \in Turn
    <3>1. Head(toSrv).val = req.method /\ req.method \in MethodSet
      BY <2>1 DEF HasRead, TypeOK, ClientTypeOK, Request
    <3>2. \/ /\ \E status \in {"noData", "notImplemented", "unknownMethod"} : out' = <<Msg("mstatus", status)>>
             /\ spc' = "linger"
          \/ req.method = "GET_TEXT" /\ out' = <<Msg("mstatus", "ok"), Msg("text", "ok")>> /\ spc' \in {"ack", "linger"}
          \/ req.method = "INFO" /\ out' = <<Msg("mstatus", "ok"), Msg("info", "ok")>> /\ spc' \in {"ack", "linger"}
          \/ req.method \in Images /\ out' = <<Msg("mstatus", "ok"), Msg("body", "file")>> /\ spc' \in {"ack", "linger"}
          \/ /\ req.method = "GET_FILE" /\ spc' = "sendFiles"
             /\ \E n \in 1 .. MaxFiles : out' = <<Msg("mstatus", "ok"), NumMsg("count", n)>>
          \/ /\ req.method \in {"GET_SCREENSHOT", "SEND_TEXT", "SEND_FILE"}
             /\ out' = <<Msg("mstatus", "ok")>>
             /\ req.method = "GET_SCREENSHOT" => spc' = "display"
             /\ req.method = "SEND_TEXT" => spc' = "text"
             /\ req.method = "SEND_FILE" => (sver = 1 /\ spc' = "name") \/ (sver > 1 /\ spc' = "count")
      BY <1>6, <3>1 DEF ServerReadsMethod, Reply, AfterSending
    <3>3. \A m \in Message : out' = <<Msg("mstatus", "ok"), m>> => PairOf(out', "mstatus", "ok", m.kind)
      <4>1. Msg("mstatus", "ok") \in Message
        BY <1>d
      <4> QED
        BY <1>d, <4>1 DEF PairOf
    <3>4. CASE req.method = "GET_FILE" /\ spc' = "sendFiles" /\ \E n \in 1 .. MaxFiles : out' = <<Msg("mstatus", "ok"), NumMsg("count", n)>>
      <4>1. PICK n \in 1 .. MaxFiles : out' = <<Msg("mstatus", "ok"), NumMsg("count", n)>>
        BY <3>4
      <4>2. NumMsg("count", n) \in Message /\ NumMsg("count", n).kind = "count"
        BY <1>d, MaxFilesAssumption
      <4>3. PairOf(out', "mstatus", "ok", "count")
        BY <3>3, <4>1, <4>2
      <4> QED
        BY <3>4, <4>3, FirstFields
    <3>5. CASE \E m \in {Msg("text", "ok"), Msg("info", "ok"), Msg("body", "file")} :
                  /\ out' = <<Msg("mstatus", "ok"), m>> /\ spc' \in {"ack", "linger"}
                  /\ req.method \in DOMAIN FirstField \ {"GET_FILE"} /\ m.kind = FirstField[req.method]
      <4>1. {Msg("text", "ok"), Msg("info", "ok"), Msg("body", "file")} \subseteq Message
        BY <1>d
      <4>2. PICK m \in {Msg("text", "ok"), Msg("info", "ok"), Msg("body", "file")} :
                /\ out' = <<Msg("mstatus", "ok"), m>> /\ m.kind = FirstField[req.method]
        BY <3>5
      <4>3. m \in Message
        BY <4>1
      <4>4. PairOf(out', "mstatus", "ok", FirstField[req.method])
        BY <3>3, <4>2, <4>3
      <4> QED
        BY <3>5, <4>4
    <3>6. CASE /\ req.method \in {"GET_SCREENSHOT", "SEND_TEXT", "SEND_FILE"}
               /\ out' = <<Msg("mstatus", "ok")>>
               /\ req.method = "GET_SCREENSHOT" => spc' = "display"
               /\ req.method = "SEND_TEXT" => spc' = "text"
               /\ req.method = "SEND_FILE" => (sver = 1 /\ spc' = "name") \/ (sver > 1 /\ spc' = "count")
      <4>1. pc = "readMethodStatus" => ver = sver
        BY <1>6, <1>e DEF ServerReadsMethod
      <4>2. pc = "readMethodStatus" => spc' \in Turn
        BY <3>6, <4>1, <1>c DEF Turn
      <4> QED
        BY <3>6, <4>2, FirstFields
    <3> QED
      BY <3>2, <3>4, <3>5, <3>6, <1>d, FirstFields DEF Images
  <2>3. SentInOrder'
    BY <1>a, <2>1, <2>2, ServerTables DEF SentInOrder, HasRead, Follows
  <2>4. Listening => Incoming' = out'
    BY <2>1, <1>b, ConcatEmptySeq DEF HasRead, Incoming
  <2>5. Connected(req.method, out') /\ (out' # <<>> => FirstOf(out').kind = "mstatus"
                                                        /\ (FirstOf(out').val = "ok" /\ pc = "readMethodStatus" => spc' = "linger" \/ spc' \in Turn)
                                                        /\ (spc' = "sendFiles" => LastOf(out').kind = "count")
                                                        /\ spc' # "method")
    <3>1. CASE \E status \in {"noData", "notImplemented", "unknownMethod"} :
                  out' = <<Msg("mstatus", status)>> /\ spc' = "linger"
      BY <3>1, <1>d, <1>f
    <3>2. CASE /\ req.method \in DOMAIN FirstField
               /\ PairOf(out', "mstatus", "ok", FirstField[req.method])
               /\ spc' \in IF req.method = "GET_FILE" THEN {"sendFiles"} ELSE {"ack", "linger"}
      <4>1. /\ Connected(req.method, out') /\ FirstOf(out').kind = "mstatus" /\ out' # <<>>
            /\ LastOf(out').kind = FirstField[req.method]
        BY <3>2, PairAnswer
      <4>2. spc' = "linger" \/ spc' \in Turn
        BY <3>2, FirstFields DEF Turn
      <4> QED
        BY <3>2, <4>1, <4>2, FirstFields
    <3>3. CASE /\ out' = <<Msg("mstatus", "ok")>> /\ req.method \notin DOMAIN FirstField
               /\ spc' \notin {"sendFiles", "method"}
               /\ pc = "readMethodStatus" => spc' \in Turn
      BY <3>3, <1>d, <1>f
    <3> QED
      BY <2>2, <3>1, <3>2, <3>3
  <2>r. ReceivedInOrder'
    BY <1>a, <2>1, <2>2, <2>4, <2>5, ReceivedReply, ClientTables, ServerTables DEF HasRead
  <2>t. Turn' = Turn
    BY <1>a DEF Turn
  <2>6. Turns'
    <3>0. out' # <<>> /\ srvOpen
      BY <1>6, <2>1 DEF ServerReadsMethod, Reply, HasRead
    <3>1. Listening => pc = "readMethodStatus" /\ pc \in Awaits
      BY <2>1, ClientTables, ServerTables DEF HasRead, Listening
    <3>2. /\ UNCHANGED <<pc, ver, sver, srvOpen, cliOpen>> /\ Listening' = Listening
      BY <1>6, <1>a, <2>1 DEF ServerReadsMethod, HasRead, Listening
    <3>3. (toSrv' = <<>> /\ ~Dead' => ServersTurn')
      <4>1. CASE Listening
        BY <1>a, <2>2, <2>4, <2>5, <2>t, <3>1, <4>1 DEF ServersTurn, Dead
      <4>2. CASE ~Listening
        BY <1>a, <2>1, <4>2, ClientTables DEF ServersTurn, HasRead, Listening, Talks
      <4> QED
        BY <4>1, <4>2
    <3>4. toSrv' # <<>> => ClientsTurn'
      BY <2>1 DEF HasRead, Follows
    <3>5. Streaming'
      BY <2>2, <2>4, <2>5, <3>0, <3>1, <3>2 DEF Streaming
    <3>6. spc' # "method"
      BY <2>2, <2>5
    <3> QED
      BY <1>a, <3>0, <3>2, <3>3, <3>4, <3>5, <3>6 DEF FramingInv, Turns
  <2> QED
    BY <2>3, <2>r, <2>6 DEF FramingInv
<1>7. CASE ServerSendsFile
  <2>1. /\ spc = "sendFiles" /\ out = <<>> /\ srvOpen
        /\ UNCHANGED <<toSrv, toCli, cliOpen, srvOpen, sver>> /\ toCli = Incoming
    BY <1>7, <1>a, ConcatEmptySeq DEF ServerSendsFile, linkVars, Incoming
  <2>2. toSrv # <<>> => pc \notin Awaits \cup {"sendMethod", "sendFile"}
    BY <1>a, <2>1, ServerTables DEF FramingInv, Turns, ClientsTurn, Dead
  <2>3. toSrv = <<>> => ServersTurn
    BY <1>a, <2>1 DEF FramingInv, Turns, Dead
  <2>4. Turn' = Turn /\ Listening' = Listening
    BY <1>a DEF Turn, Listening
  <2>5. CASE out' = <<>> /\ spc' \in {"ack", "linger"}
    <3>1. Incoming' = Incoming
      BY <2>1, <2>5 DEF Incoming
    <3>2. SentInOrder'
      BY <1>a, <2>1, <2>5, ServerTables DEF FramingInv, SentInOrder
    <3>3. ReceivedInOrder'
      BY <1>a, <2>4, <3>1 DEF FramingInv, ReceivedInOrder
    <3>4. "sendFiles" \in Turn => "ack" \in Turn
      BY DEF Turn
    <3>5. toSrv = <<>> /\ ~Dead' => ServersTurn'
      BY <1>a, <2>1, <2>3, <2>4, <2>5, <3>1, <3>4 DEF ServersTurn, Dead
    <3>6. toSrv # <<>> => ClientsTurn'
      BY <1>a, <2>1, <2>2, <3>1 DEF ClientsTurn, FramingInv, Turns
    <3> QED
      BY <1>a, <2>1, <2>4, <2>5, <3>1, <3>2, <3>3, <3>5, <3>6 DEF FramingInv, Turns,
         Streaming, Dead
  <2>6. CASE \E body \in {"file", "dir"} : out' = <<Msg("name", "ok"), Msg("body", body)>> /\ spc' = spc
    <3>1. PICK m \in Message, n \in Message : out' = <<m, n>> /\ m.kind = "name" /\ n.kind = "body"
      BY <1>d, <2>6
    <3> HIDE DEF Message
    <3>2. Incoming' = Append(Append(Incoming, m), n)
      BY <1>a, <2>1, <3>1, AfterReply DEF Incoming
    <3>3. /\ Append(Incoming, m) \in Seq(Message) /\ Append(Incoming, m) # <<>>
          /\ LastOf(Append(Incoming, m)) = m
          /\ FirstOf(Append(Incoming, m)) = IF Incoming = <<>> THEN m ELSE FirstOf(Incoming)
      BY <1>a, <2>1, EndsOfAppend
    <3>4. /\ Incoming' # <<>> /\ LastOf(Incoming') = n
          /\ FirstOf(Incoming') = FirstOf(Append(Incoming, m))
      <4>1. \A q \in Seq(Message) : q # <<>> => /\ Append(q, n) # <<>> /\ LastOf(Append(q, n)) = n
                                                 /\ FirstOf(Append(q, n)) = FirstOf(q)
        BY <3>1, EndsOfAppend
      <4> QED
        BY <3>2, <3>3, <4>1
    <3>5. Listening => Connected(req.method, Append(Incoming, m))
      <4> SUFFICES ASSUME Listening PROVE Connected(req.method, Append(Incoming, m))
        OBVIOUS
      <4>1. Connected(req.method, Incoming)
        BY <1>a DEF FramingInv, ReceivedInOrder
      <4>2. Incoming # <<>> => Continues(req.method, LastOf(Incoming), m)
        BY <1>a, <2>1, <3>1 DEF FramingInv, Turns, Streaming, Continues
      <4> QED
        BY <1>a, <2>1, <4>1, <4>2, ConnectedAppend
    <3>6. Continues(req.method, m, n)
      BY <3>1 DEF Continues
    <3>7. Listening => Connected(req.method, Incoming')
      BY <3>2, <3>3, <3>5, <3>6, ConnectedAppend
    <3>8. Listening => \/ Incoming # <<>> /\ FirstOf(Incoming') = FirstOf(Incoming)
                       \/ Incoming = <<>> /\ pc = "getName" /\ FirstOf(Incoming').kind = "name"
      BY <1>a, <2>1, <3>1, <3>3, <3>4 DEF FramingInv, Turns, Streaming
    <3>9. SentInOrder'
      BY <1>a, <2>1, <2>6 DEF FramingInv, SentInOrder
    <3>10. ReceivedInOrder'
      BY <1>a, <2>4, <3>7, <3>8, ClientTables DEF FramingInv, ReceivedInOrder
    <3>11. toSrv = <<>> => ServersTurn'
      BY <1>a, <2>1, <2>3, <2>4, <2>6, <3>8, ClientTables DEF ServersTurn, Listening, Talks
    <3>12. toSrv # <<>> => ClientsTurn'
      BY <1>a, <2>1, <2>2 DEF ClientsTurn, FramingInv, Turns
    <3>13. Streaming'
      BY <3>1, <3>4 DEF Streaming
    <3> QED
      BY <1>a, <2>1, <2>4, <2>6, <3>9, <3>10, <3>11, <3>12, <3>13 DEF FramingInv, Turns, Dead
  <2> QED
    BY <1>7, <2>1, <2>5, <2>6 DEF ServerSendsFile, Reply, AfterSending
<1>8. CASE ServerReadsDisplay
  <2>1. HasRead("display")
    BY <1>8, <1>a, ServerReadsOn, ServerTables DEF ServerReadsDisplay
  <2>2. \/ /\ PairOf(out', "dstatus", "ok", "body") /\ spc' \in {"ack", "linger"}
        \/ /\ out' = <<Msg("dstatus", "noData")>> /\ spc' = "linger"
    <3>1. Msg("dstatus", "ok") \in Message /\ Msg("body", "file") \in Message
      BY <1>d
    <3>2. out' = <<Msg("dstatus", "ok"), Msg("body", "file")>> => PairOf(out', "dstatus", "ok", "body")
      BY <1>d, <3>1 DEF PairOf
    <3> QED
      BY <1>8, <2>1, <3>2 DEF ServerReadsDisplay, Reply, HasRead, AfterSending
  <2>3. SentInOrder'
    BY <1>a, <2>1, <2>2, ServerTables DEF SentInOrder, HasRead, Follows
  <2>4. Listening => Incoming' = out'
    BY <2>1, <1>b, ConcatEmptySeq DEF HasRead, Incoming
  <2>5. Connected(req.method, out') /\ (out' # <<>> => FirstOf(out').kind = "dstatus"
                                                        /\ (FirstOf(out').val = "ok" => spc' \in {"ack", "linger"})
                                                        /\ spc' \notin {"sendFiles", "method"})
    BY <2>2, PairAnswer, <1>d, <1>f, <1>h
  <2>r. ReceivedInOrder'
    BY <1>a, <2>1, <2>2, <2>4, <2>5, ReceivedReply, ClientTables, ServerTables DEF HasRead
  <2>6. Turns'
    BY <1>8, <1>a, <1>c, <2>1, <2>2, <2>4, <2>5, <1>f, <1>g, ClientTables, ServerTables, <1>d
       DEF ServerReadsDisplay, HasRead, FramingInv, Follows, Turns, ServersTurn, ClientsTurn,
       Streaming, Listening, Talks, Dead
  <2> QED
    BY <2>3, <2>r, <2>6 DEF FramingInv
<1>9. CASE ServerReadsText
  <2>1. HasRead("text")
    BY <1>9, <1>a, ServerReadsOn, ServerTables DEF ServerReadsText
  <2>2. out' \in {<<>>, <<Msg("ack", "ok")>>} /\ spc' = "linger"
    BY <1>9, <2>1 DEF ServerReadsText, Reply, HasRead, ReplyAfterReceiving
  <2>3. SentInOrder'
    BY <1>a, <2>1, <2>2, ServerTables DEF SentInOrder, HasRead, Follows
  <2>4. Listening => Incoming' = out'
    BY <2>1, <1>b, ConcatEmptySeq DEF HasRead, Incoming
  <2>5. Connected(req.method, out') /\ (out' # <<>> => FirstOf(out').kind = "ack")
    BY <2>2, <1>f, <1>h, <1>d
  <2>r. ReceivedInOrder'
    BY <1>a, <2>1, <2>2, <2>4, <2>5, ReceivedReply, ClientTables, ServerTables DEF HasRead
  <2>6. Turns'
    BY <1>9, <1>a, <1>c, <2>1, <2>2, <2>4, <2>5, <1>f, <1>g, ClientTables, ServerTables, <1>d
       DEF ServerReadsText, HasRead, FramingInv, Follows, Turns, ServersTurn, ClientsTurn,
       Streaming, Listening, Talks, Dead
  <2> QED
    BY <2>3, <2>r, <2>6 DEF FramingInv
<1>10. CASE ServerReadsCount
  <2>1. HasRead("count")
    BY <1>10, <1>a, ServerReadsOn, ServerTables DEF ServerReadsCount
  <2>2. out' = <<>> /\ spc' \in {"linger", "name"}
    BY <1>10, <2>1 DEF ServerReadsCount, HasRead
  <2>3. SentInOrder'
    BY <1>a, <2>1, <2>2, ServerTables DEF SentInOrder, HasRead, Follows
  <2>4. Listening => Incoming' = out'
    BY <2>1, <1>b, ConcatEmptySeq DEF HasRead, Incoming
  <2>5. Connected(req.method, out') /\ (out' # <<>> => FirstOf(out').kind = "ack")
    BY <2>2, <1>f, <1>h, <1>d
  <2>r. ReceivedInOrder'
    BY <1>a, <2>1, <2>2, <2>4, <2>5, ReceivedReply, ClientTables, ServerTables DEF HasRead
  <2>6. Turns'
    BY <1>10, <1>a, <1>c, <2>1, <2>2, <2>4, <2>5, <1>f, <1>g, ClientTables, ServerTables, <1>d
       DEF ServerReadsCount, HasRead, FramingInv, Follows, Turns, ServersTurn, ClientsTurn,
       Streaming, Listening, Talks, Dead
  <2> QED
    BY <2>3, <2>r, <2>6 DEF FramingInv
<1>11. CASE ServerReadsName
  <2>1. HasRead("name")
    BY <1>11, <1>a, ServerReadsOn, ServerTables DEF ServerReadsName
  <2>2. out' = <<>> /\ spc' = "body"
    BY <1>11, <2>1 DEF ServerReadsName, HasRead
  <2>3. SentInOrder'
    BY <1>a, <2>1, <2>2, ServerTables DEF SentInOrder, HasRead, Follows
  <2>4. Listening => Incoming' = out'
    BY <2>1, <1>b, ConcatEmptySeq DEF HasRead, Incoming
  <2>5. Connected(req.method, out') /\ (out' # <<>> => FirstOf(out').kind = "ack")
    BY <2>2, <1>f, <1>h, <1>d
  <2>r. ReceivedInOrder'
    BY <1>a, <2>1, <2>2, <2>4, <2>5, ReceivedReply, ClientTables, ServerTables DEF HasRead
  <2>6. Turns'
    BY <1>11, <1>a, <1>c, <2>1, <2>2, <2>4, <2>5, <1>f, <1>g, ClientTables, ServerTables, <1>d
       DEF ServerReadsName, HasRead, FramingInv, Follows, Turns, ServersTurn, ClientsTurn,
       Streaming, Listening, Talks, Dead
  <2> QED
    BY <2>3, <2>r, <2>6 DEF FramingInv
<1>12. CASE ServerReadsBody
  <2>1. HasRead("body")
    BY <1>12, <1>a, ServerReadsOn, ServerTables DEF ServerReadsBody
  <2>2. \/ out' \in {<<>>, <<Msg("ack", "ok")>>} /\ spc' = "linger"
        \/ out' = <<>> /\ spc' = "name"
    BY <1>12, <2>1 DEF ServerReadsBody, Reply, HasRead, ReplyAfterReceiving
  <2>3. SentInOrder'
    BY <1>a, <2>1, <2>2, ServerTables DEF SentInOrder, HasRead, Follows
  <2>4. Listening => Incoming' = out'
    BY <2>1, <1>b, ConcatEmptySeq DEF HasRead, Incoming
  <2>5. Connected(req.method, out') /\ (out' # <<>> => FirstOf(out').kind = "ack")
    BY <2>2, <1>f, <1>h, <1>d
  <2>r. ReceivedInOrder'
    BY <1>a, <2>1, <2>2, <2>4, <2>5, ReceivedReply, ClientTables, ServerTables DEF HasRead
  <2>6. Turns'
    BY <1>12, <1>a, <1>c, <2>1, <2>2, <2>4, <2>5, <1>f, <1>g, ClientTables, ServerTables, <1>d
       DEF ServerReadsBody, HasRead, FramingInv, Follows, Turns, ServersTurn, ClientsTurn,
       Streaming, Listening, Talks, Dead
  <2> QED
    BY <2>3, <2>r, <2>6 DEF FramingInv
<1>13. CASE ServerReadsAck
  <2>1. HasRead("ack")
    BY <1>13, <1>a, ServerReadsOn, ServerTables DEF ServerReadsAck
  <2>2. out' = <<>> /\ spc' = "linger"
    BY <1>13, <2>1 DEF ServerReadsAck, HasRead
  <2>3. SentInOrder'
    BY <1>a, <2>1, <2>2, ServerTables DEF SentInOrder, HasRead, Follows
  <2>4. Listening => Incoming' = out'
    BY <2>1, <1>b, ConcatEmptySeq DEF HasRead, Incoming
  <2>5. Connected(req.method, out') /\ (out' # <<>> => FirstOf(out').kind = "ack")
    BY <2>2, <1>f, <1>h, <1>d
  <2>r. ReceivedInOrder'
    BY <1>a, <2>1, <2>2, <2>4, <2>5, ReceivedReply, ClientTables, ServerTables DEF HasRead
  <2>6. Turns'
    BY <1>13, <1>a, <1>c, <2>1, <2>2, <2>4, <2>5, <1>f, <1>g, ClientTables, ServerTables, <1>d
       DEF ServerReadsAck, HasRead, FramingInv, Follows, Turns, ServersTurn, ClientsTurn,
       Streaming, Listening, Talks, Dead
  <2> QED
    BY <2>3, <2>r, <2>6 DEF FramingInv
<1>14. CASE ServerCrashes
  <2>1. UNCHANGED <<toSrv, cliOpen, sver>> /\ spc' = "closed" /\ srvOpen /\ srvOpen' = FALSE
        /\ out' = <<>> /\ toCli' \in {toCli, <<>>}
    BY <1>14, <1>a DEF ServerCrashes
  <2>2. SentInOrder'
    BY <1>a, <2>1, ServerTables DEF FramingInv, SentInOrder
  <2>3. Incoming' = toCli'
    BY <1>b, <2>1, ConcatEmptySeq DEF Incoming
  <2>4. Incoming' # <<>> => Incoming # <<>> /\ FirstOf(Incoming') = FirstOf(Incoming)
    BY <1>a, <2>1, <2>3, Beginning DEF Incoming
  <2>5. Connected(req.method, Incoming) => Connected(req.method, Incoming')
    BY <1>a, <1>h, <2>1, <2>3, Beginning DEF Incoming
  <2>6. ReceivedInOrder'
    BY <1>a, <2>4, <2>5 DEF FramingInv, ReceivedInOrder, Listening
  <2>7. Turns'
    BY <1>a, <2>1, <2>4 DEF FramingInv, Turns, ClientsTurn, Streaming, Listening, Dead
  <2> QED
    BY <2>2, <2>6, <2>7 DEF FramingInv
<1> QED
  BY <1>1, <1>2, <1>3, <1>4, <1>5, <1>6, <1>7, <1>8, <1>9, <1>10, <1>11, <1>12, <1>13,
     <1>14 DEF ServerNext

-----------------------------------------------------------------------------
(* The theorem *)

\* One step of either program.
LEMMA FramingStep ==
  ASSUME TypeOK, TypeOK', NegotiationInv, FramingInv, [Next]_vars
  PROVE  FramingInv'
<1>1. CASE ClientNext /\ UNCHANGED serverVars
  BY <1>1, ClientInStep
<1>2. CASE (ServerNext \/ ServerCrashes) /\ UNCHANGED clientVars
  BY <1>2, ServerInStep
<1>3. CASE UNCHANGED vars
  BY <1>3 DEF vars, linkVars, clientVars, serverVars, FramingInv, SentInOrder, ReceivedInOrder,
              Turns, ServersTurn, ClientsTurn, Streaming, Turn, Listening, Dead, Incoming
<1> QED
  BY <1>1, <1>2, <1>3 DEF Next, Terminated

\* The invariant holds in every state.
LEMMA FramingAlways == Spec => []FramingInv
<1>1. Init => FramingInv
  <2> SUFFICES ASSUME Init PROVE FramingInv
    OBVIOUS
  <2>1. /\ toSrv = <<>> /\ toCli = <<>> /\ out = <<>> /\ pc = "start" /\ spc = "version" /\ ~srvOpen
    BY DEF Init, LinkInit, ClientInit, ServerInit
  <2>2. Incoming = <<>>
    <3>1. <<>> \in Seq(Message)
      OBVIOUS
    <3> QED
      BY <2>1, <3>1, ConcatEmptySeq DEF Incoming
  <2>3. SentInOrder
    BY <2>1, FieldsOfEmpty DEF SentInOrder, Sequel
  <2> QED
    BY <2>1, <2>2, <2>3, ClientTables DEF FramingInv, ReceivedInOrder, Connected, Turns,
       ServersTurn,
                                          ClientsTurn, Streaming
<1> QED
  BY <1>1, FramingStep, TypeCorrect, NegotiationAlways, PTL DEF Spec

\* Whatever fails: the next field on a stream is the one its reader is about to read.
THEOREM StreamsInStep == Spec => []InStep
<1>1. ASSUME TypeOK, FramingInv PROVE InStep
  <2>1. ASSUME pc \in DOMAIN ClientExpects, toCli # <<>> PROVE Head(toCli).kind = ClientExpects[pc]
    <3>1. toCli \in Seq(Message) /\ out \in Seq(Message)
      BY <1>1 DEF TypeOK, LinkTypeOK, ServerTypeOK
    <3>2. Incoming # <<>> /\ FirstOf(Incoming) = Head(toCli)
      BY <2>1, <3>1, AfterRead DEF Incoming
    <3>3. pc \in Awaits /\ Listening /\ pc # "sendFile"
      BY <2>1, ClientTables DEF Listening, Awaits
    <3> QED
      BY <1>1, <3>2, <3>3 DEF FramingInv, ReceivedInOrder
  <2>2. ASSUME spc \in DOMAIN ServerExpects, toSrv # <<>> PROVE Head(toSrv).kind = ServerExpects[spc]
    <3>1. toSrv \in Seq(Message)
      BY <1>1 DEF TypeOK, LinkTypeOK
    <3>2. Head(toSrv) = FirstOf(toSrv)
      BY <2>2, <3>1, EndsOfTail
    <3> QED
      BY <1>1, <2>2, <3>2 DEF FramingInv, SentInOrder
  <2> QED
    BY <2>1, <2>2 DEF InStep
<1> QED
  BY <1>1, TypeCorrect, FramingAlways, PTL

-----------------------------------------------------------------------------
(***************************************************************************)
(* SUCCESS means delivery, between programs and machines that do not fail.  *)
(* The invariant follows the data of a request: what is still to come or to *)
(* go is on a stream or with its sender, the other end waits for it and     *)
(* keeps the connection open, and the person is told only after the socket  *)
(* is closed and everything that came was read.                             *)
(***************************************************************************)

\* Where the client receives, acknowledges, waits for the server to close, and
\* where it has sent what it had to send.
Gives      == {"getText", "getInfo", "getImage", "getCount", "getName", "getBody", "place"}
Acks       == {"ackText", "ackInfo", "ackReceived"}
Closes     == {"closeText", "closeInfo", "closeReceived"}
SendsText  == {"readTextAck", "closeSentText"}
SendsFiles == {"sendFile", "readFilesAck", "closeSentFiles"}
Over       == pc \in {"returned", "done"}

\* Names of files on a stream, and the files that are still to come or to go.
Names(q) == Cardinality({k \in DOMAIN q : q[k].kind = "name"})
Coming   == Names(Incoming) + (IF spc = "sendFiles" THEN sleft ELSE 0)
Going    == Names(toSrv) + left

\* The client is about to read that its method was granted.
Granted == pc = "readMethodStatus" /\ Incoming # <<>> /\ FirstOf(Incoming).val = "ok"

\* Both ends of the connection stay open for as long as they are used.
Connection ==
    /\ pc \notin {"start", "done"} /\ ~srvOpen => spc = "closed" /\ out = <<>>
    /\ pc \in Acks \cup Closes \cup {"closeSentText", "closeSentFiles", "place"} => cliOpen
    /\ spc \notin {"version", "answer", "linger", "closed"} => sver # 0
    /\ pc \notin {"start", "sendVersion", "readStatus", "readOffer", "returned", "done"} => ver # 0

\* Nothing on its way is garbled, and counts are true.
Sound ==
    /\ \A m \in Fields(Incoming) :
          /\ m.kind = "ack" => m.val = "ok"
          /\ m.kind = "name" => req.method = "GET_FILE"
          /\ m.kind = "body" /\ req.method \in Pictures => m.val = "file"
          /\ m.kind = "count" /\ pc \in {"readMethodStatus", "getCount"} => m.num = Coming
    /\ \A m \in Fields(toSrv) : m.kind = "count" /\ pc \in SendsFiles => m.num = Going /\ m.num # 0

\* The server receives everything that is sent.
Uploads ==
    /\ req.method = "SEND_TEXT" /\ (Granted \/ pc = "sendText") => spc = "text"
    /\ req.method = "SEND_FILE" /\ (Granted \/ pc = "sendCount") =>
          IF ver = 1 THEN spc = "name" /\ sleft = 1 ELSE spc = "count"
    /\ pc \in SendsText => \/ spc = "text" /\ toSrv # <<>>
                           \/ Dead /\ got
    /\ pc \in SendsFiles => \/ spc = "count" /\ toSrv # <<>>
                            \/ spc = "name" /\ sleft = Going /\ sleft > 0
                            \/ spc = "body" /\ sleft = Going + 1 /\ toSrv # <<>>
                            \/ Dead /\ got /\ left = 0
    /\ pc \in SendsText \cup SendsFiles =>
          IF ver >= 4 THEN Dead => Incoming # <<>> ELSE Incoming = <<>>
    /\ pc \in {"readFilesAck", "closeSentFiles"} => left = 0
    /\ pc \in {"readTextAck", "readFilesAck"} => ver >= 4
    /\ pc \in {"closeSentText", "closeSentFiles"} => ver < 4
    /\ toSrv # <<>> => LastOf(toSrv).kind # "name"

\* The client receives everything, and the server waits for its acknowledgement.
Downloads ==
    /\ \/ pc \in Gives \cup Acks
       \/ Granted /\ req.method \notin Sends \cup {"GET_SCREENSHOT"}
       \/ pc = "readDisplayStatus" /\ Incoming # <<>> /\ FirstOf(Incoming).val = "ok"
       => IF Dead THEN ver < 4 ELSE spc \in {"sendFiles", "ack"}
    /\ spc = "sendFiles" => req.method = "GET_FILE"
    /\ pc = "getName" => left = Coming
    /\ pc = "getBody" => left = Coming + 1
    /\ pc \in Acks \cup Closes \cup {"place"} => Coming = 0 /\ Incoming = <<>>
    /\ pc \in Acks \cup Closes => ver >= 4
    /\ pc \in Closes => spc \in {"sendFiles", "ack", "linger", "closed"}

\* What the person is told, and when.
Told ==
    /\ pc \in {"storeText", "cutReceived"} \/ (Over /\ ret = "SUCCESS") => toCli = <<>> /\ ~cliOpen
    /\ pc \in {"ackReceived", "closeReceived", "cutReceived"} => disk = "placed"
    /\ Over => ret # "none" /\ (ret = "SUCCESS" => Delivered)
    /\ req.entry = "web" =>
          IF Over THEN (ans = "OK" <=> ret = "SUCCESS") /\ (pc = "done" => ans # "none")
          ELSE ans = IF pc \in {"readFilesAck", "closeSentFiles", "cutReceived", "ackInfo", "closeInfo"}
                     THEN "OK" ELSE "none"

DeliveryInv == Connection /\ Sound /\ Uploads /\ Downloads /\ Told

\* What the other theorems say of each state.
Known == TypeOK /\ NegotiationInv /\ FramingInv /\ OutcomeInv

-----------------------------------------------------------------------------
(* Counting names *)

\* Names are counted by their places on the stream.
LEMMA NamesOfEmpty == Names(<<>>) = 0
<1>1. {k \in DOMAIN <<>> : <<>>[k].kind = "name"} = {}
  OBVIOUS
<1> QED
  BY <1>1, FS_EmptySet DEF Names

\* Names are finitely many, and none is on a stream that has no place for one.
LEMMA NamesType ==
  ASSUME NEW q \in Seq(Message)
  PROVE  /\ IsFiniteSet({k \in DOMAIN q : q[k].kind = "name"})
         /\ Names(q) \in Nat
         /\ Names(q) = 0 => \A m \in Fields(q) : m.kind # "name"
<1> DEFINE T == {k \in DOMAIN q : q[k].kind = "name"}
<1>1. DOMAIN q = 1 .. Len(q) /\ Len(q) \in Nat
  OBVIOUS
<1>2. IsFiniteSet(1 .. Len(q))
  <2>1. 1 \in Int /\ Len(q) \in Int
    BY <1>1
  <2> QED
    BY <2>1, FS_Interval
<1>3. T \in SUBSET (1 .. Len(q))
  BY <1>1
<1>4. IsFiniteSet(T)
  BY <1>2, <1>3, FS_Subset
<1>5. Cardinality(T) \in Nat /\ (Cardinality(T) = 0 => T = {})
  BY <1>4, FS_CardinalityType, FS_EmptySet
<1> QED
  BY <1>4, <1>5 DEF Names, Fields

LEMMA NamesOfAppend ==
  ASSUME NEW q \in Seq(Message), NEW m \in Message
  PROVE  Names(Append(q, m)) = Names(q) + (IF m.kind = "name" THEN 1 ELSE 0)
<1> HIDE DEF Message
<1> DEFINE T == {k \in DOMAIN q : q[k].kind = "name"}
           a == Append(q, m)
           U == {k \in DOMAIN a : a[k].kind = "name"}
           n == Len(q) + 1
<1>1. /\ Len(q) \in Nat /\ DOMAIN q = 1 .. Len(q) /\ DOMAIN a = 1 .. n
      /\ a[n] = m /\ \A k \in 1 .. Len(q) : a[k] = q[k]
  BY AppendProperties
<1>2. IsFiniteSet(T) /\ Names(q) = Cardinality(T) /\ Names(a) = Cardinality(U) /\ Cardinality(T) \in Nat
  BY NamesType DEF Names
<1>3. n \notin T /\ n \in Nat
  BY <1>1
<1>4. U = IF m.kind = "name" THEN T \cup {n} ELSE T
  BY <1>1
<1>5. Cardinality(T \cup {n}) = Cardinality(T) + 1
  BY <1>2, <1>3, FS_AddElement
<1> HIDE DEF T, U, n, a
<1> QED
  BY <1>2, <1>4, <1>5 DEF a

\* A field taken off a stream takes a name away if it is one.
LEMMA NamesOfTail ==
  ASSUME NEW q \in Seq(Message), q # <<>>
  PROVE  Names(q) = Names(Tail(q)) + (IF FirstOf(q).kind = "name" THEN 1 ELSE 0)
<1> HIDE DEF Message
<1> DEFINE t == Tail(q)
           T == {k \in DOMAIN t : t[k].kind = "name"}
           U == {k \in DOMAIN q : q[k].kind = "name"}
           V == U \ {1}
           shift == [k \in T |-> k + 1]
<1>1. /\ t \in Seq(Message) /\ Len(q) \in Nat \ {0} /\ Len(t) = Len(q) - 1
      /\ DOMAIN q = 1 .. Len(q) /\ DOMAIN t = 1 .. Len(q) - 1
      /\ \A k \in 1 .. Len(q) - 1 : t[k] = q[k + 1]
  BY EndsOfTail
<1>2. IsFiniteSet(T) /\ IsFiniteSet(U) /\ Names(q) = Cardinality(U) /\ Names(t) = Cardinality(T)
      /\ Cardinality(U) \in Nat /\ Cardinality(T) \in Nat
  BY <1>1, NamesType DEF Names
<1>3. shift \in [T -> V]
  BY <1>1
<1>4. \A k, l \in T : shift[k] = shift[l] => k = l
  BY <1>1
<1>5. \A v \in V : \E k \in T : shift[k] = v
  <2> SUFFICES ASSUME NEW v \in V PROVE \E k \in T : shift[k] = v
    OBVIOUS
  <2>1. v - 1 \in 1 .. Len(q) - 1 /\ (v - 1) + 1 = v
    BY <1>1
  <2>2. v - 1 \in T
    BY <1>1, <2>1
  <2> QED
    BY <2>1, <2>2
<1>6. ExistsBijection(T, V)
  <2>1. shift \in Injection(T, V) /\ shift \in Surjection(T, V)
    BY <1>3, <1>4, <1>5, Fun_IsInj, Fun_IsSurj
  <2> QED
    BY <2>1 DEF ExistsBijection, Bijection
<1>7. Cardinality(V) = Cardinality(T)
  BY <1>2, <1>6, FS_Bijection
<1>8. Cardinality(V) = IF 1 \in U THEN Cardinality(U) - 1 ELSE Cardinality(U)
  BY <1>2, FS_RemoveElement
<1>9. 1 \in U <=> FirstOf(q).kind = "name"
  BY <1>1 DEF FirstOf
<1> HIDE DEF T, U, V, t, shift
<1> QED
  BY <1>2, <1>7, <1>8, <1>9 DEF t

-----------------------------------------------------------------------------
(* What a step does to the streams *)

\* The client takes the first field of everything on its way.
LEMMA TakesFirst ==
  ASSUME TypeOK, toCli # <<>>, toCli' = Tail(toCli), UNCHANGED <<out, spc, sleft>>
  PROVE  /\ Incoming \in Seq(Message) /\ Incoming' \in Seq(Message) /\ Incoming # <<>>
         /\ Head(toCli) = FirstOf(Incoming) /\ Head(toCli) \in Fields(Incoming)
         /\ Fields(Incoming') \subseteq Fields(Incoming)
         /\ Coming \in Nat /\ Coming' \in Nat
         /\ Coming = Coming' + (IF Head(toCli).kind = "name" THEN 1 ELSE 0)
<1> HIDE DEF Message
<1>1. toCli \in Seq(Message) /\ out \in Seq(Message) /\ sleft \in Nat
  BY DEF TypeOK, LinkTypeOK, ServerTypeOK
<1>2. /\ Incoming \in Seq(Message) /\ Incoming # <<>> /\ FirstOf(Incoming) = Head(toCli)
      /\ Incoming' = Tail(Incoming)
  BY <1>1, AfterRead DEF Incoming
<1>3. /\ Incoming' \in Seq(Message) /\ Head(Incoming) = FirstOf(Incoming)
      /\ Head(Incoming) \in Fields(Incoming) /\ Fields(Incoming') \subseteq Fields(Incoming)
  BY <1>2, FieldsOfTail, EndsOfTail
<1>4. Names(Incoming) = Names(Incoming') + (IF FirstOf(Incoming).kind = "name" THEN 1 ELSE 0)
  BY <1>2, NamesOfTail
<1>5. Names(Incoming) \in Nat /\ Names(Incoming') \in Nat
  BY <1>2, <1>3, NamesType
<1>6. Coming = Names(Incoming) + (IF spc = "sendFiles" THEN sleft ELSE 0)
      /\ Coming' = Names(Incoming') + (IF spc = "sendFiles" THEN sleft ELSE 0)
  BY DEF Coming
<1>7. Names(Incoming) = Names(Incoming') + (IF Head(toCli).kind = "name" THEN 1 ELSE 0)
  BY <1>2, <1>4
<1>8. /\ Coming \in Nat /\ Coming' \in Nat
      /\ Coming = Coming' + (IF Head(toCli).kind = "name" THEN 1 ELSE 0)
  BY <1>1, <1>5, <1>6, <1>7
<1> QED
  BY <1>2, <1>3, <1>8

\* The fields of two streams, one after the other.
LEMMA FieldsOfConcat ==
  ASSUME NEW p \in Seq(Message), NEW q \in Seq(Message)
  PROVE  Fields(p \o q) = Fields(p) \cup Fields(q)
<1> HIDE DEF Message
<1>0. /\ p \o q \in Seq(Message) /\ Len(p \o q) = Len(p) + Len(q)
      /\ \A i \in 1 .. Len(p) + Len(q) : (p \o q)[i] = IF i <= Len(p) THEN p[i] ELSE q[i - Len(p)]
  BY ConcatProperties
<1>1. /\ DOMAIN p = 1 .. Len(p) /\ DOMAIN q = 1 .. Len(q) /\ Len(p) \in Nat /\ Len(q) \in Nat
      /\ DOMAIN (p \o q) = 1 .. Len(p) + Len(q)
      /\ \A i \in 1 .. Len(p) + Len(q) : (p \o q)[i] = IF i <= Len(p) THEN p[i] ELSE q[i - Len(p)]
  BY <1>0, LenProperties
<1>2. \A i \in 1 .. Len(p) : i \in 1 .. Len(p) + Len(q) /\ (p \o q)[i] = p[i]
  BY <1>1
<1>3. \A i \in 1 .. Len(q) : Len(p) + i \in 1 .. Len(p) + Len(q) /\ (p \o q)[Len(p) + i] = q[i]
  <2> SUFFICES ASSUME NEW i \in 1 .. Len(q)
               PROVE  Len(p) + i \in 1 .. Len(p) + Len(q) /\ (p \o q)[Len(p) + i] = q[i]
    OBVIOUS
  <2>1. Len(p) + i \in 1 .. Len(p) + Len(q) /\ ~(Len(p) + i <= Len(p)) /\ Len(p) + i - Len(p) = i
    BY <1>1
  <2> QED
    BY <1>1, <2>1
<1>4. \A i \in 1 .. Len(p) + Len(q) :
         \/ i \in 1 .. Len(p) /\ (p \o q)[i] = p[i]
         \/ i - Len(p) \in 1 .. Len(q) /\ (p \o q)[i] = q[i - Len(p)]
  BY <1>1
<1>5. ASSUME NEW m \in Fields(p \o q) PROVE m \in Fields(p) \cup Fields(q)
  <2>1. PICK i \in 1 .. Len(p) + Len(q) : m = (p \o q)[i]
    BY <1>1 DEF Fields
  <2> QED
    BY <1>1, <1>4, <2>1 DEF Fields
<1>6. ASSUME NEW m \in Fields(p) PROVE m \in Fields(p \o q)
  <2>1. PICK i \in 1 .. Len(p) : m = p[i]
    BY <1>1 DEF Fields
  <2> QED
    BY <1>1, <1>2, <2>1 DEF Fields
<1>7. ASSUME NEW m \in Fields(q) PROVE m \in Fields(p \o q)
  <2>1. PICK i \in 1 .. Len(q) : m = q[i]
    BY <1>1 DEF Fields
  <2> QED
    BY <1>1, <1>3, <2>1 DEF Fields
<1> QED
  BY <1>5, <1>6, <1>7

\* Nothing that is on its way is garbled or lost while the client listens.
LEMMA WritesFirst ==
  ASSUME Faults = {}, TypeOK, ServerWrites
  PROVE  /\ Fields(Incoming') \subseteq Fields(Incoming)
         /\ cliOpen => Incoming' = Incoming
<1> HIDE DEF Message
<1>1. toCli \in Seq(Message) /\ out \in Seq(Message) /\ out # <<>> /\ out' = Tail(out)
  BY DEF TypeOK, LinkTypeOK, ServerTypeOK, ServerWrites
<1> DEFINE h == Head(out)
<1>2. toCli' = IF cliOpen THEN Append(toCli, h) ELSE toCli
  BY DEF ServerWrites
<1>3. /\ h \in Message /\ h = out[1] /\ Tail(out) \in Seq(Message) /\ Len(out) \in Nat \ {0} /\ Len(Tail(out)) = Len(out) - 1
      /\ \A i \in 1 .. Len(out) - 1 : Tail(out)[i] = out[i + 1]
      /\ Len(toCli) \in Nat /\ Fields(Tail(out)) \subseteq Fields(out)
  BY <1>1, EndsOfTail, FieldsOfTail, LenProperties DEF FirstOf
<1>4. /\ Append(toCli, h) \in Seq(Message) /\ Len(Append(toCli, h)) = Len(toCli) + 1
      /\ Append(toCli, h)[Len(toCli) + 1] = h
      /\ \A i \in 1 .. Len(toCli) : Append(toCli, h)[i] = toCli[i]
  BY <1>1, <1>3, AppendProperties
<1>5. \A p, q \in Seq(Message) :
         /\ p \o q \in Seq(Message) /\ Len(p \o q) = Len(p) + Len(q)
         /\ \A i \in 1 .. Len(p) + Len(q) : (p \o q)[i] = IF i <= Len(p) THEN p[i] ELSE q[i - Len(p)]
  BY ConcatProperties
<1>6. \A p, q \in Seq(Message) : Fields(p \o q) = Fields(p) \cup Fields(q)
  BY FieldsOfConcat
<1>7. CASE cliOpen
  <2> DEFINE s == toCli \o out
             t == Append(toCli, h) \o Tail(out)
  <2>1. /\ s \in Seq(Message) /\ Len(s) = Len(toCli) + Len(out)
        /\ \A i \in 1 .. Len(toCli) + Len(out) : s[i] = IF i <= Len(toCli) THEN toCli[i] ELSE out[i - Len(toCli)]
    BY <1>1, <1>5
  <2>2. /\ t \in Seq(Message) /\ Len(t) = Len(toCli) + 1 + (Len(out) - 1)
        /\ \A i \in 1 .. Len(toCli) + 1 + (Len(out) - 1) :
              t[i] = IF i <= Len(toCli) + 1 THEN Append(toCli, h)[i] ELSE Tail(out)[i - (Len(toCli) + 1)]
    BY <1>3, <1>4, <1>5
  <2> HIDE DEF s, t, h
  <2>3. Len(t) = Len(s) /\ Len(s) \in Nat
    BY <1>3, <2>1, <2>2
  <2>4. ASSUME NEW i \in 1 .. Len(s) PROVE s[i] = t[i]
    <3>0. i \in 1 .. Len(toCli) + Len(out) /\ i \in 1 .. Len(toCli) + 1 + (Len(out) - 1)
      BY <1>3, <2>1, <2>2, <2>3
    <3>1. CASE i <= Len(toCli)
      BY <1>3, <1>4, <2>1, <2>2, <3>0, <3>1
    <3>2. CASE i = Len(toCli) + 1
      <4>1. i - Len(toCli) = 1 /\ ~(i <= Len(toCli)) /\ i <= Len(toCli) + 1
        BY <1>3, <3>2
      <4>2. s[i] = out[1] /\ t[i] = Append(toCli, h)[i]
        BY <2>1, <2>2, <3>0, <4>1
      <4> QED
        BY <1>3, <1>4, <3>2, <4>2
    <3>3. CASE i > Len(toCli) + 1
      <4>1. /\ t[i] = Tail(out)[i - (Len(toCli) + 1)] /\ s[i] = out[i - Len(toCli)]
            /\ i - (Len(toCli) + 1) \in 1 .. Len(out) - 1 /\ (i - (Len(toCli) + 1)) + 1 = i - Len(toCli)
        BY <1>3, <2>1, <2>2, <3>0, <3>3
      <4> QED
        BY <1>3, <4>1
    <3> QED
      BY <1>3, <3>0, <3>1, <3>2, <3>3
  <2>5. s = t
    BY <2>1, <2>2, <2>3, <2>4, SeqEqual
  <2>6. Incoming = s /\ Incoming' = t
    BY <1>1, <1>2, <1>7 DEF Incoming, s, t
  <2> QED
    BY <2>5, <2>6
<1>8. CASE ~cliOpen
  <2>1. Incoming' = toCli \o Tail(out)
    BY <1>1, <1>2, <1>8 DEF Incoming
  <2> QED
    BY <1>1, <1>3, <1>6, <1>8, <2>1 DEF Incoming
<1> QED
  BY <1>7, <1>8

\* The client adds a field to the stream to the server.
LEMMA AddsField ==
  ASSUME TypeOK, NEW m \in Message, toSrv' = Append(toSrv, m)
  PROVE  /\ toSrv' \in Seq(Message) /\ toSrv' # <<>> /\ LastOf(toSrv') = m
         /\ Fields(toSrv') = Fields(toSrv) \cup {m}
         /\ Names(toSrv) \in Nat /\ Names(toSrv') \in Nat
         /\ Names(toSrv') = Names(toSrv) + (IF m.kind = "name" THEN 1 ELSE 0)
<1>1. toSrv \in Seq(Message)
  BY DEF TypeOK, LinkTypeOK
<1> QED
  BY <1>1, EndsOfAppend, FieldsOfAppend, NamesOfAppend, NamesType

-----------------------------------------------------------------------------
(* The client's steps *)

\* Without faults a read or a write only fails when the other side has closed.
LEMMA NoFaults ==
  ASSUME Faults = {}
  PROVE  /\ ~LocalFault /\ "timeout" \notin Faults /\ "garbage" \notin Faults /\ "crash" \notin Faults
         /\ ClientReadFails => toCli = <<>> /\ ~srvOpen /\ UNCHANGED <<toSrv, toCli>>
         /\ ClientWriteFails => ~srvOpen /\ UNCHANGED <<toSrv, toCli>>
         /\ AwaitOver => ~srvOpen \/ toCli # <<>>
  BY DEF LocalFault, ClientReadFails, ClientWriteFails, AwaitOver

\* Steps at which nothing more is read or written.
Settled == {"storeText", "cutReceived", "returned", "done"}

\* What is left to show when the client neither reads nor writes any more.
LEMMA Settles ==
  ASSUME DeliveryInv, UNCHANGED <<serverVars, req>>,
         pc' \in Settled, Told',
         pc' # "done" => pc # "start" /\ pc # "done" /\ srvOpen' = srvOpen,
         pc' \in {"storeText", "cutReceived"} => ver' # 0,
         Fields(Incoming') \subseteq Fields(Incoming),
         toSrv' # <<>> => LastOf(toSrv').kind # "name"
  PROVE  DeliveryInv'
<1>1. Connection'
  BY DEF DeliveryInv, Connection, Settled, Acks, Closes, serverVars
<1>2. Sound'
  <2>1. \A m \in Fields(Incoming') :
           /\ m.kind = "ack" => m.val = "ok"
           /\ m.kind = "name" => req.method = "GET_FILE"
           /\ m.kind = "body" /\ req.method \in Pictures => m.val = "file"
    BY DEF DeliveryInv, Sound
  <2>2. pc' \notin {"readMethodStatus", "getCount"} /\ pc' \notin SendsFiles
    BY DEF Settled, SendsFiles
  <2> QED
    BY <2>1, <2>2 DEF Sound
<1>3. Uploads'
  BY DEF DeliveryInv, Uploads, Settled, SendsText, SendsFiles, Granted
<1>4. Downloads'
  BY DEF DeliveryInv, Downloads, Settled, Gives, Acks, Closes, Granted, serverVars
<1> QED
  BY <1>1, <1>2, <1>3, <1>4 DEF DeliveryInv

\* A request that fails is not told to be OK.
LEMMA Quits ==
  ASSUME DeliveryInv, UNCHANGED <<serverVars, req>>,
         pc \notin {"start", "done"}, pc' = "returned", ret' = "FAILURE",
         req.entry = "web" => ans' # "OK", srvOpen' = srvOpen,
         Fields(Incoming') \subseteq Fields(Incoming),
         toSrv' # <<>> => LastOf(toSrv').kind # "name"
  PROVE  DeliveryInv'
<1>1. Told'
  BY DEF Told, Over
<1> QED
  BY <1>1, Settles DEF Settled

\* The callback comes first at these steps.
LEMMA Unanswered ==
  ASSUME DeliveryInv, pc \notin {"readFilesAck", "closeSentFiles", "cutReceived", "ackInfo", "closeInfo",
                                 "returned", "done"}
  PROVE  /\ req.entry = "web" => ans = "none"
         /\ \A code : FirstAnswer(code) = IF req.entry = "web" THEN code ELSE ans
  BY DEF DeliveryInv, Told, Over, FirstAnswer

\* A read or write that fails, or a value that is refused, ends the request.
LEMMA Refuses ==
  ASSUME DeliveryInv, UNCHANGED <<serverVars, req, toSrv>>,
         pc \notin {"start", "readFilesAck", "closeSentFiles", "cutReceived", "ackInfo", "closeInfo",
                    "returned", "done"},
         NEW code, code # "OK", Fail(code) \/ FailSilently, srvOpen' = srvOpen,
         Fields(Incoming') \subseteq Fields(Incoming)
  PROVE  DeliveryInv'
<1>1. req.entry = "web" => ans' # "OK"
  BY Unanswered DEF Fail, Return, FailSilently
<1>2. pc' = "returned" /\ ret' = "FAILURE"
  BY DEF Fail, Return, FailSilently
<1>3. toSrv' # <<>> => LastOf(toSrv').kind # "name"
  BY DEF DeliveryInv, Uploads
<1> QED
  BY <1>1, <1>2, <1>3, Quits

\* Steps before a method is granted.
Early == {"sendVersion", "readStatus", "readOffer", "acceptOffer", "sendMethod", "readMethodStatus"}

\* What is to show as long as nothing is granted.
LEMMA Proceeds ==
  ASSUME DeliveryInv, UNCHANGED <<serverVars, req, ans, ret>>,
         pc \in Early \cup {"start"}, pc' \in Early, srvOpen' \/ (pc # "start" /\ srvOpen' = srvOpen),
         pc' \in {"acceptOffer", "sendMethod", "readMethodStatus"} => ver' # 0,
         Fields(Incoming') \subseteq Fields(Incoming),
         pc' = "readMethodStatus" => Incoming' = <<>>,
         toSrv' # <<>> => LastOf(toSrv').kind # "name"
  PROVE  DeliveryInv'
<1>1. Connection'
  BY DEF DeliveryInv, Connection, Early, Acks, Closes, serverVars
<1>2. ~Granted'
  BY DEF Granted
<1>3. pc' \notin SendsText \cup SendsFiles \cup Gives \cup Acks \cup Closes \cup Settled
      /\ pc' \notin {"sendText", "sendCount", "getCount", "readDisplayStatus"}
  BY DEF Early, SendsText, SendsFiles, Gives, Acks, Closes, Settled
<1>4. Sound'
  <2>1. \A m \in Fields(Incoming') :
           /\ m.kind = "ack" => m.val = "ok"
           /\ m.kind = "name" => req.method = "GET_FILE"
           /\ m.kind = "body" /\ req.method \in Pictures => m.val = "file"
    BY DEF DeliveryInv, Sound
  <2>2. pc' = "readMethodStatus" => Fields(Incoming') = {}
    BY FieldsOfEmpty
  <2> QED
    BY <1>3, <2>1, <2>2 DEF Sound
<1>5. Uploads'
  BY <1>2, <1>3 DEF Uploads, SendsText, SendsFiles
<1>6. Downloads'
  BY <1>2, <1>3 DEF DeliveryInv, Downloads, Gives, Acks, Closes, serverVars
<1>7. Told'
  BY <1>3 DEF DeliveryInv, Told, Over, Early, Acks, Closes, Settled
<1> QED
  BY <1>1, <1>4, <1>5, <1>6, <1>7 DEF DeliveryInv

\* The connection, and the negotiation of the version.
LEMMA NegotiationDelivers ==
  ASSUME Faults = {}, Known, DeliveryInv, UNCHANGED serverVars,
         \/ NotStarted \/ Connect \/ SendVersion \/ ReadStatus \/ ReadOffer \/ AcceptOffer \/ SendMethod
  PROVE  DeliveryInv'
<1>a. /\ TypeOK /\ UNCHANGED <<spc, sleft, out, got>>
      /\ toSrv \in Seq(Message) /\ toCli \in Seq(Message)
      /\ req.max \in Nat \ {0} /\ req.min \in Nat \ {0} /\ ver \in Nat /\ req.method \in MethodSet
  BY RequestsAssumption, VersionAssumption
     DEF Known, TypeOK, LinkTypeOK, ClientTypeOK, Request, NegotiationInv, serverVars
<1>b. toSrv # <<>> => LastOf(toSrv).kind # "name"
  BY DEF DeliveryInv, Uploads
<1>c. UNCHANGED <<toCli>> => Fields(Incoming') \subseteq Fields(Incoming) /\ Incoming' = Incoming
  BY <1>a DEF Incoming
<1>d. ASSUME toCli # <<>>, toCli' = Tail(toCli) PROVE Fields(Incoming') \subseteq Fields(Incoming)
  BY <1>a, <1>d, TakesFirst
<1>e. /\ \A n \in Nat : NumMsg("version", n) \in Message /\ NumMsg("answer", n) \in Message
      /\ \A n : NumMsg("version", n).kind = "version" /\ NumMsg("answer", n).kind = "answer"
      /\ \A m \in MethodSet : Msg("method", m) \in Message
      /\ \A m : Msg("method", m).kind = "method"
  BY ClientMessages DEF Msg, NumMsg
<1>f. ASSUME NEW m \in Message, m.kind # "name", toSrv' = IF srvOpen THEN Append(toSrv, m) ELSE toSrv
      PROVE  toSrv' # <<>> => LastOf(toSrv').kind # "name"
  BY <1>a, <1>b, <1>f, AddsField
<1>g. /\ pc \in {"acceptOffer", "sendMethod"} => ver # 0
      /\ pc = "sendMethod" => Incoming = <<>>
  BY ClientTables DEF Known, FramingInv, ReceivedInOrder, Listening, Talks, DeliveryInv, Connection
<1>h. \A code : code # "OK" /\ (Fail(code) \/ FailSilently) => pc' = "returned"
  BY DEF Fail, Return, FailSilently
<1>1. CASE NotStarted
  <2>1. Fields(Incoming') \subseteq Fields(Incoming) /\ toSrv' = toSrv
    BY <1>1, <1>c DEF NotStarted, linkVars
  <2>2. pc' = "done" /\ ret' = "FAILURE" /\ req' = req
    BY <1>1 DEF NotStarted
  <2>3. pc = "start"
    BY <1>1 DEF NotStarted
  <2>4. req.entry = "web" => ans' \in {"NO_DATA", "INVALID_ADDRESS", "CONNECTION_FAILURE"}
    BY <1>1, <2>3, Unanswered DEF NotStarted
  <2>5. Told'
    BY <2>2, <2>4 DEF Told, Over
  <2> QED
    BY <1>b, <2>1, <2>2, <2>5, Settles DEF Settled
<1>2. CASE Connect
  BY <1>2, <1>b, <1>c, Proceeds DEF Connect, GoTo, Early
<1>3. CASE SendVersion
  <2>1. CASE ClientWrites(NumMsg("version", req.max)) /\ GoTo("readStatus")
    BY <1>3, <2>1, <1>a, <1>c, <1>e, <1>f, Proceeds DEF SendVersion, ClientWrites, GoTo, Early
  <2>2. CASE ClientWriteFails /\ Fail("COMMUNICATION_FAILURE")
    BY <1>3, <2>2, <1>c, Refuses DEF SendVersion, ClientWriteFails
  <2> QED
    BY <1>3, <2>1, <2>2 DEF SendVersion
<1>4. CASE ReadStatus
  <2>1. CASE ClientReadFails /\ Fail("COMMUNICATION_FAILURE")
    BY <1>4, <2>1, <1>c, Refuses DEF ReadStatus, ClientReadFails
  <2>2. CASE ClientReads("status")
    <3>1. Fields(Incoming') \subseteq Fields(Incoming) /\ toSrv' = toSrv
      BY <2>2, <1>d DEF ClientReads
    <3>2. CASE \/ GoTo("sendMethod") /\ ver' = req.max
               \/ GoTo("readOffer")
      BY <1>4, <3>1, <3>2, <1>a, <1>b, Proceeds DEF ReadStatus, GoTo, Early
    <3>3. CASE Fail("VERSION_MISMATCH") \/ Fail("SERVER_ERROR")
      BY <1>4, <3>1, <3>3, Refuses DEF ReadStatus
    <3> QED
      BY <1>4, <2>1, <2>2, <3>2, <3>3 DEF ReadStatus
  <2> QED
    BY <1>4, <2>1, <2>2 DEF ReadStatus
<1>5. CASE ReadOffer
  <2>1. CASE ClientReadFails /\ Fail("COMMUNICATION_FAILURE")
    BY <1>5, <2>1, <1>c, Refuses DEF ReadOffer, ClientReadFails
  <2>2. CASE ClientReads("offer") /\ Acceptable(Head(toCli).num) /\ ver' = Head(toCli).num /\ GoTo("acceptOffer")
    <3>1. Fields(Incoming') \subseteq Fields(Incoming) /\ toSrv' = toSrv
      BY <2>2, <1>d DEF ClientReads
    <3>2. ver' # 0
      BY <1>a, <2>2 DEF Acceptable
    <3> QED
      BY <1>5, <2>2, <3>1, <3>2, <1>a, <1>b, Proceeds DEF ReadOffer, GoTo, Early
  <2>3. CASE /\ toCli # <<>> /\ toCli' = Tail(toCli) /\ Fail("VERSION_MISMATCH")
             /\ \/ toSrv' = IF srvOpen THEN Append(toSrv, NumMsg("answer", 0)) ELSE toSrv
                \/ "timeout" \in Faults /\ toSrv' = toSrv
    <3>1. Fields(Incoming') \subseteq Fields(Incoming)
      BY <2>3, <1>d
    <3>2. toSrv' # <<>> => LastOf(toSrv').kind # "name"
      BY <2>3, <1>b, <1>e, <1>f
    <3>3. /\ pc = "readOffer" /\ UNCHANGED <<req, srvOpen>> /\ pc' = "returned" /\ ret' = "FAILURE"
          /\ ans' = FirstAnswer("VERSION_MISMATCH")
      BY <1>5, <2>3 DEF ReadOffer, Fail, Return
    <3>4. req.entry = "web" => ans' # "OK"
      BY <3>3, Unanswered
    <3> QED
      BY <3>1, <3>2, <3>3, <3>4, Quits
  <2> QED
    BY <1>5, <2>1, <2>2, <2>3 DEF ReadOffer
<1>6. CASE AcceptOffer
  <2>1. CASE ClientWrites(NumMsg("answer", ver)) /\ GoTo("sendMethod")
    BY <1>6, <2>1, <1>a, <1>c, <1>e, <1>f, <1>g, Proceeds DEF AcceptOffer, ClientWrites, GoTo, Early
  <2>2. CASE ClientWriteFails /\ Fail("COMMUNICATION_FAILURE")
    BY <1>6, <2>2, <1>c, Refuses DEF AcceptOffer, ClientWriteFails
  <2> QED
    BY <1>6, <2>1, <2>2 DEF AcceptOffer
<1>7. CASE SendMethod
  <2>1. CASE ClientWrites(Msg("method", req.method)) /\ GoTo("readMethodStatus")
    BY <1>7, <2>1, <1>a, <1>c, <1>e, <1>f, <1>g, Proceeds DEF SendMethod, ClientWrites, GoTo, Early
  <2>2. CASE ClientWriteFails /\ Fail("COMMUNICATION_FAILURE")
    BY <1>7, <2>2, <1>c, Refuses DEF SendMethod, ClientWriteFails
  <2>3. CASE FailSilently /\ UNCHANGED <<toSrv, toCli>>
    <3>1. "NO_DATA" # "OK"
      OBVIOUS
    <3> QED
      BY <1>7, <2>3, <3>1, <1>c, Refuses DEF SendMethod
  <2> QED
    BY <1>7, <2>1, <2>2, <2>3 DEF SendMethod
<1> QED
  BY <1>1, <1>2, <1>3, <1>4, <1>5, <1>6, <1>7

\* What the client knows of a field it has read, and of what follows.
LEMMA TakesNext ==
  ASSUME Known, DeliveryInv, UNCHANGED <<serverVars, toSrv, req>>,
         pc \in Awaits \ {"readFilesAck"}, toCli # <<>>, toCli' = Tail(toCli)
  PROVE  /\ Incoming # <<>> /\ Head(toCli) = FirstOf(Incoming) /\ Head(toCli).kind = ClientExpects[pc]
         /\ Head(toCli) \in Fields(Incoming) /\ Fields(Incoming') \subseteq Fields(Incoming)
         /\ Coming \in Nat /\ Coming' \in Nat
         /\ Coming = Coming' + (IF Head(toCli).kind = "name" THEN 1 ELSE 0)
         /\ Incoming' = <<>> => toCli' = <<>>
         /\ Head(toCli).kind \notin {"status", "mstatus", "dstatus", "count", "name", "body"} => Incoming' = <<>>
         /\ Head(toCli).kind = "body" /\ Incoming' # <<>> => Coming' # 0 /\ req.method = "GET_FILE"
         /\ Incoming' = <<>> /\ spc # "sendFiles" => Coming' = 0
<1> HIDE DEF Message
<1>1. TypeOK /\ FramingInv /\ UNCHANGED <<out, spc, sleft>>
  BY DEF Known, serverVars
<1>2. /\ Incoming # <<>> /\ Head(toCli) = FirstOf(Incoming) /\ Head(toCli).kind = ClientExpects[pc]
      /\ Incoming' # <<>> => Continues(req.method, Head(toCli), FirstOf(Incoming'))
  BY <1>1, ClientReadsOn
<1>3. /\ Incoming \in Seq(Message) /\ Incoming' \in Seq(Message)
      /\ Head(toCli) \in Fields(Incoming) /\ Fields(Incoming') \subseteq Fields(Incoming)
      /\ Coming \in Nat /\ Coming' \in Nat
      /\ Coming = Coming' + (IF Head(toCli).kind = "name" THEN 1 ELSE 0)
  BY <1>1, TakesFirst
<1>4. Incoming' = <<>> => toCli' = <<>>
  <2>1. toCli' \in Seq(Message) /\ out \in Seq(Message)
    BY <1>1, EndsOfTail DEF TypeOK, LinkTypeOK, ServerTypeOK
  <2>2. toCli' # <<>> => toCli' \o out # <<>>
    BY <2>1, AfterRead
  <2> QED
    BY <1>1, <2>2 DEF Incoming
<1>5. Incoming' # <<>> => FirstOf(Incoming') \in Fields(Incoming')
  <2>1. Incoming' # <<>> => Head(Incoming') \in Fields(Incoming') /\ Head(Incoming') = FirstOf(Incoming')
    BY <1>3, FieldsOfTail, EndsOfTail
  <2> QED
    BY <2>1
<1>6. ASSUME Head(toCli).kind = "body", Incoming' # <<>> PROVE Coming' # 0 /\ req.method = "GET_FILE"
  <2>1. FirstOf(Incoming').kind = "name" /\ FirstOf(Incoming') \in Fields(Incoming')
    BY <1>2, <1>5, <1>6 DEF Continues
  <2>2. Names(Incoming') # 0 /\ Names(Incoming') \in Nat
    BY <1>3, <2>1, NamesType
  <2>3. sleft \in Nat
    BY <1>1 DEF TypeOK, ServerTypeOK
  <2>4. Coming' # 0
    BY <1>1, <2>2, <2>3 DEF Coming
  <2> QED
    BY <1>3, <2>1, <2>4 DEF DeliveryInv, Sound
<1>7. Incoming' = <<>> /\ spc # "sendFiles" => Coming' = 0
  BY <1>1, NamesOfEmpty DEF Coming
<1> QED
  BY <1>2, <1>3, <1>4, <1>6, <1>7 DEF Continues

\* Counts stay true, and nothing is garbled, while the client receives.
LEMMA StaysSound ==
  ASSUME DeliveryInv, req' = req, Fields(Incoming') \subseteq Fields(Incoming),
         pc' \in {"readMethodStatus", "getCount"} => pc = "readMethodStatus" /\ Coming' = Coming,
         pc' \notin SendsFiles
  PROVE  Sound'
  BY DEF DeliveryInv, Sound

\* Nothing is left where the client waits for the server to close.
LEMMA NothingLeft ==
  ASSUME TypeOK, Incoming = <<>>
  PROVE  toCli = <<>>
<1>1. toCli \in Seq(Message) /\ out \in Seq(Message)
  BY DEF TypeOK, LinkTypeOK, ServerTypeOK
<1>2. toCli # <<>> => toCli \o out # <<>>
  BY <1>1, AfterRead
<1> QED
  BY <1>2 DEF Incoming

\* The status of the method.
LEMMA MethodStatusDelivers ==
  ASSUME Faults = {}, Known, DeliveryInv, UNCHANGED serverVars, ReadMethodStatus
  PROVE  DeliveryInv'
<1>a. /\ pc = "readMethodStatus" /\ UNCHANGED <<req, ver, left, clip, disk, cliOpen, srvOpen>>
      /\ UNCHANGED <<srv, spc, sver, sleft, out, got, acked>> /\ req.method \in MethodSet
  BY RequestsAssumption DEF ReadMethodStatus, serverVars, Known, TypeOK, ClientTypeOK, Request
<1>1. CASE ClientReadFails /\ Fail("COMMUNICATION_FAILURE")
  <2>1. Fields(Incoming') \subseteq Fields(Incoming) /\ toSrv' = toSrv
    BY <1>1, <1>a DEF ClientReadFails, Incoming
  <2> QED
    BY <1>1, <1>a, <2>1, Refuses
<1>2. CASE ClientReads("mstatus") /\ Head(toCli).val = "ok" /\ GoTo(HandlerOf[req.method])
  <2>1. toCli # <<>> /\ toCli' = Tail(toCli) /\ toSrv' = toSrv /\ UNCHANGED <<ans, ret>>
    BY <1>2 DEF ClientReads, GoTo
  <2>2. /\ Incoming # <<>> /\ FirstOf(Incoming).val = "ok" /\ Head(toCli).kind = "mstatus"
        /\ Fields(Incoming') \subseteq Fields(Incoming)
        /\ Coming' = Coming
    BY <1>2, <1>a, <2>1, TakesNext, ClientTables
  <2>3. Granted
    BY <1>a, <2>2 DEF Granted
  <2>4. pc' = HandlerOf[req.method]
    BY <1>2 DEF GoTo
  <2>5. /\ pc' = "sendText" <=> req.method = "SEND_TEXT"
        /\ pc' = "sendCount" <=> req.method = "SEND_FILE"
        /\ pc' = "sendDisplay" <=> req.method = "GET_SCREENSHOT"
        /\ pc' \in {"sendText", "sendCount", "sendDisplay", "getText", "getCount", "getImage", "getInfo"}
    BY <1>a, <2>4, Handlers
  <2>6. Connection'
    BY <1>a, <2>5 DEF DeliveryInv, Connection, Acks, Closes
  <2>7. Sound'
    BY <1>a, <2>2, <2>5, StaysSound DEF SendsFiles
  <2>8. Uploads'
    BY <1>a, <2>1, <2>3, <2>5 DEF DeliveryInv, Uploads, SendsText, SendsFiles, Granted
  <2>9. Downloads'
    BY <1>a, <2>1, <2>3, <2>5 DEF DeliveryInv, Downloads, Gives, Acks, Closes, Sends, Granted, Dead
  <2>10. Told'
    BY <1>a, <2>1, <2>5 DEF DeliveryInv, Told, Over
  <2> QED
    BY <2>6, <2>7, <2>8, <2>9, <2>10 DEF DeliveryInv
<1>3. CASE ClientReads("mstatus") /\ \E code \in {"NO_DATA", "METHOD_NOT_ALLOWED", "SERVER_ERROR"} : Fail(code)
  <2>1. toCli # <<>> /\ toCli' = Tail(toCli) /\ toSrv' = toSrv
    BY <1>3 DEF ClientReads
  <2>2. Fields(Incoming') \subseteq Fields(Incoming)
    BY <1>a, <2>1, TakesNext, ClientTables
  <2> QED
    BY <1>3, <1>a, <2>1, <2>2, Refuses
<1> QED
  BY <1>1, <1>2, <1>3 DEF ReadMethodStatus

-----------------------------------------------------------------------------
(* Acknowledgements of what the client receives *)

\* The server waits for the acknowledgement.
LEMMA AckArrives ==
  ASSUME Faults = {}, Known, DeliveryInv, pc \in Acks
  PROVE  srvOpen /\ ~Dead /\ ~ClientWriteFails
<1>1. pc \notin {"start", "done"} /\ ver \in Nat
  BY DEF Acks, Known, TypeOK, ClientTypeOK
<1>2. ver >= 4 /\ (Dead => ver < 4)
  BY DEF DeliveryInv, Downloads
<1>3. ~Dead
  BY <1>1, <1>2
<1> QED
  BY <1>1, <1>3, NoFaults DEF DeliveryInv, Connection, Dead

\* It is sent when everything has been read.
LEMMA Acknowledges ==
  ASSUME Faults = {}, Known, DeliveryInv, UNCHANGED <<serverVars, req, ver, left, clip, disk, cliOpen, srvOpen>>,
         pc \in Acks, ClientWrites(Msg("ack", "ok")), UNCHANGED <<ans, ret>>,
         \/ pc = "ackText" /\ pc' = "closeText"
         \/ pc = "ackInfo" /\ pc' = "closeInfo"
         \/ pc = "ackReceived" /\ pc' = "closeReceived"
  PROVE  DeliveryInv'
<1>1. UNCHANGED <<toCli, spc, sleft, out, sver, got>>
  BY DEF ClientWrites, serverVars
<1>2. Incoming' = Incoming /\ Coming' = Coming
  BY <1>1 DEF Incoming, Coming
<1>3. ~Dead /\ srvOpen /\ toSrv' = Append(toSrv, Msg("ack", "ok"))
  BY AckArrives DEF ClientWrites
<1>4. LastOf(toSrv').kind # "name"
  <2>1. Msg("ack", "ok") \in Message /\ Msg("ack", "ok").kind = "ack"
    BY ClientMessages DEF Msg
  <2> QED
    BY <1>3, <2>1, AddsField DEF Known
<1>5. Connection'
  BY <1>1 DEF DeliveryInv, Connection, Acks, Closes
<1>6. Sound'
  BY <1>2, StaysSound DEF SendsFiles
<1>7. Uploads'
  BY <1>4 DEF Uploads, SendsText, SendsFiles, Granted
<1>8. Downloads'
  BY <1>1, <1>2, <1>3 DEF DeliveryInv, Downloads, Gives, Acks, Closes, Granted, Dead
<1>9. Told'
  BY <1>1 DEF DeliveryInv, Told, Over
<1> QED
  BY <1>5, <1>6, <1>7, <1>8, <1>9 DEF DeliveryInv

\* The client reads the last field it expects and, with version 4, goes on to
\* acknowledge it, or is done with the connection.
LEMMA ReadsLast ==
  ASSUME Known, DeliveryInv, UNCHANGED <<serverVars, req, ver, srvOpen, toSrv, ret>>,
         pc \in Gives, Incoming' = <<>>, Coming' = 0, Fields(Incoming') \subseteq Fields(Incoming),
         pc' \in Acks \cup Settled \cup {"place"}, pc' \in Acks => ver >= 4,
         pc' \in Acks \cup {"place"} => cliOpen',
         Told'
  PROVE  DeliveryInv'
<1>1. UNCHANGED <<spc, sleft, out, sver, got>>
  BY DEF serverVars
<1>2. toSrv # <<>> => LastOf(toSrv).kind # "name"
  BY DEF DeliveryInv, Uploads
<1>3. pc \notin {"start", "done"} /\ ver # 0
  BY DEF Gives, DeliveryInv, Connection
<1>4. CASE pc' \in Settled
  BY <1>1, <1>2, <1>3, <1>4, Settles
<1>5. CASE pc' \in Acks \cup {"place"}
  <2>1. Connection'
    BY <1>1, <1>3, <1>5 DEF DeliveryInv, Connection, Acks, Closes
  <2>2. Sound'
    BY <1>5, StaysSound DEF SendsFiles, Acks
  <2>3. Uploads'
    BY <1>2, <1>5 DEF Uploads, SendsText, SendsFiles, Granted, Acks
  <2>4. Downloads'
    BY <1>1, <1>5 DEF DeliveryInv, Downloads, Gives, Acks, Closes, Granted, Dead
  <2> QED
    BY <2>1, <2>2, <2>3, <2>4 DEF DeliveryInv
<1> QED
  BY <1>4, <1>5

\* The client closes after it has acknowledged.
LEMMA ClosesLast ==
  ASSUME Known, DeliveryInv, UNCHANGED <<serverVars, req, ver, srvOpen, toSrv, toCli>>,
         pc \in Closes \cup {"storeText", "cutReceived", "place"}, pc' \in Settled, pc' # "done", Told'
  PROVE  DeliveryInv'
<1>1. toSrv # <<>> => LastOf(toSrv).kind # "name"
  BY DEF DeliveryInv, Uploads
<1>2. pc \notin {"start", "done"} /\ ver # 0
  BY DEF Closes, DeliveryInv, Connection
<1>3. Incoming' = Incoming
  BY DEF Incoming, serverVars
<1> QED
  BY <1>1, <1>2, <1>3, Settles

-----------------------------------------------------------------------------
(* Text, information and images from the server *)

\* The steps that receive a text and store it keep the invariant.
LEMMA TextDelivers ==
  ASSUME Faults = {}, Known, DeliveryInv, UNCHANGED serverVars,
         GetText \/ AckText \/ CloseText \/ StoreText
  PROVE  DeliveryInv'
<1>a. ver \in Nat /\ UNCHANGED <<req, ver, left, disk, srvOpen, spc, out, sleft>>
  BY DEF Known, TypeOK, ClientTypeOK, serverVars, GetText, AckText, CloseText, StoreText, linkVars
<1>b. req.method = "GET_TEXT"
  BY DEF Known, OutcomeInv, Handling, GetText, AckText, CloseText, StoreText
<1>1. CASE GetText
  <2>a. pc = "getText" /\ clip' = clip
    BY <1>1 DEF GetText
  <2>1. CASE ClientReadFails /\ Fail("COMMUNICATION_FAILURE")
    <3>1. Fields(Incoming') \subseteq Fields(Incoming) /\ toSrv' = toSrv
      BY <2>1, <1>a DEF ClientReadFails, Incoming
    <3> QED
      BY <1>a, <2>1, <2>a, <3>1, Refuses
  <2>2. CASE ClientReads("text")
    <3>1. toCli # <<>> /\ toCli' = Tail(toCli) /\ toSrv' = toSrv
      BY <2>2 DEF ClientReads
    <3>2. Head(toCli).kind = "text" /\ Fields(Incoming') \subseteq Fields(Incoming)
          /\ Incoming' = <<>> /\ toCli' = <<>> /\ (spc # "sendFiles" => Coming' = 0)
      BY <1>a, <2>a, <3>1, TakesNext, ClientTables
    <3>3. Coming' = 0
      BY <1>b, <3>2 DEF DeliveryInv, Downloads
    <3>4. CASE Fail("DATA_ERROR")
      BY <1>a, <2>a, <3>1, <3>2, <3>4, Refuses
    <3>5. CASE GoTo(IF ver >= 4 THEN "ackText" ELSE "storeText") /\ cliOpen' = (ver >= 4)
      <4>1. UNCHANGED <<ans, ret>> /\ pc' = IF ver >= 4 THEN "ackText" ELSE "storeText"
        BY <3>5 DEF GoTo
      <4>2. Told'
        BY <1>a, <2>a, <3>2, <3>5, <4>1 DEF DeliveryInv, Told, Over
      <4>3. pc' \in Acks \cup Settled /\ pc' # "place" /\ (pc' \in Acks => ver >= 4 /\ cliOpen')
        BY <1>a, <3>5, <4>1 DEF Acks, Settled
      <4> QED
        <5>1. pc \in Gives
          BY <2>a DEF Gives
        <5>2. UNCHANGED <<serverVars, req, ver, srvOpen, toSrv, ret>>
          BY <1>a, <3>1, <4>1
        <5> QED
          BY <3>2, <3>3, <4>2, <4>3, <5>1, <5>2, ReadsLast
    <3> QED
      BY <1>1, <2>2, <3>1, <3>4, <3>5, NoFaults DEF GetText, ClientReadFails
  <2> QED
    BY <1>1, <2>1, <2>2 DEF GetText
<1>2. CASE AckText
  BY <1>2, <1>a, AckArrives, Acknowledges DEF AckText, Acks
<1>3. CASE CloseText
  <2>1. toCli = <<>>
    BY <1>3, NothingLeft DEF CloseText, DeliveryInv, Downloads, Closes, Known
  <2>2. Told'
    BY <1>3, <1>a, <2>1 DEF CloseText, GoTo, DeliveryInv, Told, Over
  <2> QED
    BY <1>3, <1>a, <2>2, ClosesLast DEF CloseText, GoTo, Closes, Settled
<1>4. CASE StoreText
  <2>1. pc = "storeText" /\ Return("OK", "SUCCESS") /\ clip' = TRUE /\ UNCHANGED linkVars
    BY <1>4, NoFaults DEF StoreText
  <2>2. Delivered'
    BY <1>a, <1>b, <2>1 DEF Delivered, Sends
  <2>3. Told'
    BY <1>a, <2>1, <2>2, Unanswered DEF DeliveryInv, Told, Over, Return, linkVars
  <2> QED
    BY <1>a, <2>1, <2>3, ClosesLast DEF Return, Settled, linkVars
<1> QED
  BY <1>1, <1>2, <1>3, <1>4

\* So do the steps that receive information and answer with it.
LEMMA InfoDelivers ==
  ASSUME Faults = {}, Known, DeliveryInv, UNCHANGED serverVars,
         GetInfo \/ AckInfo \/ CloseInfo
  PROVE  DeliveryInv'
<1>a. ver \in Nat /\ UNCHANGED <<req, ver, left, disk, clip, srvOpen, spc, out, sleft>>
  BY DEF Known, TypeOK, ClientTypeOK, serverVars, GetInfo, AckInfo, CloseInfo
<1>b. req.method = "INFO"
  BY DEF Known, OutcomeInv, Handling, GetInfo, AckInfo, CloseInfo
<1>c. Delivered'
  BY <1>a, <1>b DEF Delivered, Sends
<1>1. CASE GetInfo
  <2>a. pc = "getInfo"
    BY <1>1 DEF GetInfo
  <2>1. CASE ClientReadFails /\ Fail("COMMUNICATION_FAILURE")
    <3>1. Fields(Incoming') \subseteq Fields(Incoming) /\ toSrv' = toSrv
      BY <2>1, <1>a DEF ClientReadFails, Incoming
    <3> QED
      BY <1>a, <2>1, <2>a, <3>1, Refuses
  <2>2. CASE ClientReads("info") /\ cliOpen' = (ver >= 4)
    <3>1. toCli # <<>> /\ toCli' = Tail(toCli) /\ toSrv' = toSrv
      BY <2>2 DEF ClientReads
    <3>2. Head(toCli).kind = "info" /\ Fields(Incoming') \subseteq Fields(Incoming)
          /\ Incoming' = <<>> /\ toCli' = <<>> /\ (spc # "sendFiles" => Coming' = 0)
      BY <1>a, <2>a, <3>1, TakesNext, ClientTables
    <3>3. Coming' = 0
      BY <1>b, <3>2 DEF DeliveryInv, Downloads
    <3>4. CASE Fail("DATA_ERROR")
      BY <1>a, <2>a, <3>1, <3>2, <3>4, Refuses
    <3>5. CASE ver < 4 /\ Return("OK", "SUCCESS")
      <4>1. pc' = "returned" /\ ret' = "SUCCESS" /\ ~cliOpen' /\ (req.entry = "web" => ans' = "OK")
        <5>1. pc' = "returned" /\ ret' = "SUCCESS" /\ ans' = FirstAnswer("OK")
          BY <3>5 DEF Return
        <5>2. ~(ver >= 4)
          BY <1>a, <3>5
        <5> QED
          BY <2>2, <2>a, <5>1, <5>2, Unanswered
      <4>2. Told'
        BY <1>a, <1>c, <3>2, <4>1 DEF Told, Over
      <4>3. pc \notin {"start", "done"} /\ pc' \in Settled /\ pc' \notin {"storeText", "cutReceived", "done"}
        BY <2>a, <4>1 DEF Settled
      <4>4. toSrv # <<>> => LastOf(toSrv).kind # "name"
        BY DEF DeliveryInv, Uploads
      <4> QED
        BY <1>a, <3>1, <3>2, <4>2, <4>3, <4>4, Settles
    <3>6. CASE ver >= 4 /\ pc' = "ackInfo" /\ ans' = FirstAnswer("OK") /\ UNCHANGED ret
      <4>1. req.entry = "web" => ans' = "OK"
        BY <2>a, <3>6, Unanswered
      <4>2. Told'
        BY <1>a, <3>6, <4>1 DEF Told, Over
      <4>3. cliOpen'
        BY <2>2, <3>6
      <4> QED
        BY <1>a, <2>a, <3>1, <3>2, <3>3, <3>6, <4>2, <4>3, ReadsLast DEF Gives, Acks
    <3> QED
      BY <1>1, <2>2, <3>1, <3>4, <3>5, <3>6, NoFaults DEF GetInfo, ClientReadFails
  <2> QED
    BY <1>1, <2>1, <2>2 DEF GetInfo
<1>2. CASE AckInfo
  BY <1>2, <1>a, AckArrives, Acknowledges DEF AckInfo, Acks, GoTo
<1>3. CASE CloseInfo
  <2>1. toCli = <<>>
    BY <1>3, NothingLeft DEF CloseInfo, DeliveryInv, Downloads, Closes, Known
  <2>2. Told'
    BY <1>3, <1>a, <1>c, <2>1 DEF CloseInfo, DeliveryInv, Told, Over
  <2> QED
    BY <1>3, <1>a, <2>2, ClosesLast DEF CloseInfo, Closes, Settled
<1> QED
  BY <1>1, <1>2, <1>3

\* Images, and what follows once everything has been placed.
LEMMA ImagesDeliver ==
  ASSUME Faults = {}, Known, DeliveryInv, UNCHANGED serverVars,
         SendDisplay \/ ReadDisplayStatus \/ GetImage
  PROVE  DeliveryInv'
<1>a. ver \in Nat /\ UNCHANGED <<req, ver, left, clip, srvOpen, spc, out, sleft, sver, got>>
  BY DEF Known, TypeOK, ClientTypeOK, serverVars, SendDisplay, ReadDisplayStatus, GetImage
<1>b. req.method \in Pictures
  BY DEF Known, OutcomeInv, Handling, SendDisplay, ReadDisplayStatus, GetImage, Pictures
<1>1. CASE SendDisplay
  <2>a. pc = "sendDisplay" /\ UNCHANGED <<disk, cliOpen>>
    BY <1>1 DEF SendDisplay
  <2>1. CASE ClientWriteFails /\ Fail("COMMUNICATION_FAILURE")
    <3>1. Fields(Incoming') \subseteq Fields(Incoming) /\ toSrv' = toSrv
      BY <2>1, <1>a DEF ClientWriteFails, Incoming
    <3> QED
      BY <1>a, <2>1, <2>a, <3>1, Refuses
  <2>2. CASE ClientWrites(Msg("display", "ok")) /\ GoTo("readDisplayStatus")
    <3>1. UNCHANGED <<toCli, ans, ret>> /\ pc' = "readDisplayStatus"
      BY <2>2 DEF ClientWrites, GoTo
    <3>2. Incoming' = Incoming
      BY <1>a, <3>1 DEF Incoming
    <3>3. Incoming = <<>>
      BY <2>a, ClientTables DEF Known, FramingInv, ReceivedInOrder, Listening, Talks
    <3>4. toSrv' # <<>> => LastOf(toSrv').kind # "name"
      <4>1. Msg("display", "ok") \in Message /\ Msg("display", "ok").kind = "display"
        BY ClientMessages DEF Msg
      <4> QED
        BY <2>2, <4>1, AddsField DEF Known, ClientWrites, DeliveryInv, Uploads
    <3>5. Connection'
      BY <1>a, <2>a, <3>1 DEF DeliveryInv, Connection, Acks, Closes
    <3>6. Sound'
      BY <1>a, <3>1, <3>2, StaysSound DEF SendsFiles
    <3>7. Uploads'
      BY <3>1, <3>4 DEF Uploads, SendsText, SendsFiles, Granted
    <3>8. Downloads'
      BY <1>a, <3>1, <3>2, <3>3 DEF DeliveryInv, Downloads, Gives, Acks, Closes, Granted
    <3>9. Told'
      BY <1>a, <2>a, <3>1 DEF DeliveryInv, Told, Over
    <3> QED
      BY <3>5, <3>6, <3>7, <3>8, <3>9 DEF DeliveryInv
  <2> QED
    BY <1>1, <2>1, <2>2 DEF SendDisplay
<1>2. CASE ReadDisplayStatus
  <2>a. pc = "readDisplayStatus" /\ UNCHANGED <<disk, cliOpen>>
    BY <1>2 DEF ReadDisplayStatus
  <2>1. CASE ClientReadFails /\ Fail("COMMUNICATION_FAILURE")
    <3>1. Fields(Incoming') \subseteq Fields(Incoming) /\ toSrv' = toSrv
      BY <2>1, <1>a DEF ClientReadFails, Incoming
    <3> QED
      BY <1>a, <2>1, <2>a, <3>1, Refuses
  <2>2. CASE ClientReads("dstatus")
    <3>1. toCli # <<>> /\ toCli' = Tail(toCli) /\ toSrv' = toSrv
      BY <2>2 DEF ClientReads
    <3>2. Incoming # <<>> /\ Head(toCli) = FirstOf(Incoming) /\ Fields(Incoming') \subseteq Fields(Incoming)
      BY <1>a, <2>a, <3>1, TakesNext, ClientTables
    <3>3. CASE Fail("NO_DATA")
      BY <1>a, <2>a, <3>1, <3>2, <3>3, Refuses
    <3>4. CASE Head(toCli).val = "ok" /\ GoTo("getImage")
      <4>1. pc' = "getImage" /\ UNCHANGED <<ans, ret>>
        BY <3>4 DEF GoTo
      <4>2. IF Dead THEN ver < 4 ELSE spc \in {"sendFiles", "ack"}
        BY <2>a, <3>2, <3>4 DEF DeliveryInv, Downloads
      <4>3. Connection'
        BY <1>a, <2>a, <4>1 DEF DeliveryInv, Connection, Acks, Closes
      <4>4. Sound'
        BY <1>a, <3>2, <4>1, StaysSound DEF SendsFiles
      <4>5. Uploads'
        BY <3>1, <4>1 DEF DeliveryInv, Uploads, SendsText, SendsFiles, Granted
      <4>6. Downloads'
        BY <1>a, <4>1, <4>2 DEF DeliveryInv, Downloads, Acks, Closes, Dead
      <4>7. Told'
        BY <1>a, <2>a, <4>1 DEF DeliveryInv, Told, Over
      <4> QED
        BY <4>3, <4>4, <4>5, <4>6, <4>7 DEF DeliveryInv
    <3> QED
      BY <1>2, <2>2, <3>1, <3>3, <3>4, NoFaults DEF ReadDisplayStatus, ClientReadFails
  <2> QED
    BY <1>2, <2>1, <2>2 DEF ReadDisplayStatus
<1>3. CASE GetImage
  <2>a. pc = "getImage"
    BY <1>3 DEF GetImage
  <2>1. CASE ClientReadFails /\ Fail("COMMUNICATION_FAILURE")
    <3>1. Fields(Incoming') \subseteq Fields(Incoming) /\ toSrv' = toSrv
      BY <2>1, <1>a DEF ClientReadFails, Incoming
    <3> QED
      BY <1>a, <2>1, <2>a, <3>1, Refuses
  <2>2. CASE ClientReads("body")
    <3>1. toCli # <<>> /\ toCli' = Tail(toCli) /\ toSrv' = toSrv
      BY <2>2 DEF ClientReads
    <3>2. /\ Head(toCli).kind = "body" /\ Head(toCli) \in Fields(Incoming)
          /\ Fields(Incoming') \subseteq Fields(Incoming)
          /\ Incoming' # <<>> => req.method = "GET_FILE"
          /\ Incoming' = <<>> => toCli' = <<>> /\ (spc # "sendFiles" => Coming' = 0)
      BY <1>a, <2>a, <3>1, TakesNext, ClientTables
    <3>3. req.method \notin {"GET_FILE"} \cup Sends \cup {"GET_TEXT", "INFO"}
      BY <1>b DEF Pictures, Images, Sends
    <3>4. Incoming' = <<>> /\ toCli' = <<>> /\ Coming' = 0
      BY <3>2, <3>3 DEF DeliveryInv, Downloads
    <3>5. CASE Fail("DATA_ERROR")
      BY <1>a, <2>a, <3>1, <3>2, <3>5, Refuses
    <3>6. CASE /\ disk' = IF Head(toCli).val = "dir" THEN "directory" ELSE "placed"
               /\ \/ ver >= 4 /\ GoTo("ackReceived") /\ UNCHANGED cliOpen
                  \/ ver < 4 /\ Received /\ cliOpen' = FALSE
      <4>1. Head(toCli).val = "file"
        BY <1>b, <3>2 DEF DeliveryInv, Sound
      <4>2. disk' = "placed"
        BY <3>6, <4>1
      <4>3. CASE ver >= 4 /\ GoTo("ackReceived") /\ UNCHANGED cliOpen
        <5>1. pc' = "ackReceived" /\ UNCHANGED <<ans, ret>>
          BY <4>3 DEF GoTo
        <5>2. cliOpen
          BY <2>a, ClientTables DEF Known, FramingInv, Turns, Listening
        <5>3. Told'
          BY <1>a, <2>a, <4>2, <5>1 DEF DeliveryInv, Told, Over
        <5> QED
          BY <1>a, <2>a, <3>1, <3>2, <3>4, <4>3, <5>1, <5>2, <5>3, ReadsLast DEF Gives, Acks
      <4>4. CASE ver < 4 /\ Received /\ cliOpen' = FALSE
        <5>1. pc' = "cutReceived" /\ (req.entry = "web" => ans' = "OK") /\ UNCHANGED ret
          BY <2>a, <4>4, Unanswered, NoFaults DEF Received
        <5>2. Told'
          BY <1>a, <2>a, <3>4, <4>2, <4>4, <5>1 DEF DeliveryInv, Told, Over
        <5> QED
          BY <1>a, <2>a, <3>1, <3>2, <3>4, <5>1, <5>2, ReadsLast DEF Gives, Acks, Settled
      <4> QED
        BY <3>6, <4>3, <4>4
    <3> QED
      BY <1>3, <2>2, <3>1, <3>5, <3>6, NoFaults DEF GetImage, ClientReadFails
  <2> QED
    BY <1>3, <2>1, <2>2 DEF GetImage
<1> QED
  BY <1>1, <1>2, <1>3


-----------------------------------------------------------------------------
(* Files from the server *)

\* The count, the names and the bodies are read one by one: as many as are left
\* are still to come.
LEMMA FilesArrive ==
  ASSUME Faults = {}, Known, DeliveryInv, UNCHANGED serverVars,
         GetCount \/ GetName \/ GetBody
  PROVE  DeliveryInv'
<1>a. /\ ver \in Nat /\ left \in Nat
      /\ UNCHANGED <<req, ver, clip, cliOpen, srvOpen, spc, out, sleft, sver, got>>
  BY DEF Known, TypeOK, ClientTypeOK, serverVars, GetCount, GetName, GetBody
<1>b. req.method = "GET_FILE"
  BY DEF Known, OutcomeInv, Handling, GetCount, GetName, GetBody
<1>c. cliOpen /\ pc \in Gives /\ pc \notin {"start", "done"}
  BY ClientTables DEF Known, FramingInv, Turns, Listening, GetCount, GetName, GetBody, Gives
<1>d. IF Dead THEN ver < 4 ELSE spc \in {"sendFiles", "ack"}
  BY <1>c DEF DeliveryInv, Downloads
<1>e. ASSUME UNCHANGED <<toSrv, toCli>>, Fail("COMMUNICATION_FAILURE") PROVE DeliveryInv'
  <2>1. Fields(Incoming') \subseteq Fields(Incoming)
    BY <1>e, <1>a DEF Incoming
  <2> QED
    BY <1>a, <1>c, <1>e, <2>1, Refuses DEF Gives
\* What holds of the next file, and of the one after it.
<1>f. ASSUME UNCHANGED <<toSrv, ans, ret>>, Fields(Incoming') \subseteq Fields(Incoming),
             \/ pc' = "getName" /\ left' = Coming'
             \/ pc' = "getBody" /\ left' = Coming' + 1
      PROVE  DeliveryInv'
  <2>1. Connection'
    BY <1>a, <1>c, <1>f DEF DeliveryInv, Connection, Acks, Closes, Gives
  <2>2. Sound'
    BY <1>a, <1>f, StaysSound DEF SendsFiles
  <2>3. Uploads'
    BY <1>f DEF DeliveryInv, Uploads, SendsText, SendsFiles, Granted
  <2>4. Downloads'
    BY <1>a, <1>b, <1>d, <1>f DEF Downloads, Acks, Closes, Dead
  <2>5. Told'
    BY <1>a, <1>c, <1>f DEF DeliveryInv, Told, Over, Gives
  <2> QED
    BY <2>1, <2>2, <2>3, <2>4, <2>5 DEF DeliveryInv
<1>1. CASE GetCount
  <2>a. pc = "getCount"
    BY <1>1 DEF GetCount
  <2>1. CASE ClientReadFails
    BY <1>1, <1>e, <2>1, NoFaults DEF GetCount, ClientReads
  <2>2. CASE ClientReads("count")
    <3>1. toCli # <<>> /\ toCli' = Tail(toCli) /\ toSrv' = toSrv
      BY <2>2 DEF ClientReads
    <3>2. /\ Head(toCli).kind = "count" /\ Head(toCli) \in Fields(Incoming)
          /\ Fields(Incoming') \subseteq Fields(Incoming) /\ Coming' = Coming
      BY <1>a, <2>a, <3>1, TakesNext, ClientTables
    <3>3. Head(toCli).num = Coming
      BY <2>a, <3>2 DEF DeliveryInv, Sound
    <3>4. CASE Fail("NO_DATA")
      BY <1>a, <2>a, <3>1, <3>2, <3>4, Refuses
    <3>5. CASE left' = Head(toCli).num /\ GoTo("getName")
      BY <1>f, <3>1, <3>2, <3>3, <3>5 DEF GoTo
    <3> QED
      BY <1>1, <2>2, <3>1, <3>4, <3>5, NoFaults DEF GetCount, ClientReadFails
  <2> QED
    BY <1>1, <2>1, <2>2 DEF GetCount
<1>2. CASE GetName
  <2>a. pc = "getName" /\ left' = left
    BY <1>2 DEF GetName
  <2>1. CASE ClientReadFails
    BY <1>2, <1>e, <2>1, NoFaults DEF GetName, ClientReads
  <2>2. CASE ClientReads("name")
    <3>1. toCli # <<>> /\ toCli' = Tail(toCli) /\ toSrv' = toSrv
      BY <2>2 DEF ClientReads
    <3>2. /\ Head(toCli).kind = "name" /\ Fields(Incoming') \subseteq Fields(Incoming)
          /\ Coming' \in Nat /\ Coming = Coming' + 1
      BY <1>a, <2>a, <3>1, TakesNext, ClientTables
    <3>3. left = Coming
      BY <2>a DEF DeliveryInv, Downloads
    <3>4. CASE Fail("DATA_ERROR") \/ FailSilently
      BY <1>a, <2>a, <3>1, <3>2, <3>4, Refuses
    <3>5. CASE GoTo("getBody")
      BY <1>f, <2>a, <3>1, <3>2, <3>3, <3>5 DEF GoTo
    <3> QED
      BY <1>2, <2>2, <3>1, <3>4, <3>5, NoFaults DEF GetName, ClientReadFails
  <2> QED
    BY <1>2, <2>1, <2>2 DEF GetName
<1>3. CASE GetBody
  <2>a. pc = "getBody" /\ disk' = disk
    BY <1>3 DEF GetBody
  <2>1. CASE ClientReadFails
    BY <1>3, <1>e, <2>1, NoFaults DEF GetBody, ClientReads
  <2>2. CASE ClientReads("body")
    <3>1. toCli # <<>> /\ toCli' = Tail(toCli) /\ toSrv' = toSrv
      BY <2>2 DEF ClientReads
    <3>2. /\ Head(toCli).kind = "body" /\ Fields(Incoming') \subseteq Fields(Incoming)
          /\ Coming' \in Nat /\ Coming = Coming'
          /\ Incoming' # <<>> => Coming' # 0
      BY <1>a, <2>a, <3>1, TakesNext, ClientTables
    <3>3. left = Coming' + 1
      BY <2>a, <3>2 DEF DeliveryInv, Downloads
    <3>4. CASE Fail("DATA_ERROR")
      BY <1>a, <2>a, <3>1, <3>2, <3>4, Refuses
    <3>5. CASE left' = left - 1 /\ GoTo(IF left = 1 THEN "place" ELSE "getName")
      <4>1. CASE left = 1
        <5>0. \A n \in Nat : n + 1 = 1 => n = 0
          OBVIOUS
        <5>1. Coming' = 0 /\ Incoming' = <<>>
          BY <3>2, <3>3, <4>1, <5>0
        <5>2. pc' = "place" /\ UNCHANGED <<ans, ret>>
          BY <3>5, <4>1 DEF GoTo
        <5>3. Told'
          BY <1>a, <2>a, <5>2 DEF DeliveryInv, Told, Over
        <5>4. UNCHANGED <<serverVars, req, ver, srvOpen, toSrv, ret>> /\ pc' \notin Acks /\ cliOpen'
          BY <1>a, <1>c, <3>1, <5>2 DEF Acks
        <5> QED
          BY <1>c, <3>2, <5>1, <5>2, <5>3, <5>4, ReadsLast
      <4>2. CASE left # 1
        <5>0. \A n \in Nat : (n + 1) - 1 = n
          OBVIOUS
        <5>1. left' = Coming' /\ pc' = "getName" /\ UNCHANGED <<ans, ret>>
          BY <3>2, <3>3, <3>5, <4>2, <5>0 DEF GoTo
        <5> QED
          BY <1>f, <3>1, <3>2, <5>1
      <4> QED
        BY <4>1, <4>2
    <3> QED
      BY <1>3, <2>2, <3>1, <3>4, <3>5, NoFaults DEF GetBody, ClientReadFails
  <2> QED
    BY <1>3, <2>1, <2>2 DEF GetBody
<1> QED
  BY <1>1, <1>2, <1>3

\* Everything arrived: it is placed, acknowledged and put on the clipboard.
LEMMA PlacedIsDelivered ==
  ASSUME Faults = {}, Known, DeliveryInv, UNCHANGED serverVars,
         Place \/ AckReceived \/ CloseReceived \/ CutReceived
  PROVE  DeliveryInv'
<1>a. ver \in Nat /\ UNCHANGED <<req, ver, left, clip, srvOpen, spc, out, sleft, sver, got>>
  BY DEF Known, TypeOK, ClientTypeOK, serverVars, Place, AckReceived, CloseReceived, CutReceived, linkVars
<1>b. req.method \in Pictures \cup {"GET_FILE"}
  BY DEF Known, OutcomeInv, Handling, Place, AckReceived, CloseReceived, CutReceived
<1>1. CASE Place
  <2>1. /\ pc = "place" /\ disk' = "placed" /\ UNCHANGED <<toSrv, toCli>>
        /\ \/ ver >= 4 /\ GoTo("ackReceived") /\ UNCHANGED cliOpen
           \/ ver < 4 /\ Received /\ cliOpen' = FALSE
    BY <1>1, NoFaults DEF Place
  <2>2. Incoming' = Incoming /\ Coming' = Coming
    BY <1>a, <2>1 DEF Incoming, Coming
  <2>3. Incoming' = <<>> /\ Coming' = 0 /\ cliOpen
    BY <2>1, <2>2 DEF DeliveryInv, Downloads, Connection
  <2>4. toCli = <<>>
    BY <2>2, <2>3, NothingLeft DEF Known
  <2>5. CASE ver >= 4 /\ GoTo("ackReceived") /\ UNCHANGED cliOpen
    <3>1. pc' = "ackReceived" /\ UNCHANGED <<ans, ret>> /\ cliOpen'
      BY <2>3, <2>5 DEF GoTo
    <3>2. Told'
      BY <1>a, <2>1, <3>1 DEF DeliveryInv, Told, Over
    <3>3. UNCHANGED <<serverVars, req, ver, srvOpen, toSrv, ret>> /\ pc \in Gives /\ pc' \in Acks
      BY <1>a, <2>1, <3>1 DEF Acks, Gives
    <3> QED
      BY <2>2, <2>3, <2>5, <3>1, <3>2, <3>3, ReadsLast
  <2>6. CASE ver < 4 /\ Received /\ cliOpen' = FALSE
    <3>1. pc' = "cutReceived" /\ (req.entry = "web" => ans' = "OK") /\ UNCHANGED ret
      BY <2>1, <2>6, Unanswered, NoFaults DEF Received
    <3>2. Told'
      BY <1>a, <2>1, <2>4, <2>6, <3>1 DEF DeliveryInv, Told, Over
    <3>3. UNCHANGED <<serverVars, req, ver, srvOpen, toSrv, ret>> /\ pc \in Gives
          /\ pc' \in Settled /\ pc' \notin Acks \cup {"place"}
      BY <1>a, <2>1, <3>1 DEF Acks, Gives, Settled
    <3> QED
      BY <2>2, <2>3, <3>2, <3>3, ReadsLast
  <2> QED
    BY <2>1, <2>5, <2>6
<1>2. CASE AckReceived
  <2>1. UNCHANGED ret
    BY <1>2 DEF AckReceived
  <2> QED
    BY <1>2, <1>a, <2>1, AckArrives, Acknowledges DEF AckReceived, Acks
<1>3. CASE CloseReceived
  <2>1. /\ pc = "closeReceived" /\ pc' = "cutReceived" /\ (req.entry = "web" => ans' = "OK") /\ ~cliOpen'
        /\ UNCHANGED <<ret, disk, toSrv, toCli>>
    BY <1>3, Unanswered, NoFaults DEF CloseReceived, Received
  <2>2. toCli = <<>>
    BY <2>1, NothingLeft DEF DeliveryInv, Downloads, Closes, Known
  <2>3. Told'
    BY <1>a, <2>1, <2>2 DEF DeliveryInv, Told, Over
  <2> QED
    BY <1>a, <2>1, <2>3, ClosesLast DEF Closes, Settled
<1>4. CASE CutReceived
  <2>1. pc = "cutReceived" /\ pc' = "returned" /\ ret' = "SUCCESS" /\ UNCHANGED <<ans, disk, linkVars>>
    BY <1>4, NoFaults DEF CutReceived
  <2>2. disk = "placed" /\ toCli = <<>> /\ ~cliOpen /\ (req.entry = "web" => ans = "OK")
    BY <2>1 DEF DeliveryInv, Told, Over
  <2>3. Delivered'
    BY <1>a, <1>b, <2>1, <2>2 DEF Delivered, Sends, Pictures, Images
  <2>4. Told'
    BY <1>a, <2>1, <2>2, <2>3 DEF Told, Over, linkVars
  <2> QED
    BY <1>a, <2>1, <2>4, ClosesLast DEF Settled, linkVars
<1> QED
  BY <1>1, <1>2, <1>3, <1>4

-----------------------------------------------------------------------------
(* Text and files to the server *)

\* While the client sends, the server receives.
LEMMA ServerListens ==
  ASSUME Faults = {}, Known, DeliveryInv, pc \in {"sendText", "sendCount", "sendFile"},
         pc = "sendFile" => left > 0
  PROVE  /\ ~Dead /\ srvOpen /\ ~ClientWriteFails /\ cliOpen /\ ver \in Nat \ {0}
         /\ pc # "sendFile" => toSrv = <<>>
         /\ pc # "sendFile" \/ ver < 4 => Incoming = <<>>
<1>1. ver \in Nat /\ left \in Nat
  BY DEF Known, TypeOK, ClientTypeOK
<1>2. req.method = "SEND_TEXT" <=> pc = "sendText"
  BY DEF Known, OutcomeInv, Handling
<1>3. req.method = "SEND_FILE" <=> pc \in {"sendCount", "sendFile"}
  BY DEF Known, OutcomeInv, Handling
<1>4. ~Dead
  BY <1>1, <1>2, <1>3 DEF DeliveryInv, Uploads, SendsFiles, Dead
<1>5. srvOpen /\ ver # 0
  BY <1>4 DEF DeliveryInv, Connection, Dead
<1>6. cliOpen /\ (pc # "sendFile" => toSrv = <<>>)
  BY DEF Known, FramingInv, Turns, ClientsTurn, Listening, Talks
<1>7. pc # "sendFile" => Incoming = <<>>
  BY ClientTables DEF Known, FramingInv, ReceivedInOrder, Listening, Talks
<1>8. pc = "sendFile" /\ ver < 4 => Incoming = <<>>
  BY <1>1 DEF DeliveryInv, Uploads, SendsFiles
<1> QED
  BY <1>1, <1>4, <1>5, <1>6, <1>7, <1>8, NoFaults

\* What is left to show when the client sends on.
LEMMA SendsOn ==
  ASSUME DeliveryInv, cliOpen, UNCHANGED <<serverVars, req, ver, cliOpen, srvOpen, toCli, ret>>,
         pc \in {"sendText", "sendCount", "sendFile"}, pc' \in SendsText \cup SendsFiles,
         Sound', Uploads',
         req.entry = "web" => ans' = IF pc' \in {"readFilesAck", "closeSentFiles"} THEN "OK" ELSE "none"
  PROVE  DeliveryInv'
<1>1. UNCHANGED <<spc, out, sver, sleft>> /\ ver # 0
  BY DEF serverVars, DeliveryInv, Connection
<1>2. Connection'
  BY <1>1 DEF DeliveryInv, Connection
<1>3. Downloads'
  BY <1>1 DEF DeliveryInv, Downloads, SendsText, SendsFiles, Gives, Acks, Closes, Granted
<1>4. Told'
  BY DEF DeliveryInv, Told, Over, SendsText, SendsFiles
<1> QED
  BY <1>2, <1>3, <1>4 DEF DeliveryInv

\* What is left to show when the server has everything.
LEMMA EndsWell ==
  ASSUME DeliveryInv, UNCHANGED <<serverVars, req, ver, srvOpen, toSrv>>,
         pc \in SendsText \cup SendsFiles, got, req.method \in Sends, pc' = "returned", ret' = "SUCCESS",
         toCli' = <<>>, ~cliOpen', req.entry = "web" => ans' = "OK",
         Fields(Incoming') \subseteq Fields(Incoming)
  PROVE  DeliveryInv'
<1>1. Delivered'
  BY DEF Delivered, Sends, serverVars
<1>2. Told'
  BY <1>1 DEF Told, Over
<1>3. toSrv # <<>> => LastOf(toSrv).kind # "name"
  BY DEF DeliveryInv, Uploads
<1>4. pc \notin {"start", "done"} /\ pc' \in Settled /\ pc' \notin {"storeText", "cutReceived", "done"}
  BY DEF SendsText, SendsFiles, Settled
<1> QED
  BY <1>2, <1>3, <1>4, Settles

\* Before version 4 the end of the connection says that everything arrived.
LEMMA ClosedIsGot ==
  ASSUME Faults = {}, Known, DeliveryInv, AwaitOver, pc \in {"closeSentText", "closeSentFiles"}
  PROVE  toCli = <<>> /\ got
<1>1. ver < 4 /\ ver \in Nat
  BY DEF DeliveryInv, Uploads, Known, TypeOK, ClientTypeOK
<1>2. Incoming = <<>>
  BY <1>1 DEF DeliveryInv, Uploads, SendsText, SendsFiles
<1>3. toCli = <<>>
  BY <1>2, NothingLeft DEF Known
<1>4. spc = "closed"
  BY <1>3, NoFaults DEF DeliveryInv, Connection
<1> QED
  BY <1>3, <1>4 DEF DeliveryInv, Uploads, SendsText, SendsFiles

\* With version 4 the acknowledgement says so, and it comes.
LEMMA AckIsGot ==
  ASSUME Faults = {}, Known, DeliveryInv, pc \in {"readTextAck", "readFilesAck"}
  PROVE  /\ ~ClientReadFails
         /\ toCli # <<>> => Dead /\ got /\ (Head(toCli).kind = "ack" => Head(toCli).val = "ok")
         /\ ClientReads("ack") /\ UNCHANGED <<req, serverVars>> =>
               toCli' = <<>> /\ Fields(Incoming') \subseteq Fields(Incoming)
<1> HIDE DEF Message
<1>1. ver >= 4 /\ ver \in Nat
  BY DEF DeliveryInv, Uploads, Known, TypeOK, ClientTypeOK
<1>2. toCli \in Seq(Message) /\ out \in Seq(Message)
  BY DEF Known, TypeOK, LinkTypeOK, ServerTypeOK
<1>3. toCli # <<>> => /\ Incoming \in Seq(Message) /\ Incoming # <<>> /\ Head(toCli) = FirstOf(Incoming)
                      /\ FirstOf(Incoming) = Head(Incoming) /\ Tail(toCli) \o out = Tail(Incoming)
  BY <1>2, AfterRead, EndsOfTail DEF Incoming
<1>4. Dead => got /\ Incoming # <<>>
  <2>1. pc \in SendsText \cup SendsFiles
    BY DEF SendsText, SendsFiles
  <2> QED
    BY <1>1, <2>1 DEF DeliveryInv, Uploads, Dead
<1>5. ~ClientReadFails
  <2> SUFFICES ASSUME toCli = <<>>, ~srvOpen PROVE FALSE
    BY NoFaults
  <2>1. spc = "closed" /\ out = <<>>
    BY DEF DeliveryInv, Connection
  <2>2. Incoming = <<>>
    BY <1>2, <2>1, ConcatEmptySeq DEF Incoming
  <2> QED
    BY <1>4, <2>1, <2>2 DEF Dead
<1>6. Incoming # <<>> => Dead
  <2> SUFFICES ASSUME Incoming # <<>>, ~Dead PROVE FALSE
    OBVIOUS
  <2>1. toSrv = <<>>
    BY ClientTables DEF Known, FramingInv, Turns, ClientsTurn
  <2>2. Names(toSrv) = 0
    BY <2>1, NamesOfEmpty
  <2>3. pc \in SendsText => FALSE
    BY <2>1 DEF DeliveryInv, Uploads
  <2>4. pc = "readFilesAck" => left = 0
    BY DEF DeliveryInv, Uploads
  <2>5. pc = "readFilesAck" => Going = 0
    BY <2>2, <2>4 DEF Going
  <2>6. pc = "readFilesAck" => spc = "name" /\ sleft = Going /\ sleft > 0
    BY <2>1 DEF DeliveryInv, Uploads, SendsFiles
  <2> QED
    BY <2>3, <2>5, <2>6 DEF SendsText
<1>7. toCli # <<>> => (Head(toCli).kind = "ack" => Head(toCli).val = "ok")
  <2>1. toCli # <<>> => Head(toCli) \in Fields(Incoming)
    BY <1>3, FieldsOfTail
  <2> QED
    BY <2>1 DEF DeliveryInv, Sound
<1>8. ASSUME ClientReads("ack"), UNCHANGED <<req, serverVars>>
      PROVE  toCli' = <<>> /\ Fields(Incoming') \subseteq Fields(Incoming)
  <2>1. toCli # <<>> /\ toCli' = Tail(toCli) /\ UNCHANGED <<out, spc, sleft>> /\ Head(toCli).kind = "ack"
    BY <1>8 DEF ClientReads, serverVars
  <2>2. Fields(Incoming') \subseteq Fields(Incoming) /\ Incoming' \in Seq(Message)
    BY <2>1, TakesFirst DEF Known
  <2>3. Connected(req.method, Incoming)
    BY ClientTables DEF Known, FramingInv, ReceivedInOrder, Listening
  <2>4. Incoming' = Tail(Incoming)
    BY <1>3, <2>1 DEF Incoming
  <2>5. Tail(Incoming) # <<>> => Continues(req.method, Head(toCli), FirstOf(Tail(Incoming)))
    BY <1>3, <2>1, <2>3, ConnectedTail
  <2>6. Incoming' = <<>>
    BY <2>1, <2>4, <2>5 DEF Continues
  <2>7. toCli' \in Seq(Message)
    BY <1>2, <2>1, EndsOfTail
  <2>8. toCli' # <<>> => toCli' \o out # <<>>
    BY <1>2, <2>7, AfterRead
  <2> QED
    BY <2>1, <2>2, <2>6, <2>8 DEF Incoming
<1> QED
  BY <1>3, <1>4, <1>5, <1>6, <1>7, <1>8

\* Text arrives before its success is told.
LEMMA SentTextDelivers ==
  ASSUME Faults = {}, Known, DeliveryInv, UNCHANGED serverVars,
         SendText \/ ReadTextAck \/ CloseSentText
  PROVE  DeliveryInv'
<1>a. ver \in Nat /\ UNCHANGED <<req, ver, left, clip, disk, srvOpen, spc, out, sleft, sver, got>>
  BY DEF Known, TypeOK, ClientTypeOK, serverVars, SendText, ReadTextAck, CloseSentText
<1>b. req.method = "SEND_TEXT" /\ req.method \in Sends
  BY DEF Known, OutcomeInv, Handling, SendText, ReadTextAck, CloseSentText, Sends
<1>1. CASE SendText
  <2>a. pc = "sendText" /\ UNCHANGED <<cliOpen>>
    BY <1>1 DEF SendText
  <2>b. ~Dead /\ srvOpen /\ ~ClientWriteFails /\ cliOpen /\ toSrv = <<>> /\ Incoming = <<>>
    BY <2>a, ServerListens
  <2>1. CASE Fail("NO_DATA") /\ UNCHANGED <<toSrv, toCli>>
    <3>1. Fields(Incoming') \subseteq Fields(Incoming)
      BY <2>1, <1>a DEF Incoming
    <3> QED
      BY <1>a, <2>1, <2>a, <3>1, Refuses
  <2>2. CASE ClientWrites(Msg("text", "ok")) /\ GoTo(IF ver >= 4 THEN "readTextAck" ELSE "closeSentText")
    <3>1. /\ toSrv' = Append(toSrv, Msg("text", "ok")) /\ UNCHANGED <<toCli, ans, ret>>
          /\ pc' = IF ver >= 4 THEN "readTextAck" ELSE "closeSentText"
      BY <2>2, <2>b DEF ClientWrites, GoTo
    <3>2. Incoming' = Incoming
      BY <1>a, <3>1 DEF Incoming
    <3>3. toSrv' # <<>> /\ LastOf(toSrv').kind # "name"
      <4>1. Msg("text", "ok") \in Message /\ Msg("text", "ok").kind = "text"
        BY ClientMessages DEF Msg
      <4> QED
        BY <3>1, <4>1, AddsField DEF Known
    <3>4. spc = "text"
      BY <1>b, <2>a DEF DeliveryInv, Uploads
    <3>5. Sound'
      BY <1>a, <3>1, <3>2, StaysSound DEF SendsFiles
    <3>6. Uploads'
      BY <1>a, <2>b, <3>1, <3>2, <3>3, <3>4 DEF Uploads, SendsText, SendsFiles, Granted, Dead
    <3>7. pc' \in SendsText \ SendsFiles
      BY <3>1 DEF SendsText, SendsFiles
    <3>8. req.entry = "web" => ans' = "none"
      BY <2>a, <3>1, Unanswered
    <3>9. pc' \notin {"readFilesAck", "closeSentFiles"}
      BY <3>1
    <3> QED
      BY <1>a, <2>a, <2>b, <3>1, <3>5, <3>6, <3>7, <3>8, <3>9, SendsOn
  <2> QED
    BY <1>1, <2>1, <2>2, <2>b DEF SendText
<1>2. CASE ReadTextAck
  <2>1. pc = "readTextAck" /\ ~ClientReadFails
    BY <1>2, AckIsGot DEF ReadTextAck
  <2>2. /\ ClientReads("ack") /\ toCli # <<>> /\ Head(toCli).kind = "ack" /\ UNCHANGED toSrv
        /\ ans' = AckAnswer(Head(toCli).val = "ok") /\ pc' = "returned" /\ ret' = "SUCCESS" /\ cliOpen' = FALSE
    BY <1>2, <2>1 DEF ReadTextAck, ClientReads
  <2>3. got /\ Head(toCli).val = "ok" /\ toCli' = <<>> /\ Fields(Incoming') \subseteq Fields(Incoming)
    BY <1>a, <2>1, <2>2, AckIsGot
  <2>4. req.entry = "web" => ans' = "OK"
    BY <2>1, <2>2, <2>3, Unanswered DEF AckAnswer
  <2> QED
    BY <1>a, <1>b, <2>1, <2>2, <2>3, <2>4, EndsWell DEF SendsText
<1>3. CASE CloseSentText
  <2>1. /\ pc = "closeSentText" /\ AwaitOver /\ UNCHANGED <<toSrv, toCli>>
        /\ Return("OK", "SUCCESS") /\ cliOpen' = FALSE
    BY <1>3 DEF CloseSentText
  <2>2. toCli' = <<>> /\ got /\ Fields(Incoming') \subseteq Fields(Incoming)
    BY <1>a, <2>1, ClosedIsGot DEF Incoming
  <2>3. pc' = "returned" /\ ret' = "SUCCESS" /\ (req.entry = "web" => ans' = "OK")
    BY <2>1, Unanswered DEF Return
  <2> QED
    BY <1>a, <1>b, <2>1, <2>2, <2>3, EndsWell DEF SendsText
<1> QED
  BY <1>1, <1>2, <1>3

\* Files arrive before their success is told to the caller.
LEMMA SentFilesDeliver ==
  ASSUME Faults = {}, Known, DeliveryInv, UNCHANGED serverVars,
         SendCount \/ SendFile \/ FilesSent \/ ReadFilesAck \/ CloseSentFiles
  PROVE  DeliveryInv'
<1>a. /\ ver \in Nat /\ left \in Nat
      /\ UNCHANGED <<req, ver, clip, disk, srvOpen, spc, out, sleft, sver, got>>
  BY DEF Known, TypeOK, ClientTypeOK, serverVars, SendCount, SendFile, FilesSent, ReadFilesAck,
         CloseSentFiles, linkVars
<1>b. req.method = "SEND_FILE" /\ req.method \in Sends
  BY DEF Known, OutcomeInv, Handling, SendCount, SendFile, FilesSent, ReadFilesAck, CloseSentFiles, Sends
<1>c. toSrv \in Seq(Message) /\ Names(toSrv) \in Nat
  BY NamesType DEF Known, TypeOK, LinkTypeOK
<1>1. CASE SendCount
  <2>a. pc = "sendCount" /\ UNCHANGED <<cliOpen>>
    BY <1>1 DEF SendCount
  <2>b. ~Dead /\ srvOpen /\ ~ClientWriteFails /\ cliOpen /\ toSrv = <<>> /\ Incoming = <<>> /\ ver # 0
    BY <2>a, ServerListens
  <2>c. IF ver = 1 THEN spc = "name" /\ sleft = 1 ELSE spc = "count"
    BY <1>b, <2>a DEF DeliveryInv, Uploads
  <2>1. CASE (Fail("NO_DATA") \/ FailSilently) /\ UNCHANGED <<toSrv, toCli>>
    <3>1. Fields(Incoming') \subseteq Fields(Incoming)
      BY <2>1, <1>a DEF Incoming
    <3> QED
      BY <1>a, <2>1, <2>a, <3>1, Refuses
  <2>2. CASE /\ UNCHANGED toCli /\ GoTo("sendFile")
             /\ \/ ver = 1 /\ left' = 1 /\ toSrv' = toSrv
                \/ \E n \in 1 .. MaxFiles : /\ ver # 1 /\ left' = n
                                            /\ toSrv' = Append(toSrv, NumMsg("count", n))
    <3>1. pc' = "sendFile" /\ UNCHANGED <<toCli, ans, ret>>
      BY <2>2 DEF GoTo
    <3>2. Incoming' = Incoming
      BY <1>a, <3>1 DEF Incoming
    <3>3. /\ Going' = left' /\ left' \in Nat \ {0}
          /\ \A m \in Fields(toSrv') : m.kind = "count" => m.num = left'
          /\ toSrv' # <<>> => LastOf(toSrv').kind # "name"
          /\ IF ver = 1 THEN left' = 1 ELSE toSrv' # <<>>
      <4>0. Names(toSrv) = 0
        BY <2>b, NamesOfEmpty
      <4>1. CASE ver = 1 /\ left' = 1 /\ toSrv' = toSrv
        <5>1. Fields(toSrv') = {} /\ toSrv' = <<>>
          BY <2>b, <4>1, FieldsOfEmpty
        <5>2. Going' = 0 + 1
          BY <2>b, <4>0, <4>1, <5>1 DEF Going
        <5> QED
          BY <4>1, <5>1, <5>2
      <4>2. CASE \E n \in 1 .. MaxFiles : ver # 1 /\ left' = n /\ toSrv' = Append(toSrv, NumMsg("count", n))
        <5>1. PICK n \in 1 .. MaxFiles : ver # 1 /\ left' = n /\ toSrv' = Append(toSrv, NumMsg("count", n))
          BY <4>2
        <5>2. n \in Nat \ {0}
          BY <5>1, MaxFilesAssumption
        <5>3. NumMsg("count", n) \in Message /\ NumMsg("count", n).kind = "count" /\ NumMsg("count", n).num = n
          BY <5>2, ClientMessages DEF NumMsg
        <5>4. /\ toSrv' # <<>> /\ LastOf(toSrv') = NumMsg("count", n)
              /\ Fields(toSrv') = Fields(toSrv) \cup {NumMsg("count", n)} /\ Names(toSrv') = Names(toSrv) + 0
          BY <5>1, <5>3, AddsField DEF Known
        <5>5. Going' = 0 + 0 + n
          BY <4>0, <5>1, <5>4 DEF Going
        <5> QED
          BY <2>b, <5>1, <5>2, <5>3, <5>4, <5>5, FieldsOfEmpty
      <4> QED
        BY <2>2, <4>1, <4>2
    <3>4. Sound'
      BY <1>a, <3>1, <3>2, <3>3 DEF DeliveryInv, Sound
    <3>5. Uploads'
      BY <1>a, <2>b, <2>c, <3>1, <3>2, <3>3 DEF Uploads, SendsText, SendsFiles, Granted, Dead
    <3>6. pc' \in SendsFiles /\ pc' \notin {"readFilesAck", "closeSentFiles"}
      BY <3>1 DEF SendsFiles
    <3>7. req.entry = "web" => ans' = "none"
      BY <2>a, <3>1, Unanswered
    <3> QED
      BY <1>a, <2>a, <2>b, <3>1, <3>4, <3>5, <3>6, <3>7, SendsOn
  <2> QED
    BY <1>1, <1>a, <2>1, <2>2, <2>b DEF SendCount, SendsCount, ClientWrites
<1>2. CASE SendFile
  <2>a. pc = "sendFile" /\ left > 0 /\ UNCHANGED <<cliOpen>>
    BY <1>2 DEF SendFile, MoreToSend
  <2>b. ~Dead /\ srvOpen /\ ~ClientWriteFails /\ cliOpen /\ ver # 0 /\ (ver < 4 => Incoming = <<>>)
    BY <2>a, ServerListens
  <2>1. PICK body \in {"file", "dir"} :
           /\ toSrv' = Append(Append(toSrv, Msg("name", "ok")), Msg("body", body))
           /\ left' = left - 1 /\ GoTo("sendFile") /\ UNCHANGED toCli
    BY <1>2, <2>b, NoFaults DEF SendFile, Bodies
  <2>2. pc' = "sendFile" /\ UNCHANGED <<toCli, ans, ret>>
    BY <2>1 DEF GoTo
  <2>3. Incoming' = Incoming
    BY <1>a, <2>2 DEF Incoming
  <2>4. /\ toSrv' # <<>> /\ LastOf(toSrv') = Msg("body", body)
        /\ Fields(toSrv') = Fields(toSrv) \cup {Msg("name", "ok"), Msg("body", body)}
        /\ Names(toSrv') = Names(toSrv) + 1
    <3> DEFINE q == Append(toSrv, Msg("name", "ok"))
    <3>1. /\ Msg("name", "ok") \in Message /\ Msg("name", "ok").kind = "name"
          /\ Msg("body", body) \in Message /\ Msg("body", body).kind = "body"
      BY ClientMessages DEF Msg
    <3>2. q \in Seq(Message) /\ Fields(q) = Fields(toSrv) \cup {Msg("name", "ok")} /\ Names(q) = Names(toSrv) + 1
      BY <1>c, <3>1, EndsOfAppend, FieldsOfAppend, NamesOfAppend
    <3> HIDE DEF q
    <3>3. /\ Append(q, Msg("body", body)) # <<>> /\ LastOf(Append(q, Msg("body", body))) = Msg("body", body)
          /\ Fields(Append(q, Msg("body", body))) = Fields(q) \cup {Msg("body", body)}
          /\ Names(Append(q, Msg("body", body))) = Names(q) + 0
      BY <3>1, <3>2, EndsOfAppend, FieldsOfAppend, NamesOfAppend
    <3> QED
      BY <1>c, <2>1, <3>2, <3>3 DEF q
  <2>5. Msg("name", "ok").kind # "count" /\ Msg("body", body).kind \notin {"name", "count"}
    BY DEF Msg
  <2>6. Going' = Going
    BY <1>a, <1>c, <2>1, <2>4 DEF Going
  <2>7. Sound'
    BY <1>a, <2>2, <2>3, <2>4, <2>5, <2>6, <2>a DEF DeliveryInv, Sound, SendsFiles
  <2>8. \/ spc = "count" /\ toSrv # <<>>
        \/ spc = "name" /\ sleft = Going /\ sleft > 0
        \/ spc = "body" /\ sleft = Going + 1 /\ toSrv # <<>>
    BY <2>a, <2>b DEF DeliveryInv, Uploads, SendsFiles, Dead
  <2>9. Uploads'
    BY <1>a, <2>b, <2>2, <2>3, <2>4, <2>5, <2>6, <2>8 DEF Uploads, SendsText, SendsFiles, Granted, Dead
  <2>10. pc' \in SendsFiles /\ pc' \notin {"readFilesAck", "closeSentFiles"}
    BY <2>2 DEF SendsFiles
  <2>11. req.entry = "web" => ans' = "none"
    BY <2>a, <2>2, Unanswered
  <2> QED
    BY <1>a, <2>a, <2>b, <2>2, <2>7, <2>9, <2>10, <2>11, SendsOn
<1>3. CASE FilesSent
  <2>1. /\ pc = "sendFile" /\ left = 0 /\ UNCHANGED <<left, ret, toSrv, toCli, cliOpen>>
        /\ pc' = (IF ver >= 4 THEN "readFilesAck" ELSE "closeSentFiles") /\ ans' = FirstAnswer("OK")
    BY <1>3, <1>a DEF FilesSent, MoreToSend, linkVars
  <2>2. Incoming' = Incoming /\ Going' = Going
    BY <1>a, <2>1 DEF Incoming, Going
  <2>3. cliOpen
    BY <2>1 DEF Known, FramingInv, Turns, Listening, Talks
  <2>4. Sound'
    BY <1>a, <2>1, <2>2 DEF DeliveryInv, Sound, SendsFiles
  <2>5. Uploads'
    BY <1>a, <2>1, <2>2 DEF DeliveryInv, Uploads, SendsText, SendsFiles, Granted, Dead
  <2>6. pc' \in SendsFiles /\ pc' \in {"readFilesAck", "closeSentFiles"}
    BY <2>1 DEF SendsFiles
  <2>7. req.entry = "web" => ans' = "OK"
    BY <2>1, Unanswered
  <2> QED
    BY <1>a, <2>1, <2>3, <2>4, <2>5, <2>6, <2>7, SendsOn
<1>4. CASE ReadFilesAck
  <2>1. pc = "readFilesAck" /\ ~ClientReadFails
    BY <1>4, AckIsGot DEF ReadFilesAck
  <2>2. /\ ClientReads("ack") /\ toCli # <<>> /\ Head(toCli).kind = "ack" /\ UNCHANGED toSrv
        /\ ans' = (IF Head(toCli).val = "ok" THEN ans ELSE FirstAnswer("COMMUNICATION_FAILURE"))
        /\ pc' = "returned" /\ ret' = "SUCCESS" /\ cliOpen' = FALSE
    BY <1>4, <2>1 DEF ReadFilesAck, ClientReads
  <2>3. got /\ Head(toCli).val = "ok" /\ toCli' = <<>> /\ Fields(Incoming') \subseteq Fields(Incoming)
    BY <1>a, <2>1, <2>2, AckIsGot
  <2>4. req.entry = "web" => ans' = "OK"
    BY <2>1, <2>2, <2>3 DEF DeliveryInv, Told, Over
  <2> QED
    BY <1>a, <1>b, <2>1, <2>2, <2>3, <2>4, EndsWell DEF SendsFiles
<1>5. CASE CloseSentFiles
  <2>1. /\ pc = "closeSentFiles" /\ AwaitOver /\ UNCHANGED <<ans, toSrv, toCli>>
        /\ pc' = "returned" /\ ret' = "SUCCESS" /\ cliOpen' = FALSE
    BY <1>5 DEF CloseSentFiles
  <2>2. toCli' = <<>> /\ got /\ Fields(Incoming') \subseteq Fields(Incoming)
    BY <1>a, <2>1, ClosedIsGot DEF Incoming
  <2>3. req.entry = "web" => ans' = "OK"
    BY <2>1 DEF DeliveryInv, Told, Over
  <2> QED
    BY <1>a, <1>b, <2>1, <2>2, <2>3, EndsWell DEF SendsFiles
<1> QED
  BY <1>1, <1>2, <1>3, <1>4, <1>5

\* The request comes back, and the socket is closed if it is still open.
LEMMA FinishDelivers ==
  ASSUME Known, DeliveryInv, UNCHANGED serverVars, Finish
  PROVE  DeliveryInv'
<1>1. /\ pc = "returned" /\ pc' = "done" /\ ans' = FirstAnswer("LOCAL_ERROR") /\ ~cliOpen'
      /\ UNCHANGED <<req, ver, left, ret, clip, disk, toSrv, toCli, srvOpen, got, out>>
  BY DEF Finish, serverVars
<1>2. req.entry = "web" => ans' = (IF ans = "none" THEN "LOCAL_ERROR" ELSE ans)
  BY <1>1 DEF FirstAnswer
<1>3. Told'
  BY <1>1, <1>2 DEF DeliveryInv, Told, Over, Delivered
<1>4. Fields(Incoming') \subseteq Fields(Incoming) /\ (toSrv' # <<>> => LastOf(toSrv').kind # "name")
  BY <1>1 DEF Incoming, DeliveryInv, Uploads
<1> QED
  BY <1>1, <1>3, <1>4, Settles DEF Settled

\* No step of the client breaks it.
LEMMA ClientDelivers ==
  ASSUME Faults = {}, Known, DeliveryInv, ClientNext, UNCHANGED serverVars
  PROVE  DeliveryInv'
<1>1. CASE NotStarted \/ Connect \/ SendVersion \/ ReadStatus \/ ReadOffer \/ AcceptOffer \/ SendMethod
  BY <1>1, NegotiationDelivers
<1>2. CASE Finish \/ ReadMethodStatus
  BY <1>2, FinishDelivers, MethodStatusDelivers
<1>3. CASE GetText \/ AckText \/ CloseText \/ StoreText
  BY <1>3, TextDelivers
<1>4. CASE SendText \/ ReadTextAck \/ CloseSentText
  BY <1>4, SentTextDelivers
<1>5. CASE SendCount \/ SendFile \/ FilesSent \/ ReadFilesAck \/ CloseSentFiles
  BY <1>5, SentFilesDeliver
<1>6. CASE GetCount \/ GetName \/ GetBody
  BY <1>6, FilesArrive
<1>7. CASE Place \/ AckReceived \/ CloseReceived \/ CutReceived
  BY <1>7, PlacedIsDelivered
<1>8. CASE SendDisplay \/ ReadDisplayStatus \/ GetImage
  BY <1>8, ImagesDeliver
<1>9. CASE GetInfo \/ AckInfo \/ CloseInfo
  BY <1>9, InfoDelivers
<1> QED
  BY <1>1, <1>2, <1>3, <1>4, <1>5, <1>6, <1>7, <1>8, <1>9 DEF ClientNext

-----------------------------------------------------------------------------
(* The server's steps *)

\* Steps at which the client relies on the connection.
Relies == Gives \cup Acks \cup Closes \cup SendsText \cup SendsFiles
            \cup {"readMethodStatus", "readDisplayStatus", "sendText", "sendCount"}

\* What the person was told stays true.
LEMMA ToldKept ==
  ASSUME DeliveryInv, UNCHANGED clientVars, cliOpen' = cliOpen, ~cliOpen => toCli' = toCli, got => got'
  PROVE  Told'
<1>1. UNCHANGED <<req, pc, ver, left, ans, ret, clip, disk>>
  BY DEF clientVars
<1>2. Delivered => Delivered'
  BY <1>1 DEF Delivered, Sends
<1> QED
  BY <1>1, <1>2 DEF DeliveryInv, Told, Over

\* Both ends of the exchange use one version.
LEMMA OneVersion ==
  ASSUME Known, DeliveryInv, pc \in Relies, spc \notin {"version", "answer", "linger", "closed"}
  PROVE  sver = ver /\ ver \in Nat /\ ver # 0
<1>1. pc \notin {"start", "sendVersion", "readStatus", "readOffer", "returned", "done"}
  BY DEF Relies, Gives, Acks, Closes, SendsText, SendsFiles
<1>2. sver # 0 /\ ver # 0
  BY <1>1 DEF DeliveryInv, Connection
<1>3. ver \in Nat
  BY DEF Known, TypeOK, ClientTypeOK
<1> QED
  BY <1>2, <1>3 DEF Known, NegotiationInv, VersionsAgree

\* While the client uses the connection its end is open, and the server does not give up.
LEMMA StaysOpen ==
  ASSUME Faults = {}, Known, DeliveryInv, pc \in Relies
  PROVE  cliOpen /\ ~ServerGivesUp
<1>1. pc \in Acks \cup Closes \cup {"closeSentText", "closeSentFiles", "place"} => cliOpen
  BY DEF DeliveryInv, Connection
<1>2. pc \notin Acks \cup Closes \cup {"closeSentText", "closeSentFiles", "place"} => Listening /\ pc # "start"
  BY ClientTables DEF Relies, Gives, Acks, Closes, SendsText, SendsFiles, Listening, Talks
<1>3. Listening /\ pc # "start" => cliOpen
  BY DEF Known, FramingInv, Turns
<1> QED
  BY <1>1, <1>2, <1>3, NoFaults DEF ServerGivesUp

\* What is left to show when the server reads nothing and goes on as before.
LEMMA ServerGoesOn ==
  ASSUME DeliveryInv, UNCHANGED clientVars, UNCHANGED <<sver, got, toSrv, cliOpen>>,
         Connection', Told',
         pc \in Relies => UNCHANGED <<sleft>> /\ Incoming' = Incoming /\ (Dead' <=> Dead) /\ (Dead \/ spc' = spc),
         Fields(Incoming') \subseteq Fields(Incoming), spc' = "sendFiles" => spc = "sendFiles"
  PROVE  DeliveryInv'
<1>1. UNCHANGED <<req, pc, ver, left, ans, ret, clip, disk>>
  BY DEF clientVars
<1>2. pc \in Relies => Coming' = Coming
  BY DEF Coming, Dead
<1>3. Going' = Going /\ (Granted' => pc = "readMethodStatus")
  BY <1>1 DEF Going, Granted
<1>4. Sound'
  BY <1>1, <1>2, <1>3 DEF DeliveryInv, Sound, Relies, Gives
<1>5. Uploads'
  BY <1>1, <1>3 DEF DeliveryInv, Uploads, Relies, SendsText, SendsFiles, Granted, Dead
<1>6. Downloads'
  BY <1>1, <1>2 DEF DeliveryInv, Downloads, Relies, Gives, Acks, Closes, Granted, Dead
<1> QED
  BY <1>4, <1>5, <1>6 DEF DeliveryInv

\* The server writes what it is about to write, gives up, or closes.
LEMMA ServerRestDelivers ==
  ASSUME Faults = {}, Known, DeliveryInv, UNCHANGED clientVars,
         ServerWrites \/ ServerGivesUp \/ ServerCloses
  PROVE  DeliveryInv'
<1>a. UNCHANGED <<req, pc, ver, left, ans, ret, clip, disk, sver, sleft, got, toSrv, cliOpen>>
  BY DEF clientVars, ServerWrites, ServerGivesUp, ServerCloses, linkVars
<1>1. CASE ServerWrites
  <2>1. /\ srvOpen /\ UNCHANGED <<srvOpen, spc>> /\ (~cliOpen => toCli' = toCli)
        /\ Fields(Incoming') \subseteq Fields(Incoming) /\ (cliOpen => Incoming' = Incoming)
    BY <1>1, WritesFirst DEF Known, ServerWrites
  <2>2. Connection'
    BY <1>a, <2>1 DEF DeliveryInv, Connection
  <2>3. Told'
    BY <1>a, <2>1, ToldKept
  <2> QED
    BY <1>a, <2>1, <2>2, <2>3, StaysOpen, ServerGoesOn DEF Dead
<1>2. CASE ServerGivesUp
  <2>1. /\ srvOpen /\ UNCHANGED <<srvOpen, toCli, out>> /\ spc' = "linger" /\ pc \notin Relies
    BY <1>2, StaysOpen DEF ServerGivesUp, linkVars
  <2>2. Connection'
    BY <1>a, <2>1 DEF DeliveryInv, Connection
  <2>3. Told'
    BY <1>a, <2>1, ToldKept
  <2>4. Incoming' = Incoming
    BY <2>1 DEF Incoming
  <2> QED
    BY <1>a, <2>1, <2>2, <2>3, <2>4, ServerGoesOn
<1>3. CASE ServerCloses
  <2>1. UNCHANGED <<toCli, out>> /\ spc = "linger" /\ spc' = "closed" /\ out = <<>>
    BY <1>3 DEF ServerCloses
  <2>2. Connection'
    BY <1>a, <2>1 DEF DeliveryInv, Connection
  <2>3. Told'
    BY <1>a, <2>1, ToldKept
  <2>4. Incoming' = Incoming
    BY <2>1 DEF Incoming
  <2> QED
    BY <1>a, <2>1, <2>2, <2>3, <2>4, ServerGoesOn DEF Dead
<1> QED
  BY <1>1, <1>2, <1>3

\* The next file goes out, or the last one is gone.
LEMMA ServerSendDelivers ==
  ASSUME Faults = {}, Known, DeliveryInv, UNCHANGED clientVars, ServerSendsFile
  PROVE  DeliveryInv'
<1> HIDE DEF Message
<1>a. /\ UNCHANGED <<req, pc, ver, left, ans, ret, clip, disk, sver, got, toSrv, toCli, cliOpen, srvOpen>>
      /\ srvOpen /\ spc = "sendFiles" /\ out = <<>> /\ ~Dead
      /\ sleft \in Nat /\ toCli \in Seq(Message) /\ out \in Seq(Message) /\ sver \in Nat
  BY DEF clientVars, ServerSendsFile, linkVars, Dead, Known, TypeOK, LinkTypeOK, ServerTypeOK
<1>b. Incoming = toCli /\ req.method = "GET_FILE" /\ sver # 0
  BY <1>a, AfterReply, ConcatEmptySeq DEF Incoming, DeliveryInv, Downloads, Connection
<1>c. pc \in Relies => sver = ver
  BY <1>a, OneVersion
<1>d. Told'
  BY <1>a, ToldKept
<1>e. Names(toCli) \in Nat /\ Coming = Names(toCli) + sleft
  BY <1>a, <1>b, NamesType DEF Coming
<1>1. CASE /\ sleft > 0 /\ sleft' = sleft - 1 /\ spc' = spc
           /\ \E body \in {"file", "dir"} : out' = <<Msg("name", "ok"), Msg("body", body)>>
  <2>1. PICK body \in {"file", "dir"} : out' = <<Msg("name", "ok"), Msg("body", body)>>
    BY <1>1
  <2> DEFINE q == Append(toCli, Msg("name", "ok"))
             r == Append(q, Msg("body", body))
  <2>2. /\ Msg("name", "ok") \in Message /\ Msg("name", "ok").kind = "name"
        /\ Msg("body", body) \in Message /\ Msg("body", body).kind = "body"
    BY ClientMessages DEF Msg
  <2>3. /\ q \in Seq(Message) /\ q # <<>> /\ Names(q) = Names(toCli) + 1
        /\ Fields(q) = Fields(toCli) \cup {Msg("name", "ok")}
        /\ FirstOf(q) = IF toCli = <<>> THEN Msg("name", "ok") ELSE FirstOf(toCli)
    BY <1>a, <2>2, EndsOfAppend, NamesOfAppend, FieldsOfAppend
  <2> HIDE DEF q
  <2>4. /\ r \in Seq(Message) /\ r # <<>> /\ Names(r) = Names(q) + 0
        /\ Fields(r) = Fields(q) \cup {Msg("body", body)}
        /\ FirstOf(r) = FirstOf(q)
    BY <2>2, <2>3, EndsOfAppend, NamesOfAppend, FieldsOfAppend
  <2>5. Incoming' = r
    BY <1>a, <2>1, <2>2, AfterReply DEF Incoming, q
  <2> HIDE DEF r
  <2>6. Coming' = Coming
    <3>1. \A n, s \in Nat : s > 0 => (n + 1 + 0) + (s - 1) = n + s
      OBVIOUS
    <3>2. Coming' = Names(r) + (sleft - 1)
      BY <1>1, <1>a, <2>5 DEF Coming
    <3> QED
      BY <1>a, <1>e, <1>1, <2>3, <2>4, <3>1, <3>2
  <2>7. Incoming = <<>> => pc \notin {"readMethodStatus", "readDisplayStatus"}
    BY <1>a, ClientTables DEF Known, FramingInv, Turns, Streaming, Listening
  <2>8. Incoming # <<>> => FirstOf(Incoming') = FirstOf(Incoming)
    BY <1>b, <2>3, <2>4, <2>5
  <2>9. Coming # 0
    BY <1>a, <1>e, <1>1
  <2>10. Connection'
    BY <1>a, <1>1 DEF DeliveryInv, Connection
  <2>11. Sound'
    <3>1. \A m \in Fields(Incoming') : m \in Fields(Incoming) \/ m.kind \in {"name", "body"}
      BY <1>b, <2>2, <2>3, <2>4, <2>5
    <3>2. \A m \in Fields(Incoming') :
             /\ m.kind = "ack" => m.val = "ok"
             /\ m.kind = "name" => req.method = "GET_FILE"
             /\ m.kind = "body" /\ req.method \in Pictures => m.val = "file"
             /\ m.kind = "count" /\ pc \in {"readMethodStatus", "getCount"} => m.num = Coming
      BY <1>b, <3>1 DEF DeliveryInv, Sound, Pictures, Images
    <3>3. Going' = Going
      BY <1>a DEF Going
    <3> QED
      BY <1>a, <2>6, <3>2, <3>3 DEF DeliveryInv, Sound
  <2>12. Uploads'
    <3>1. pc \notin {"sendText", "sendCount"} \cup SendsText \cup SendsFiles
      BY <1>b DEF Known, OutcomeInv, Handling, SendsText, SendsFiles
    <3> QED
      BY <1>a, <1>b, <3>1 DEF DeliveryInv, Uploads, SendsText, SendsFiles, Granted
  <2>13. Downloads'
    <3>1. pc \notin Acks \cup Closes \cup {"place"}
      BY <2>9 DEF DeliveryInv, Downloads
    <3> QED
      BY <1>a, <1>b, <1>1, <2>6, <2>7, <2>8, <3>1 DEF DeliveryInv, Downloads, Granted, Dead
  <2> QED
    BY <1>d, <2>10, <2>11, <2>12, <2>13 DEF DeliveryInv
<1>2. CASE sleft = 0 /\ spc' = AfterSending(sver) /\ UNCHANGED <<sleft, out>>
  <2>1. Incoming' = Incoming /\ spc' = (IF sver >= 4 THEN "ack" ELSE "linger")
    BY <1>2, <1>a DEF Incoming, AfterSending
  <2>2. Coming' = Coming
    BY <1>2, <1>a, <2>1, <1>e, <1>b DEF Coming
  <2>3. Connection'
    BY <1>a, <1>b, <2>1 DEF DeliveryInv, Connection
  <2>4. Going' = Going
    BY <1>a DEF Going
  <2>5. Sound'
    BY <1>a, <2>1, <2>2, <2>4 DEF DeliveryInv, Sound
  <2>6. Uploads'
    <3>1. pc \notin {"sendText", "sendCount"} \cup SendsText \cup SendsFiles
      BY <1>b DEF Known, OutcomeInv, Handling, SendsText, SendsFiles
    <3> QED
      BY <1>a, <1>b, <3>1 DEF DeliveryInv, Uploads, SendsText, SendsFiles, Granted
  <2>7. Downloads'
    BY <1>a, <1>c, <2>1, <2>2 DEF DeliveryInv, Downloads, Granted, Dead, Relies
  <2> QED
    BY <1>d, <2>3, <2>5, <2>6, <2>7 DEF DeliveryInv
<1> QED
  BY <1>1, <1>2, <1>a DEF ServerSendsFile, Reply

\* No count is left on a stream whose first field is taken.
LEMMA CountsComeFirst ==
  ASSUME NEW q \in Seq(Message), q # <<>>, Sequel(q)
  PROVE  \A m \in Fields(Tail(q)) : m.kind # "count"
<1> HIDE DEF Message
<1>1. /\ Len(q) \in Nat \ {0} /\ Len(Tail(q)) = Len(q) - 1 /\ Tail(q) \in Seq(Message)
      /\ \A i \in 1 .. Len(q) - 1 : Tail(q)[i] = q[i + 1]
  BY EndsOfTail
<1>2. DOMAIN Tail(q) = 1 .. Len(q) - 1
  BY <1>1, LenProperties
<1>3. \A i \in 1 .. Len(q) - 1 : q[i + 1].kind # "count"
  BY DEF Sequel, Follows
<1> QED
  BY <1>1, <1>2, <1>3 DEF Fields

\* Names are counted by the fields they are among.
LEMMA NamesOfOthers ==
  ASSUME NEW q \in Seq(Message), \A m \in Fields(q) : m.kind # "name"
  PROVE  Names(q) = 0
<1>1. {k \in DOMAIN q : q[k].kind = "name"} = {}
  BY DEF Fields
<1> QED
  BY <1>1, FS_EmptySet DEF Names

\* The fields of a reply.
LEMMA FieldsOfReply ==
  ASSUME NEW m \in Message, NEW n \in Message
  PROVE  /\ <<m>> \in Seq(Message) /\ Fields(<<m>>) = {m}
         /\ <<m, n>> \in Seq(Message) /\ Fields(<<m, n>>) = {m, n}
<1> HIDE DEF Message
<1>1. DOMAIN <<m>> = {1} /\ <<m>>[1] = m
  OBVIOUS
<1>2. DOMAIN <<m, n>> = {1, 2} /\ <<m, n>>[1] = m /\ <<m, n>>[2] = n
  OBVIOUS
<1>3. Fields(<<m>>) = {m}
  BY <1>1 DEF Fields
<1>4. Fields(<<m, n>>) = {m, n}
  BY <1>2 DEF Fields
<1> QED
  BY <1>3, <1>4

\* Where the server is with what the client sends.
Receiving ==
    \/ spc = "count" /\ toSrv # <<>>
    \/ spc = "name" /\ sleft = Going /\ sleft > 0
    \/ spc = "body" /\ sleft = Going + 1 /\ toSrv # <<>>
    \/ Dead /\ got /\ left = 0

\* What is left to show when the server has read a field and answers with out':
\* that the answer is sound, and that the server goes on to what the client does.
LEMMA ReadDelivers ==
  ASSUME Faults = {}, Known, TypeOK', DeliveryInv, UNCHANGED clientVars,
         NEW kind, HasRead(kind), toSrv' = Tail(toSrv), out' \in Seq(Message), got => got',
         spc' \notin {"version", "answer", "linger", "closed"} => sver' # 0,
         \A m \in Fields(out') :
            /\ m.kind = "ack" => m.val = "ok"
            /\ m.kind # "name"
            /\ m.kind = "body" /\ req.method \in Pictures => m.val = "file"
            /\ m.kind = "count" /\ pc = "readMethodStatus" => spc' = "sendFiles" /\ m.num = sleft',
         pc \in SendsText => Dead' /\ got',
         pc \in SendsFiles => Receiving',
         pc \in SendsText \cup SendsFiles =>
            IF ver >= 4 THEN Dead' => out' # <<>> ELSE out' = <<>>,
         pc = "readMethodStatus" /\ out' # <<>> /\ FirstOf(out').val = "ok" =>
            /\ req.method = "SEND_TEXT" => spc' = "text"
            /\ req.method = "SEND_FILE" =>
                  IF ver = 1 THEN spc' = "name" /\ sleft' = 1 ELSE spc' = "count"
            /\ req.method \notin Sends \cup {"GET_SCREENSHOT"} =>
                  IF Dead' THEN ver < 4 ELSE spc' \in {"sendFiles", "ack"},
         pc = "readDisplayStatus" /\ out' # <<>> /\ FirstOf(out').val = "ok" =>
            IF Dead' THEN ver < 4 ELSE spc' \in {"sendFiles", "ack"},
         spc' = "sendFiles" => req.method = "GET_FILE",
         pc \in Closes => out' = <<>> /\ spc' = "linger"
  PROVE  DeliveryInv'
<1> HIDE DEF Message
<1>a. /\ UNCHANGED <<req, pc, ver, left, ans, ret, clip, disk, toCli, cliOpen, srvOpen>>
      /\ srvOpen /\ out = <<>> /\ toSrv # <<>> /\ ver \in Nat
      /\ toCli \in Seq(Message) /\ toSrv \in Seq(Message) /\ out \in Seq(Message)
  BY DEF clientVars, HasRead, Known, TypeOK, LinkTypeOK, ClientTypeOK, ServerTypeOK
<1>b. /\ toCli = Incoming /\ Incoming' = toCli \o out'
      /\ Fields(Incoming') = Fields(Incoming) \cup Fields(out')
      /\ toCli = <<>> => Incoming' = out'
  <2>1. toCli = Incoming
    BY <1>a, AfterReply, ConcatEmptySeq DEF Incoming
  <2>2. Fields(toCli \o out') = Fields(toCli) \cup Fields(out')
    BY <1>a, FieldsOfConcat
  <2>3. <<>> \o out' = out'
    BY ConcatEmptySeq
  <2> QED
    BY <1>a, <2>1, <2>2, <2>3 DEF Incoming
<1>c. /\ toSrv' # <<>> => LastOf(toSrv').kind # "name"
      /\ \A m \in Fields(toSrv') : m.kind # "count"
  <2>1. LastOf(toSrv).kind # "name"
    BY <1>a DEF DeliveryInv, Uploads
  <2>2. Sequel(toSrv)
    BY DEF Known, FramingInv, SentInOrder
  <2> QED
    BY <1>a, <2>1, <2>2, CountsComeFirst DEF HasRead
\* The client has nothing to read, and is not at a step that could disagree.
<1>d. /\ pc \notin Gives \cup Acks \cup {"sendText", "sendCount"}
      /\ pc \in {"readMethodStatus", "readDisplayStatus"} \cup SendsText \cup SendsFiles \cup Closes => toCli = <<>>
  <2>1. pc \notin {"place", "ackText", "ackReceived", "ackInfo", "sendText", "sendCount"}
    BY DEF HasRead
  <2>2. Listening => toCli = <<>> /\ pc \notin Gives
    BY ServerTables DEF HasRead, Gives
  <2>3. pc \in {"getText", "getInfo", "getImage", "getCount", "getName", "getBody",
                "readMethodStatus", "readDisplayStatus", "readTextAck", "sendFile", "readFilesAck"} => Listening
    BY ClientTables DEF Listening, Talks
  <2>4. pc \in {"closeSentText", "closeSentFiles"} => ver < 4 /\ pc \in SendsText \cup SendsFiles
    BY DEF DeliveryInv, Uploads, SendsText, SendsFiles
  <2>5. pc \in {"closeSentText", "closeSentFiles"} => Incoming = <<>>
    BY <1>a, <2>4 DEF DeliveryInv, Uploads
  <2>6. pc \in Closes => Incoming = <<>>
    BY DEF DeliveryInv, Downloads
  <2> QED
    BY <1>b, <2>1, <2>2, <2>3, <2>5, <2>6 DEF Gives, Acks, SendsText, SendsFiles
<1>1. Connection'
  BY <1>a DEF DeliveryInv, Connection
<1>2. Told'
  BY <1>a, ToldKept
<1>3. Sound'
  <2>1. \A m \in Fields(Incoming') :
           /\ m.kind = "ack" => m.val = "ok"
           /\ m.kind = "name" => req.method = "GET_FILE"
           /\ m.kind = "body" /\ req.method \in Pictures => m.val = "file"
    BY <1>b DEF DeliveryInv, Sound
  <2>2. ASSUME NEW m \in Fields(Incoming'), m.kind = "count", pc \in {"readMethodStatus", "getCount"}
        PROVE  m.num = Coming'
    <3>1. pc = "readMethodStatus" /\ Incoming' = out'
      BY <1>b, <1>d, <2>2 DEF Gives
    <3>2. m.num = sleft' /\ spc' = "sendFiles" /\ Names(out') = 0
      BY <2>2, <3>1, NamesOfOthers
    <3>3. sleft' \in Nat
      BY DEF TypeOK, ServerTypeOK
    <3>4. Coming' = Names(out') + sleft'
      BY <3>1, <3>2 DEF Coming
    <3>5. \A n \in Nat : 0 + n = n
      OBVIOUS
    <3>6. Coming' = 0 + sleft'
      BY <3>2, <3>4
    <3> QED
      BY <3>2, <3>3, <3>5, <3>6
  <2> QED
    BY <1>a, <1>c, <2>1, <2>2 DEF Sound
<1>4. Uploads'
  <2>1. pc \in SendsText \cup SendsFiles => Incoming' = out'
    BY <1>b, <1>d
  <2>2. Granted' => pc = "readMethodStatus" /\ out' # <<>> /\ FirstOf(out').val = "ok"
    BY <1>a, <1>b, <1>d DEF Granted
  <2>3. UNCHANGED left
    BY <1>a
  <2>4. /\ pc \in {"readFilesAck", "closeSentFiles"} => left = 0
        /\ pc \in {"readTextAck", "readFilesAck"} => ver >= 4
        /\ pc \in {"closeSentText", "closeSentFiles"} => ver < 4
    BY DEF DeliveryInv, Uploads
  <2> QED
    BY <1>a, <1>c, <1>d, <2>1, <2>2, <2>3, <2>4 DEF Uploads, Receiving, Dead
<1>5. Downloads'
  <2>1. Granted' => pc = "readMethodStatus" /\ out' # <<>> /\ FirstOf(out').val = "ok"
    BY <1>a, <1>b, <1>d DEF Granted
  <2>2. pc = "readDisplayStatus" => Incoming' = out'
    BY <1>b, <1>d
  <2>3. pc \in Closes => Incoming' = <<>> /\ Coming' = 0 /\ ver >= 4
    <3>1. pc \in Closes => Incoming' = <<>> /\ spc' = "linger" /\ ver >= 4
      BY <1>b, <1>d DEF DeliveryInv, Downloads
    <3> QED
      BY <3>1, NamesOfEmpty DEF Coming
  <2>4. pc \notin {"getName", "getBody", "place"}
    BY <1>d DEF Gives
  <2> QED
    BY <1>a, <1>d, <2>1, <2>2, <2>3, <2>4 DEF Downloads, Dead
<1> QED
  BY <1>1, <1>2, <1>3, <1>4, <1>5 DEF DeliveryInv

\* Who waits for the field the server reads.
LEMMA WhoWaits ==
  ASSUME Known, DeliveryInv, NEW kind, kind \in DOMAIN ServerExpects, spc = kind,
         ServerReads(kind), UNCHANGED clientVars
  PROVE  /\ HasRead(kind) /\ out = <<>> /\ toSrv' = Tail(toSrv) /\ toSrv \in Seq(Message)
         /\ pc = "readMethodStatus" => kind \in {"answer", "method"}
         /\ pc = "readDisplayStatus" => kind = "display"
         /\ pc \in SendsText => kind = "text"
         /\ pc \in SendsFiles => kind \in {"count", "name", "body"} /\ Receiving
         /\ pc \in Closes => kind = "ack"
         /\ Going = Going' + (IF kind = "name" THEN 1 ELSE 0) /\ Going' \in Nat
<1> HIDE DEF Message
<1>1. HasRead(kind)
  BY ServerReadsOn DEF Known
<1>2. out = <<>> /\ toSrv' = Tail(toSrv) /\ toSrv # <<>> /\ toSrv \in Seq(Message)
      /\ Head(toSrv).kind = kind /\ left \in Nat /\ left' = left
  BY DEF ServerReads, Known, TypeOK, LinkTypeOK, ClientTypeOK, clientVars
<1>3. pc \in {"readMethodStatus", "readDisplayStatus"} => pc = ReplyTo[kind] /\ kind \in DOMAIN ReplyTo
  BY <1>1, ClientTables DEF HasRead, Listening
<1>4. ~Dead
  BY ServerTables DEF Dead
<1>5. /\ pc = "readMethodStatus" => kind \in {"answer", "method"}
      /\ pc = "readDisplayStatus" => kind = "display"
  BY <1>3, ServerTables
<1>6. /\ pc \in SendsText => kind = "text"
      /\ pc \in SendsFiles => kind \in {"count", "name", "body"} /\ Receiving
  BY <1>4 DEF DeliveryInv, Uploads, Receiving
<1>7. pc \in Closes => kind = "ack"
  BY ServerTables DEF DeliveryInv, Downloads
<1>8. Tail(toSrv) \in Seq(Message) /\ FirstOf(toSrv) = Head(toSrv)
  BY <1>2, EndsOfTail
<1>9. /\ Names(toSrv) = Names(Tail(toSrv)) + (IF kind = "name" THEN 1 ELSE 0)
      /\ Names(Tail(toSrv)) \in Nat
  BY <1>2, <1>8, NamesOfTail, NamesType
<1>10. Going' = Names(Tail(toSrv)) + left
  BY <1>2 DEF Going
<1>11. Going = Going' + (IF kind = "name" THEN 1 ELSE 0) /\ Going' \in Nat
  BY <1>2, <1>9, <1>10 DEF Going
<1> QED
  BY <1>1, <1>2, <1>5, <1>6, <1>7, <1>11

\* The version, the answer to an offer, and the acknowledgement.
LEMMA ServerAgreesDelivers ==
  ASSUME Faults = {}, Known, TypeOK', DeliveryInv, UNCHANGED clientVars,
         ServerReadsVersion \/ ServerReadsAnswer \/ ServerReadsAck
  PROVE  DeliveryInv'
<1>a. /\ srv.min \in Nat \ {0} /\ srv.max \in Nat \ {0} /\ out' \in Seq(Message)
  BY ServerRangesAssumption DEF Known, NegotiationInv, TypeOK, ServerTypeOK
<1>1. CASE ServerReadsVersion
  <2>1. spc = "version" /\ ServerReads("version") /\ got' = got /\ toSrv # <<>> /\ Head(toSrv) \in Message
    BY <1>1, WhoWaits, ServerTables DEF ServerReadsVersion, HasRead
  <2>2. HasRead("version") /\ toSrv' = Tail(toSrv)
        /\ pc \notin {"readMethodStatus", "readDisplayStatus"} \cup SendsText \cup SendsFiles \cup Closes
    BY <2>1, WhoWaits, ServerTables
  <2>3. /\ out' = <<Msg("status", "obsolete")>> \/ out' = <<Msg("status", "supported")>>
           \/ out' = <<Msg("status", "unknown"), NumMsg("offer", srv.max)>>
        /\ spc' \in {"linger", "answer", "method"} /\ (spc' = "method" => sver' # 0)
    BY <1>1, <1>a DEF ServerReadsVersion, Reply
  <2>4. /\ Msg("status", "obsolete") \in Message /\ Msg("status", "supported") \in Message
        /\ Msg("status", "unknown") \in Message /\ NumMsg("offer", srv.max) \in Message
    BY <1>a, ServerMessages
  <2>5. \A m \in Fields(out') : m.kind \in {"status", "offer"}
    <3>1. \A m \in Message : Fields(<<m>>) = {m}
      BY FieldsOfReply
    <3>3. \A m, n \in Message : Fields(<<m, n>>) = {m, n}
      BY FieldsOfReply
    <3>2. /\ \A val : Msg("status", val).kind = "status"
          /\ \A n : NumMsg("offer", n).kind = "offer"
      BY DEF Msg, NumMsg
    <3> HIDE DEF Message
    <3> QED
      BY <2>3, <2>4, <3>1, <3>2, <3>3
  <2> QED
    BY <1>a, <2>1, <2>2, <2>3, <2>5, ReadDelivers
<1>2. CASE ServerReadsAnswer
  <2>1. spc = "answer" /\ ServerReads("answer") /\ got' = got /\ out' = out
    BY <1>2 DEF ServerReadsAnswer
  <2>2. HasRead("answer") /\ toSrv' = Tail(toSrv) /\ out' = <<>>
        /\ pc \notin {"readDisplayStatus"} \cup SendsText \cup SendsFiles \cup Closes
    BY <2>1, WhoWaits, ServerTables
  <2>3. spc' \in {"linger", "method"} /\ (spc' = "method" => sver' # 0)
    BY <1>2, <1>a DEF ServerReadsAnswer
  <2> QED
    BY <1>a, <2>1, <2>2, <2>3, FieldsOfEmpty, ReadDelivers
<1>3. CASE ServerReadsAck
  <2>1. spc = "ack" /\ ServerReads("ack") /\ got' = got /\ out' = out /\ spc' = "linger"
    BY <1>3 DEF ServerReadsAck
  <2>2. HasRead("ack") /\ toSrv' = Tail(toSrv) /\ out' = <<>>
        /\ pc \notin {"readMethodStatus", "readDisplayStatus"} \cup SendsText \cup SendsFiles
    BY <2>1, WhoWaits, ServerTables
  <2> QED
    BY <1>a, <2>1, <2>2, FieldsOfEmpty, ReadDelivers
<1> QED
  BY <1>1, <1>2, <1>3

\* The method.
LEMMA ServerGrantsDelivers ==
  ASSUME Faults = {}, Known, TypeOK', DeliveryInv, UNCHANGED clientVars, ServerReadsMethod
  PROVE  DeliveryInv'
<1> HIDE DEF Message
<1>a. /\ spc = "method" /\ ServerReads("method") /\ UNCHANGED <<srv, sver, got>>
      /\ out' \in Seq(Message) /\ sver # 0 /\ sver \in Nat
  BY DEF ServerReadsMethod, TypeOK, ServerTypeOK, Known, DeliveryInv, Connection
<1>b. HasRead("method") /\ toSrv' = Tail(toSrv) /\ Head(toSrv).val = req.method
      /\ pc \notin {"readDisplayStatus"} \cup SendsText \cup SendsFiles \cup Closes
  BY <1>a, WhoWaits, ServerTables DEF HasRead
<1>c. pc = "readMethodStatus" => ver = sver
  BY <1>a, OneVersion DEF Relies
<1>d. \A m \in Message : Fields(<<m>>) = {m} /\ FirstOf(<<m>>) = m
  BY FieldsOfReply DEF FirstOf
<1>e. \A m, n \in Message : Fields(<<m, n>>) = {m, n} /\ FirstOf(<<m, n>>) = m
  BY FieldsOfReply DEF FirstOf
<1>f. /\ \A val \in {"ok", "noData", "notImplemented", "unknownMethod"} : Msg("mstatus", val) \in Message
      /\ Msg("text", "ok") \in Message /\ Msg("info", "ok") \in Message /\ Msg("body", "file") \in Message
      /\ \A n \in Nat : NumMsg("count", n) \in Message
      /\ \A kind, val : Msg(kind, val).kind = kind /\ Msg(kind, val).val = val
      /\ \A kind, n : NumMsg(kind, n).kind = kind /\ NumMsg(kind, n).num = n
  BY ServerMessages DEF Msg, NumMsg
\* The reply and what comes next decide the rest.
<1>g. ASSUME \A m \in Fields(out') :
                /\ m.kind \in {"mstatus", "text", "info", "body", "count"}
                /\ m.kind = "body" => m.val = "file"
                /\ m.kind = "count" => spc' = "sendFiles" /\ m.num = sleft',
             spc' = "sendFiles" => req.method = "GET_FILE",
             \/ FirstOf(out').val # "ok"
             \/ req.method = "SEND_TEXT" /\ spc' = "text"
             \/ req.method = "SEND_FILE" /\ (IF sver = 1 THEN spc' = "name" /\ sleft' = 1 ELSE spc' = "count")
             \/ req.method = "GET_SCREENSHOT"
             \/ req.method \notin Sends \cup {"GET_SCREENSHOT"} /\ spc' \in {AfterSending(sver), "sendFiles"}
      PROVE  DeliveryInv'
  <2>1. \A m \in Fields(out') :
            /\ m.kind = "ack" => m.val = "ok"
            /\ m.kind # "name"
            /\ m.kind = "body" /\ req.method \in Pictures => m.val = "file"
            /\ m.kind = "count" /\ pc = "readMethodStatus" => spc' = "sendFiles" /\ m.num = sleft'
    BY <1>g
  <2>2. pc = "readMethodStatus" /\ out' # <<>> /\ FirstOf(out').val = "ok" =>
            /\ req.method = "SEND_TEXT" => spc' = "text"
            /\ req.method = "SEND_FILE" =>
                  IF ver = 1 THEN spc' = "name" /\ sleft' = 1 ELSE spc' = "count"
            /\ req.method \notin Sends \cup {"GET_SCREENSHOT"} =>
                  IF Dead' THEN ver < 4 ELSE spc' \in {"sendFiles", "ack"}
    BY <1>a, <1>c, <1>g DEF AfterSending, Dead, Sends
  <2> QED
    BY <1>a, <1>b, <1>g, <2>1, <2>2, ReadDelivers
<1> DEFINE ok == Msg("mstatus", "ok")
<1>1. CASE \E status \in {"noData", "notImplemented", "unknownMethod"} :
              out' = <<Msg("mstatus", status)>> /\ spc' = "linger"
  BY <1>1, <1>d, <1>f, <1>g
<1>2. CASE req.method = "GET_TEXT" /\ out' = <<ok, Msg("text", "ok")>> /\ spc' = AfterSending(sver)
  BY <1>2, <1>e, <1>f, <1>g DEF Sends, AfterSending
<1>3. CASE req.method = "INFO" /\ out' = <<ok, Msg("info", "ok")>> /\ spc' = AfterSending(sver)
  BY <1>3, <1>e, <1>f, <1>g DEF Sends, AfterSending
<1>4. CASE req.method \in Images /\ out' = <<ok, Msg("body", "file")>> /\ spc' = AfterSending(sver)
  BY <1>4, <1>e, <1>f, <1>g DEF Sends, AfterSending, Images
<1>5. CASE /\ req.method = "GET_FILE" /\ spc' = "sendFiles"
           /\ \E n \in 1 .. MaxFiles : out' = <<ok, NumMsg("count", n)>> /\ sleft' = n
  <2>1. PICK n \in 1 .. MaxFiles : out' = <<ok, NumMsg("count", n)>> /\ sleft' = n
    BY <1>5
  <2>2. n \in Nat
    BY <2>1, MaxFilesAssumption
  <2>3. NumMsg("count", n) \in Message
    BY <1>f, <2>2
  <2> QED
    BY <1>5, <1>e, <1>f, <1>g, <2>1, <2>3 DEF Sends
<1>6. CASE req.method = "GET_SCREENSHOT" /\ out' = <<ok>> /\ spc' = "display"
  BY <1>6, <1>d, <1>f, <1>g
<1>7. CASE req.method = "SEND_TEXT" /\ out' = <<ok>> /\ spc' = "text"
  BY <1>7, <1>d, <1>f, <1>g
<1>8. CASE /\ req.method = "SEND_FILE" /\ out' = <<ok>>
           /\ \/ sver = 1 /\ sleft' = 1 /\ spc' = "name"
              \/ sver > 1 /\ spc' = "count"
  BY <1>8, <1>a, <1>d, <1>f, <1>g
<1> QED
  BY <1>1, <1>2, <1>3, <1>4, <1>5, <1>6, <1>7, <1>8, <1>b DEF ServerReadsMethod, Reply

\* The screenshot's display, and the text or the files the client sends.
LEMMA ServerReceivesDelivers ==
  ASSUME Faults = {}, Known, TypeOK', DeliveryInv, UNCHANGED clientVars,
         \/ ServerReadsDisplay \/ ServerReadsText
         \/ ServerReadsCount \/ ServerReadsName \/ ServerReadsBody
  PROVE  DeliveryInv'
<1> HIDE DEF Message
<1>a. /\ out' \in Seq(Message) /\ sver \in Nat /\ sleft \in Nat /\ left \in Nat
      /\ UNCHANGED <<req, pc, ver, left, sver>> /\ spc \in DOMAIN ServerExpects /\ sver # 0
  BY ServerTables DEF ServerReadsDisplay, ServerReadsText, ServerReadsCount, ServerReadsName, ServerReadsBody,
         TypeOK, ServerTypeOK, ClientTypeOK, Known, DeliveryInv, Connection, clientVars
<1>b. pc \in SendsText \cup SendsFiles \cup {"readDisplayStatus"} => ver = sver
  <2>1. spc \notin {"version", "answer", "linger", "closed"}
    BY DEF ServerReadsDisplay, ServerReadsText, ServerReadsCount, ServerReadsName, ServerReadsBody
  <2> QED
    BY <2>1, OneVersion DEF Relies
<1>c. \A m \in Message : Fields(<<m>>) = {m} /\ FirstOf(<<m>>) = m
  BY FieldsOfReply DEF FirstOf
<1>d. \A m, n \in Message : Fields(<<m, n>>) = {m, n} /\ FirstOf(<<m, n>>) = m
  BY FieldsOfReply DEF FirstOf
<1>e. /\ \A val \in {"ok", "noData"} : Msg("dstatus", val) \in Message
      /\ Msg("ack", "ok") \in Message /\ Msg("body", "file") \in Message
      /\ \A kind, val : Msg(kind, val).kind = kind /\ Msg(kind, val).val = val
  BY ServerMessages DEF Msg
\* The acknowledgement of version 4.
<1>f. ASSUME out' = ReplyAfterReceiving(sver)
      PROVE  /\ \A m \in Fields(out') : m.kind = "ack" /\ m.val = "ok"
             /\ IF sver >= 4 THEN out' # <<>> ELSE out' = <<>>
  <2>1. CASE sver >= 4
    <3>1. out' = <<Msg("ack", "ok")>>
      BY <1>f, <2>1 DEF ReplyAfterReceiving
    <3> QED
      BY <1>c, <1>e, <2>1, <3>1
  <2>2. CASE ~(sver >= 4)
    <3>1. out' = <<>>
      BY <1>f, <2>2 DEF ReplyAfterReceiving
    <3> QED
      BY <2>2, <3>1, FieldsOfEmpty
  <2> QED
    BY <2>1, <2>2
<1>1. CASE ServerReadsDisplay
  <2>1. spc = "display" /\ ServerReads("display") /\ got' = got
    BY <1>1 DEF ServerReadsDisplay
  <2>2. HasRead("display") /\ toSrv' = Tail(toSrv)
        /\ pc \notin {"readMethodStatus"} \cup SendsText \cup SendsFiles \cup Closes
    BY <2>1, WhoWaits, ServerTables
  <2>3. /\ \A m \in Fields(out') : m.kind = "dstatus" \/ (m.kind = "body" /\ m.val = "file")
        /\ spc' \in {"ack", "linger"} /\ spc' # "sendFiles"
        /\ FirstOf(out').val = "ok" => spc' = AfterSending(sver)
    <3>1. CASE out' = <<Msg("dstatus", "ok"), Msg("body", "file")>> /\ spc' = AfterSending(sver)
      BY <3>1, <1>d, <1>e DEF AfterSending
    <3>2. CASE out' = <<Msg("dstatus", "noData")>> /\ spc' = "linger"
      BY <3>2, <1>c, <1>e
    <3> QED
      BY <1>1, <3>1, <3>2 DEF ServerReadsDisplay, Reply
  <2>4. pc = "readDisplayStatus" /\ out' # <<>> /\ FirstOf(out').val = "ok" =>
           IF Dead' THEN ver < 4 ELSE spc' \in {"sendFiles", "ack"}
    BY <1>a, <1>b, <2>3 DEF AfterSending, Dead
  <2> QED
    BY <1>a, <2>1, <2>2, <2>3, <2>4, ReadDelivers
<1>2. CASE ServerReadsText
  <2>1. spc = "text" /\ ServerReads("text") /\ got' /\ spc' = "linger" /\ out' = ReplyAfterReceiving(sver)
    BY <1>2 DEF ServerReadsText, Reply
  <2>2. HasRead("text") /\ toSrv' = Tail(toSrv)
        /\ pc \notin {"readMethodStatus", "readDisplayStatus"} \cup SendsFiles \cup Closes
    BY <2>1, WhoWaits, ServerTables
  <2>3. pc \in SendsText \cup SendsFiles => IF ver >= 4 THEN Dead' => out' # <<>> ELSE out' = <<>>
    BY <1>b, <1>f, <2>1
  <2>4. Dead'
    BY <2>1 DEF Dead
  <2> QED
    BY <1>a, <1>f, <2>1, <2>2, <2>3, <2>4, ReadDelivers
<1>3. CASE ServerReadsCount
  <2>1. /\ spc = "count" /\ ServerReads("count") /\ got' = got /\ out' = out
        /\ sleft' = Head(toSrv).num /\ spc' = IF Head(toSrv).num = 0 THEN "linger" ELSE "name"
    BY <1>3 DEF ServerReadsCount
  <2>2. /\ HasRead("count") /\ toSrv' = Tail(toSrv) /\ out' = <<>> /\ Going = Going' /\ Going' \in Nat
        /\ pc \notin {"readMethodStatus", "readDisplayStatus"} \cup SendsText \cup Closes
        /\ toSrv \in Seq(Message)
    <3>1. Going = Going' + 0
      BY <2>1, WhoWaits, ServerTables
    <3> QED
      BY <2>1, <3>1, WhoWaits, ServerTables
  <2>3. pc \in SendsFiles => Receiving' /\ spc' = "name"
    <3>1. Head(toSrv) \in Fields(toSrv) /\ Head(toSrv).kind = "count"
      BY <2>2, FieldsOfTail DEF HasRead
    <3>2. pc \in SendsFiles => Head(toSrv).num = Going /\ Going # 0
      BY <3>1 DEF DeliveryInv, Sound
    <3> QED
      BY <2>1, <2>2, <3>2 DEF Receiving
  <2> QED
    BY <1>a, <2>1, <2>2, <2>3, FieldsOfEmpty, ReadDelivers DEF Dead
<1>4. CASE ServerReadsName
  <2>1. spc = "name" /\ ServerReads("name") /\ got' = got /\ out' = out /\ sleft' = sleft /\ spc' = "body"
    BY <1>4 DEF ServerReadsName
  <2>2. /\ HasRead("name") /\ toSrv' = Tail(toSrv) /\ out' = <<>> /\ Going = Going' + 1 /\ Going' \in Nat
        /\ pc \notin {"readMethodStatus", "readDisplayStatus"} \cup SendsText \cup Closes
        /\ pc \in SendsFiles => Receiving
    BY <2>1, WhoWaits, ServerTables
  <2>3. toSrv' # <<>>
    BY <2>2 DEF HasRead, DeliveryInv, Uploads
  <2>4. pc \in SendsFiles => Receiving'
    BY <2>1, <2>2, <2>3 DEF Receiving, Dead
  <2> QED
    BY <1>a, <2>1, <2>2, <2>4, FieldsOfEmpty, ReadDelivers DEF Dead
<1>5. CASE ServerReadsBody
  <2>1. /\ spc = "body" /\ ServerReads("body") /\ sleft' = sleft - 1
        /\ \/ sleft > 1 /\ spc' = "name" /\ UNCHANGED <<out, got>>
           \/ sleft <= 1 /\ got' = TRUE /\ out' = ReplyAfterReceiving(sver) /\ spc' = "linger"
    BY <1>5 DEF ServerReadsBody, Reply
  <2>2. /\ HasRead("body") /\ toSrv' = Tail(toSrv) /\ out = <<>> /\ Going = Going' /\ Going' \in Nat
        /\ pc \notin {"readMethodStatus", "readDisplayStatus"} \cup SendsText \cup Closes
        /\ pc \in SendsFiles => Receiving
    <3>1. Going = Going' + 0
      BY <2>1, WhoWaits, ServerTables
    <3> QED
      BY <2>1, <3>1, WhoWaits, ServerTables
  <2>3. CASE sleft > 1 /\ spc' = "name" /\ UNCHANGED <<out, got>>
    <3>1. pc \in SendsFiles => Receiving'
      <4>1. pc \in SendsFiles => sleft = Going + 1
        BY <2>1, <2>2 DEF Receiving, Dead
      <4>2. \A s, g \in Nat : s = g + 1 /\ s > 1 => s - 1 = g /\ s - 1 > 0
        OBVIOUS
      <4>3. sleft \in Nat /\ Going \in Nat /\ Going' = Going /\ sleft' = sleft - 1 /\ sleft > 1
        BY <1>a, <2>1, <2>2, <2>3
      <4>4. pc \in SendsFiles => sleft' = Going' /\ sleft' > 0
        <5> HIDE DEF Going
        <5> QED
          BY <4>1, <4>2, <4>3
      <4> QED
        BY <2>3, <4>4 DEF Receiving
    <3> QED
      BY <1>a, <2>1, <2>2, <2>3, <3>1, FieldsOfEmpty, ReadDelivers DEF Dead
  <2>4. CASE sleft <= 1 /\ got' = TRUE /\ out' = ReplyAfterReceiving(sver) /\ spc' = "linger"
    <3>1. pc \in SendsFiles => Receiving'
      <4>1. pc \in SendsFiles => sleft = Going + 1
        BY <2>1, <2>2 DEF Receiving, Dead
      <4>a. \A s, g \in Nat : s = g + 1 /\ s <= 1 => g = 0
        OBVIOUS
      <4>b. sleft \in Nat /\ Going \in Nat /\ sleft <= 1
        BY <1>a, <2>2, <2>4
      <4>2. pc \in SendsFiles => Going = 0
        BY <4>1, <4>a, <4>b
      <4>3. Going = Names(toSrv) + left /\ Names(toSrv) \in Nat
        BY NamesType DEF Going, Known, TypeOK, LinkTypeOK
      <4>4. pc \in SendsFiles => left = 0
        BY <1>a, <4>2, <4>3
      <4> QED
        BY <1>a, <2>4, <4>4 DEF Receiving, Dead
    <3>2. pc \in SendsText \cup SendsFiles => IF ver >= 4 THEN Dead' => out' # <<>> ELSE out' = <<>>
      BY <1>b, <1>f, <2>4
    <3> QED
      BY <1>a, <1>f, <2>1, <2>2, <2>4, <3>1, <3>2, ReadDelivers
  <2> QED
    BY <2>1, <2>3, <2>4
<1> QED
  BY <1>1, <1>2, <1>3, <1>4, <1>5

\* No step of the server breaks it.
LEMMA ServerDelivers ==
  ASSUME Faults = {}, Known, TypeOK', DeliveryInv, ServerNext \/ ServerCrashes, UNCHANGED clientVars
  PROVE  DeliveryInv'
<1>1. CASE ServerWrites \/ ServerGivesUp \/ ServerCloses
  BY <1>1, ServerRestDelivers
<1>2. CASE ServerSendsFile
  BY <1>2, ServerSendDelivers
<1>3. CASE ServerReadsVersion \/ ServerReadsAnswer \/ ServerReadsAck
  BY <1>3, ServerAgreesDelivers
<1>4. CASE ServerReadsMethod
  BY <1>4, ServerGrantsDelivers
<1>5. CASE \/ ServerReadsDisplay \/ ServerReadsText
           \/ ServerReadsCount \/ ServerReadsName \/ ServerReadsBody
  BY <1>5, ServerReceivesDelivers
<1>6. ~ServerCrashes
  BY NoFaults DEF ServerCrashes
<1> QED
  BY <1>1, <1>2, <1>3, <1>4, <1>5, <1>6 DEF ServerNext

-----------------------------------------------------------------------------
(* The theorem *)

\* It holds at the start.
LEMMA DeliveryInit == Init => DeliveryInv
<1> SUFFICES ASSUME Init PROVE DeliveryInv
  OBVIOUS
<1>1. /\ toSrv = <<>> /\ toCli = <<>> /\ out = <<>> /\ pc = "start" /\ spc = "version" /\ sver = 0
      /\ ans = "none" /\ ret = "none"
  BY DEF Init, LinkInit, ClientInit, ServerInit
<1>2. Incoming = <<>>
  <2>1. <<>> \in Seq(Message)
    OBVIOUS
  <2> QED
    BY <1>1, <2>1, ConcatEmptySeq DEF Incoming
<1> QED
  BY <1>1, <1>2, FieldsOfEmpty DEF DeliveryInv, Connection, Sound, Uploads, Downloads, Told, Over, Granted,
     Gives, Acks, Closes, SendsText, SendsFiles

\* Every step keeps it.
LEMMA DeliveryStep ==
  ASSUME Faults = {}, Known, TypeOK', DeliveryInv, [Next]_vars
  PROVE  DeliveryInv'
<1>1. CASE ClientNext /\ UNCHANGED serverVars
  BY <1>1, ClientDelivers
<1>2. CASE (ServerNext \/ ServerCrashes) /\ UNCHANGED clientVars
  BY <1>2, ServerDelivers
<1>3. CASE UNCHANGED vars
  BY <1>3 DEF vars, linkVars, clientVars, serverVars, DeliveryInv, Connection, Sound, Uploads, Downloads, Told,
     Over, Granted, Coming, Going, Incoming, Dead, Delivered
<1> QED
  BY <1>1, <1>2, <1>3 DEF Next, Terminated

\* Between programs and machines that do not fail, SUCCESS means that the data
\* is where it was to go, and the answer of a web request says the same.
THEOREM SuccessIsDelivery ==
  ASSUME Faults = {}
  PROVE  Spec => []OkMeansDelivered
<1>1. DeliveryInv => OkMeansDelivered
  BY DEF DeliveryInv, Told, Over, OkMeansDelivered, Done
<1>2. Known /\ TypeOK' /\ DeliveryInv /\ [Next]_vars => DeliveryInv'
  BY DeliveryStep
<1>3. TypeOK /\ NegotiationInv /\ FramingInv /\ OutcomeInv => Known
  BY DEF Known
<1> QED
  BY <1>1, <1>2, <1>3, DeliveryInit, TypeCorrect, NegotiationAlways, FramingAlways, OutcomeAlways, PTL DEF Spec

-----------------------------------------------------------------------------
(***************************************************************************)
(* A request implements Exchange, as far as safety goes.  Liveness, which   *)
(* Exchange!Spec adds, stays with the model checker.                        *)
(***************************************************************************)

\* Files are only put in place by the last steps of a handler.
PlacedLast ==
    disk = "placed" => pc \in {"ackReceived", "closeReceived", "cutReceived", "returned", "done"}

\* No step of the client takes back what has arrived.
LEMMA ClientKeepsMoved ==
  ASSUME TypeOK, PlacedLast, ClientNext, UNCHANGED serverVars
  PROVE  /\ PlacedLast' /\ (clip => clip') /\ req' = req /\ got' = got
         /\ disk = "placed" => disk' = "placed"
         /\ pc = "returned" => Finish \/ NotStarted
         /\ pc # "done"
         /\ pc' = "done" => Finish \/ NotStarted
<1>a. got' = got /\ req' = req
  BY ClientSettles DEF serverVars
<1>b. HandlerOf[req.method] \notin {"returned", "done"} /\ req.method \in MethodSet
  BY DEF HandlerOf, MethodSet, Sends, TypeOK, ClientTypeOK, Request
<1> USE <1>a, <1>b DEF PlacedLast, GoTo, Return, Fail, FailSilently, Received
<1>1. CASE NotStarted
  BY <1>1 DEF NotStarted
<1>2. CASE Connect
  BY <1>2 DEF Connect
<1>3. CASE Finish
  BY <1>3 DEF Finish
<1>4. CASE SendVersion
  BY <1>4 DEF SendVersion
<1>5. CASE ReadStatus
  BY <1>5 DEF ReadStatus
<1>6. CASE ReadOffer
  BY <1>6 DEF ReadOffer
<1>7. CASE AcceptOffer
  BY <1>7 DEF AcceptOffer
<1>8. CASE SendMethod
  BY <1>8 DEF SendMethod
<1>9. CASE ReadMethodStatus
  BY <1>9 DEF ReadMethodStatus
<1>10. CASE GetText
  BY <1>10 DEF GetText
<1>11. CASE AckText
  BY <1>11 DEF AckText
<1>12. CASE CloseText
  BY <1>12 DEF CloseText
<1>13. CASE StoreText
  BY <1>13 DEF StoreText
<1>14. CASE SendText
  BY <1>14 DEF SendText
<1>15. CASE ReadTextAck
  BY <1>15 DEF ReadTextAck
<1>16. CASE CloseSentText
  BY <1>16 DEF CloseSentText
<1>17. CASE SendCount
  BY <1>17 DEF SendCount
<1>18. CASE SendFile
  BY <1>18 DEF SendFile
<1>19. CASE FilesSent
  BY <1>19 DEF FilesSent
<1>20. CASE ReadFilesAck
  BY <1>20 DEF ReadFilesAck
<1>21. CASE CloseSentFiles
  BY <1>21 DEF CloseSentFiles
<1>22. CASE GetCount
  BY <1>22 DEF GetCount
<1>23. CASE GetName
  BY <1>23 DEF GetName
<1>24. CASE GetBody
  BY <1>24 DEF GetBody
<1>25. CASE Place
  BY <1>25 DEF Place
<1>26. CASE AckReceived
  BY <1>26 DEF AckReceived
<1>27. CASE CloseReceived
  BY <1>27 DEF CloseReceived
<1>28. CASE CutReceived
  BY <1>28 DEF CutReceived
<1>29. CASE SendDisplay
  BY <1>29 DEF SendDisplay
<1>30. CASE ReadDisplayStatus
  BY <1>30 DEF ReadDisplayStatus
<1>31. CASE GetImage
  BY <1>31 DEF GetImage
<1>32. CASE GetInfo
  BY <1>32 DEF GetInfo
<1>33. CASE AckInfo
  BY <1>33 DEF AckInfo
<1>34. CASE CloseInfo
  BY <1>34 DEF CloseInfo
<1> QED
  BY <1>1, <1>2, <1>3, <1>4, <1>5, <1>6, <1>7, <1>8, <1>9, <1>10, <1>11, <1>12, <1>13, <1>14, <1>15, <1>16, <1>17, <1>18, <1>19, <1>20, <1>21, <1>22, <1>23, <1>24, <1>25, <1>26, <1>27, <1>28, <1>29, <1>30, <1>31, <1>32, <1>33, <1>34 DEF ClientNext

\* Nor does one of the server.
LEMMA ServerKeepsMoved ==
  ASSUME TypeOK, ServerNext \/ ServerCrashes
  PROVE  got => got'
BY DEF ServerNext, ServerCrashes, ServerWrites, ServerGivesUp, ServerCloses, ServerReadsVersion, ServerReadsAnswer,
   ServerReadsMethod, ServerSendsFile, ServerReadsDisplay, ServerReadsText, ServerReadsCount, ServerReadsName,
   ServerReadsBody, ServerReadsAck

\* Files are put in place last in every state.
LEMMA PlacedLastAlways == Spec => []PlacedLast
<1>1. Init => PlacedLast
  BY DEF Init, ClientInit, PlacedLast
<1>2. TypeOK /\ PlacedLast /\ [Next]_vars => PlacedLast'
  BY ClientKeepsMoved DEF Next, Terminated, PlacedLast, vars, clientVars
<1> QED
  BY <1>1, <1>2, TypeCorrect, PTL DEF Spec

\* Whether the data has moved is yes or no, before and after a step.
LEMMA MovedType ==
  ASSUME TypeOK, TypeOK', req' = req
  PROVE  Moved \in BOOLEAN /\ Moved' \in BOOLEAN
<1>a. {got, clip, got', clip'} \subseteq BOOLEAN
  BY DEF TypeOK, ClientTypeOK, ServerTypeOK
<1>1. CASE req.method = "INFO"
  BY <1>1 DEF Moved
<1>2. CASE req.method \in Sends
  <2>1. Moved = got /\ Moved' = got'
    BY <1>2 DEF Moved, Delivered, Sends
  <2> QED
    BY <1>a, <2>1
<1>3. CASE req.method = "GET_TEXT"
  <2>1. Moved = clip /\ Moved' = clip'
    BY <1>3 DEF Moved, Delivered, Sends
  <2> QED
    BY <1>a, <2>1
<1>4. CASE req.method \notin Sends \cup {"INFO", "GET_TEXT"}
  <2>1. Moved = (disk = "placed") /\ Moved' = (disk' = "placed")
    BY <1>4 DEF Moved, Delivered
  <2> QED
    BY <2>1
<1> QED
  BY <1>1, <1>2, <1>3, <1>4

\* A step that shows nothing and takes nothing back is one of Exchange, or none.
LEMMA MovesOnly ==
  ASSUME Moved \in BOOLEAN, Moved' \in BOOLEAN, Moved => Moved', Shown' = Shown
  PROVE  [Promise!Next]_<<Moved, Shown>>
<1>1. CASE Moved' = Moved
  BY <1>1
<1>2. CASE Moved' # Moved
  <2>1. ~Moved /\ Moved' = TRUE
    BY <1>2
  <2>2. Promise!Move
    BY <2>1 DEF Promise!Move, Shown
  <2> QED
    BY <2>2 DEF Promise!Next
<1> QED
  BY <1>1, <1>2

\* A step of the client moves the data or shows the result, and not both.
LEMMA ClientIsExchange ==
  ASSUME Known, TypeOK', PlacedLast, OkMeansDelivered', ClientNext, UNCHANGED serverVars
  PROVE  [Promise!Next]_<<Moved, Shown>>
<1>a. /\ (clip => clip') /\ req' = req /\ got' = got /\ (disk = "placed" => disk' = "placed")
      /\ pc # "done" /\ (pc' = "done" => Finish \/ NotStarted) /\ (pc = "returned" => Finish \/ NotStarted)
  BY ClientKeepsMoved DEF Known
<1>b. req.method \in MethodSet /\ (ret # "none" => pc \in {"returned", "done"})
  BY DEF Known, TypeOK, ClientTypeOK, Request, OutcomeInv, Reported
<1>1. CASE pc' # "done"
  <2>1. Shown = "none" /\ Shown' = "none"
    BY <1>a, <1>1 DEF Shown, Done
  <2>2. ret # "none" => FALSE
    BY <1>a, <1>b, <1>1 DEF Finish, NotStarted
  <2>3. Moved => Moved'
    BY <1>a, <2>2 DEF Moved, Delivered
  <2>4. Moved \in BOOLEAN /\ Moved' \in BOOLEAN
    BY <1>a, MovedType DEF Known
  <2> QED
    BY <2>1, <2>3, <2>4, MovesOnly
<1>2. CASE pc' = "done"
  <2>1. UNCHANGED <<clip, disk>> /\ (ret' = ret \/ (ret = "none" /\ ret' = "FAILURE"))
    BY <1>a, <1>b, <1>2 DEF Finish, NotStarted
  <2>2. Moved' = Moved
    BY <1>a, <2>1 DEF Moved, Delivered
  <2>3. Shown = "none" /\ Shown' \in {"success", "failure"}
    BY <1>a, <1>2 DEF Shown, Done
  <2>4. Shown' = "success" => Moved'
    BY <1>2 DEF Shown, Done, OkMeansDelivered, Moved
  <2> QED
    BY <2>2, <2>3, <2>4 DEF Promise!Next, Promise!Conclude, Shown, Moved
<1> QED
  BY <1>1, <1>2

\* A step of the server moves the data or does nothing that is promised.
LEMMA ServerIsExchange ==
  ASSUME TypeOK, TypeOK', ServerNext \/ ServerCrashes, UNCHANGED clientVars
  PROVE  [Promise!Next]_<<Moved, Shown>>
<1>1. UNCHANGED <<req, pc, ans, ret, clip, disk>> /\ (got => got')
  BY ServerKeepsMoved DEF clientVars
<1>2. Shown' = Shown
  BY <1>1 DEF Shown, Done
<1>3. Moved => Moved'
  BY <1>1 DEF Moved, Delivered
<1>4. Moved \in BOOLEAN /\ Moved' \in BOOLEAN
  BY <1>1, MovedType
<1> QED
  BY <1>2, <1>3, <1>4, MovesOnly

\* A request between programs that do not fail is an Exchange, as far as safety
\* goes: every step moves the data, shows the one result, or does neither.
THEOREM RequestIsExchange ==
  ASSUME Faults = {}
  PROVE  Spec => Promise!Safety
<1>1. Init => Promise!Init
  <2> SUFFICES ASSUME Init PROVE Promise!Init
    OBVIOUS
  <2>1. /\ pc = "start" /\ ret = "none" /\ clip = FALSE /\ disk = "none" /\ got = FALSE
    BY DEF Init, ClientInit, ServerInit
  <2> QED
    BY <2>1 DEF Promise!Init, Shown, Moved, Delivered, Done
<1>2. Known /\ TypeOK' /\ PlacedLast /\ OkMeansDelivered' /\ [Next]_vars => [Promise!Next]_<<Moved, Shown>>
  <2> SUFFICES ASSUME Known, TypeOK', PlacedLast, OkMeansDelivered', [Next]_vars
               PROVE  [Promise!Next]_<<Moved, Shown>>
    OBVIOUS
  <2>1. CASE ClientNext /\ UNCHANGED serverVars
    BY <2>1, ClientIsExchange
  <2>2. CASE (ServerNext \/ ServerCrashes) /\ UNCHANGED clientVars
    BY <2>2, ServerIsExchange DEF Known
  <2>3. CASE UNCHANGED vars
    BY <2>3 DEF vars, linkVars, clientVars, serverVars, Moved, Delivered, Shown, Done
  <2> QED
    BY <2>1, <2>2, <2>3 DEF Next, Terminated
<1>3. TypeOK /\ NegotiationInv /\ FramingInv /\ OutcomeInv => Known
  BY DEF Known
<1> QED
  BY <1>1, <1>2, <1>3, TypeCorrect, NegotiationAlways, FramingAlways, OutcomeAlways, PlacedLastAlways,
     SuccessIsDelivery, PTL DEF Spec, Promise!Safety, Shown
=============================================================================
